--------------------------- MODULE TelemetryProofs ---------------------------
(***************************************************************************)
(* Theorems about Telemetry, for any modules, rows, ranges and windows.    *)
(*                                                                         *)
(* Three invariants.  WindowInv: the window holds, for each frame the data *)
(* set has in its span, what the injector makes of it, in the order of     *)
(* time.  StreakInv: the streak of a sensor is the number of frames at the *)
(* end of the window that have it out of range.  HeardInv: what was heard  *)
(* of a sensor are the times of its readings in the window.  The last two  *)
(* need it that pruning cuts the window where time does.                   *)
(*                                                                         *)
(* Of the detectors: Lists says what the positions of the whole frames are *)
(* that the code collects in a loop, ScanInv what its loop over the starts *)
(* has found of their runs; every event comes of the two.                  *)
(***************************************************************************)
EXTENDS Telemetry, WellFoundedInduction, FiniteSetTheorems, SequenceTheorems, TLAPS

-----------------------------------------------------------------------------
(* Induction, in the form of sets: the provers do not instantiate a theorem *)
(* about an operator.                                                      *)

\* A set of naturals that is not empty has a least element.
LEMMA LeastNat ==
    ASSUME NEW S, S \subseteq Nat, S # {}
    PROVE  \E m \in S : \A x \in S : m <= x
<1>1. PICK m \in S : \A x \in S : <<x, m>> \notin OpToRel(<, Nat)
  BY NatLessThanWellFounded, WFMin
<1>2. ASSUME NEW x \in S, x < m PROVE FALSE
  <2>1. <<x, m>> \in OpToRel(<, Nat)
    BY <1>2 DEF OpToRel
  <2> QED
    BY <1>1, <2>1
<1> QED
  BY <1>2

\* What holds of zero and of i + 1 if of i holds up to any bound.
LEMMA InductionTo ==
    ASSUME NEW n \in Nat, NEW S, 0 \in S,
           \A i \in 0..(n - 1) : i \in S => i + 1 \in S
    PROVE  \A i \in 0..n : i \in S
<1> SUFFICES ASSUME NEW b \in 0..n, b \notin S PROVE FALSE
  OBVIOUS
<1> DEFINE out == {i \in 0..n : i \notin S}
<1>1. out \subseteq Nat /\ out # {}
  OBVIOUS
<1> HIDE DEF out
<1>2. PICK m \in out : \A x \in out : m <= x
  BY <1>1, LeastNat
<1> USE DEF out
<1>3. m \in 0..n /\ m \notin S /\ m # 0
  OBVIOUS
<1>4. m - 1 \in 0..(n - 1) /\ (m - 1) + 1 = m
  BY <1>3
<1>5. m - 1 \notin out
  BY <1>2, <1>4
<1> QED
  BY <1>3, <1>4, <1>5

-----------------------------------------------------------------------------
(* The injector.                                                           *)

\* Inject applies the modules one after the other.
LEMMA InjectSteps ==
    ASSUME NEW modules, NEW n \in Nat, n = Len(modules), NEW frame
    PROVE  \E g : /\ g[0] = frame
                  /\ \A i \in 1..n : g[i] = Transform(modules[i], g[i - 1])
                  /\ Inject(modules, frame) = g[n]
<1> DEFINE Is(g, k) == g = [i \in 0..k |-> IF i = 0 THEN frame
                                           ELSE Transform(modules[i], g[i - 1])]
           upto == {k \in 0..n : \E g : Is(g, k)}
<1>1. 0 \in upto
  <2> DEFINE h == [i \in 0..0 |-> frame]
  <2>1. \A i \in 0..0 : h[i] = IF i = 0 THEN frame ELSE Transform(modules[i], h[i - 1])
    OBVIOUS
  <2>2. Is(h, 0)
    BY <2>1
  <2> HIDE DEF Is, h
  <2> QED
    BY <2>2
<1>2. ASSUME NEW k \in 0..(n - 1), k \in upto PROVE k + 1 \in upto
  <2>1. PICK g : Is(g, k)
    BY <1>2
  <2> DEFINE h == [i \in 0..(k + 1) |-> IF i <= k THEN g[i]
                                        ELSE Transform(modules[i], g[k])]
  <2>2. \A i \in 0..(k + 1) : h[i] = IF i = 0 THEN frame ELSE Transform(modules[i], h[i - 1])
    <3>1. SUFFICES ASSUME NEW i \in 0..(k + 1)
                   PROVE  h[i] = IF i = 0 THEN frame ELSE Transform(modules[i], h[i - 1])
      OBVIOUS
    <3>2. CASE i = 0
      BY <3>2, <2>1
    <3>3. CASE i # 0 /\ i <= k
      BY <3>3, <2>1
    <3>4. CASE i = k + 1
      BY <3>4
    <3> QED
      BY <3>2, <3>3, <3>4
  <2>3. Is(h, k + 1)
    BY <2>2
  <2>4. k + 1 \in 0..n
    OBVIOUS
  <2> HIDE DEF Is, h
  <2> QED
    BY <2>3, <2>4
<1>3. n \in upto
  <2> HIDE DEF upto
  <2> QED
    BY <1>1, <1>2, InductionTo
<1> DEFINE f == CHOOSE g : Is(g, Len(modules))
<1>4. Is(f, n)
  BY <1>3
<1>5. Inject(modules, frame) = f[n]
  <2>1. Inject(modules, frame) = f[Len(modules)]
    BY DEF Inject
  <2> HIDE DEF f
  <2> QED
    BY <2>1
<1> HIDE DEF f
<1>6. f[0] = frame /\ \A i \in 1..n : f[i] = Transform(modules[i], f[i - 1])
  BY <1>4
<1> QED
  BY <1>5, <1>6

\* A module changes readings of the sensors it affects while it applies.
LEMMA TransformKeeps ==
    ASSUME NEW m, ValidModule(m, Sensors), NEW frame
    PROVE  /\ Transform(m, frame).ts = frame.ts
           /\ DOMAIN Transform(m, frame).readings = DOMAIN frame.readings
           /\ \A s \in DOMAIN frame.readings :
                 Transform(m, frame).readings[s] # frame.readings[s]
                     => s \in m.affected /\ AppliesAt(m, frame.ts)
<1> DEFINE D == DOMAIN frame.readings
           t == frame.ts
<1>1. CASE ~AppliesAt(m, t)
  BY <1>1 DEF Transform
<1>2. CASE AppliesAt(m, t) /\ m.type = "step_change"
  <2>1. Transform(m, frame) = Frame(t, Stepped(m, frame.readings))
    BY <1>2 DEF Transform
  <2>2. /\ Transform(m, frame).ts = t
        /\ Transform(m, frame).readings = Stepped(m, frame.readings)
    BY <2>1 DEF Frame
  <2> QED
    BY <1>2, <2>2 DEF Stepped
<1>3. CASE AppliesAt(m, t) /\ m.type # "step_change"
  <2>1. Transform(m, frame) = Frame(t, Leaking(m, t - m.start, frame.readings))
    BY <1>3 DEF Transform
  <2>2. /\ Transform(m, frame).ts = t
        /\ Transform(m, frame).readings = Leaking(m, t - m.start, frame.readings)
    BY <2>1 DEF Frame
  <2>3. m.affected = {m.pressure, m.valve} \cup m.temperatures
    BY <1>3 DEF ValidModule, ValidLeak, ValidStepChange
  <2>4. DOMAIN Leaking(m, t - m.start, frame.readings) = D
    BY DEF Leaking
  <2>5. ASSUME NEW s \in D, s \notin m.affected
        PROVE  Leaking(m, t - m.start, frame.readings)[s] = frame.readings[s]
    BY <2>3, <2>5 DEF Leaking
  <2> QED
    BY <1>3, <2>2, <2>4, <2>5
<1> QED
  BY <1>1, <1>2, <1>3

LEMMA ModulesValid ==
    /\ Len(Modules) \in Nat /\ DOMAIN Modules = 1..Len(Modules)
    /\ \A i \in 1..Len(Modules) : ValidModule(Modules[i], Sensors)
  BY ModulesAssumption

\* What the injector changes is inside the ground truth of a module.
LEMMA InjectKeeps ==
    ASSUME NEW frame
    PROVE  /\ Inject(Modules, frame).ts = frame.ts
           /\ DOMAIN Inject(Modules, frame).readings = DOMAIN frame.readings
           /\ \A s \in DOMAIN frame.readings :
                 Inject(Modules, frame).readings[s] # frame.readings[s] =>
                     \E k \in DOMAIN Modules : /\ s \in Modules[k].affected
                                               /\ AppliesAt(Modules[k], frame.ts)
<1>1. PICK n \in Nat : n = Len(Modules) /\ DOMAIN Modules = 1..n
  BY ModulesValid
<1>2. PICK g : /\ g[0] = frame
               /\ \A i \in 1..n : g[i] = Transform(Modules[i], g[i - 1])
               /\ Inject(Modules, frame) = g[n]
  BY SMTT(30), <1>1, InjectSteps
<1> DEFINE D == DOMAIN frame.readings
           Kept(f) == /\ f.ts = frame.ts /\ DOMAIN f.readings = D
                      /\ \A s \in D : f.readings[s] # frame.readings[s] =>
                            \E k \in DOMAIN Modules :
                                /\ s \in Modules[k].affected
                                /\ AppliesAt(Modules[k], frame.ts)
           upto == {i \in 0..n : Kept(g[i])}
<1>3. 0 \in upto
  BY <1>2
<1>4. ASSUME NEW i \in 0..(n - 1), i \in upto PROVE i + 1 \in upto
  <2>1. i + 1 \in 1..n /\ (i + 1) - 1 = i
    OBVIOUS
  <2>2. Kept(g[i])
    BY <1>4
  <2>3. PICK m : m = Modules[i + 1]
    OBVIOUS
  <2>4. ValidModule(m, Sensors) /\ g[i + 1] = Transform(m, g[i])
    BY <1>1, <1>2, <2>1, <2>3, ModulesValid
  <2>5. /\ Transform(m, g[i]).ts = g[i].ts
        /\ DOMAIN Transform(m, g[i]).readings = DOMAIN g[i].readings
        /\ \A s \in DOMAIN g[i].readings :
              Transform(m, g[i]).readings[s] # g[i].readings[s]
                  => s \in m.affected /\ AppliesAt(m, g[i].ts)
    BY <2>4, TransformKeeps
  <2>6. Kept(g[i + 1])
    BY <1>1, <2>1, <2>2, <2>3, <2>4, <2>5
  <2> HIDE DEF Kept
  <2> QED
    BY <2>1, <2>6
<1>5. n \in upto
  <2> HIDE DEF upto
  <2> QED
    BY <1>3, <1>4, InductionTo
<1> QED
  BY <1>2, <1>5

-----------------------------------------------------------------------------
(* The rolling window.                                                     *)

RawFrames == {Frame(t, r) : t \in Nat, r \in Rows}
SeenFrames == {Inject(Modules, f) : f \in RawFrames}

\* The window and what it was made of.
WindowInv ==
    LET n == Len(held)
    IN  /\ row \in Nat /\ row >= ReplayerStart
        /\ held \in Seq(RawFrames)
        /\ rolling_frames \in Seq(SeenFrames) /\ Len(rolling_frames) = n
        /\ \A i \in 1..n :
              /\ rolling_frames[i] = Inject(Modules, held[i])
              /\ held[i].ts \in ReplayerStart..(row - 1)
              /\ held[i].ts >= held[n].ts - WindowSize
              /\ DOMAIN held[i].readings # {}
        /\ \A i, j \in 1..n : i < j => held[i].ts < held[j].ts

LEMMA StartType == ReplayerStart \in Nat
<1>1. CASE Modules = << >>
  BY <1>1 DEF ReplayerStart
<1>2. CASE Modules # << >>
  <2>1. 1 \in 1..Len(Modules)
    BY <1>2, ModulesAssumption, EmptySeq, ModulesValid
  <2>2. Modules[1].start \in Nat
    BY <2>1, ModulesValid DEF ValidModule, ValidLeak, ValidStepChange
  <2> QED
    BY <1>2, <2>2, RowsAssumption DEF ReplayerStart, GroundTruth
<1> QED
  BY <1>1, <1>2

LEMMA SubSeqIsSuffix ==
    ASSUME NEW S, NEW q \in Seq(S), NEW k \in 0..Len(q)
    PROVE  /\ SubSeq(q, k + 1, Len(q)) \in Seq(S)
           /\ Len(SubSeq(q, k + 1, Len(q))) = Len(q) - k
           /\ \A i \in 1..(Len(q) - k) : SubSeq(q, k + 1, Len(q))[i] = q[i + k]
<1>1. PICK n \in Nat : n = Len(q)
  OBVIOUS
<1>2. \A i \in k + 1 .. n : q[i] \in S
  BY <1>1
<1>3. /\ SubSeq(q, k + 1, n) \in Seq(S)
      /\ Len(SubSeq(q, k + 1, n)) = IF k + 1 <= n THEN n - (k + 1) + 1 ELSE 0
      /\ \A i \in 1 .. n - (k + 1) + 1 : SubSeq(q, k + 1, n)[i] = q[k + 1 + i - 1]
  BY <1>2, <1>1, SubSeqProperties
<1>4. Len(SubSeq(q, k + 1, n)) = n - k
  BY <1>3, <1>1
<1>5. \A i \in 1 .. n - k : SubSeq(q, k + 1, n)[i] = q[i + k]
  BY <1>3, <1>1
<1> QED
  BY <1>1, <1>3, <1>4, <1>5

\* Pruning a window in the order of time removes exactly what is too old.
LEMMA OldestIs ==
    ASSUME NEW w, NEW n \in Nat, Len(w) = n + 1, DOMAIN w = 1..(n + 1),
           \A i \in 1..(n + 1) : w[i].ts \in Nat,
           \A i, j \in 1..(n + 1) : i < j => w[i].ts < w[j].ts
    PROVE  \E k \in 0..n : /\ Oldest(w, w[n + 1].ts) = k + 1
                           /\ \A i \in 1..(n + 1) :
                                 i > k <=> w[i].ts >= w[n + 1].ts - WindowSize
<1> DEFINE young == {i \in 1..(n + 1) : w[i].ts >= w[n + 1].ts - WindowSize}
<1>1. n + 1 \in young /\ young \subseteq Nat
  BY RowsAssumption
<1>2. PICK m \in young : \A i \in young : m <= i
  <2> HIDE DEF young
  <2> QED
    BY <1>1, LeastNat
<1>3. Oldest(w, w[n + 1].ts) = m
  <2>1. {i \in DOMAIN w : w[i].ts >= w[n + 1].ts - WindowSize} \cup {Len(w)} = young
    BY <1>1
  <2>2. m \in young /\ \A i \in young : m <= i
    BY <1>2
  <2>3. \A x \in young : (\A y \in young : x <= y) => x = m
    BY <2>2, <1>1
  <2> HIDE DEF young
  <2>4. Min(young) = m
    BY <2>2, <2>3 DEF Min
  <2> QED
    BY <2>1, <2>4 DEF Oldest
<1>4. m - 1 \in 0..n /\ (m - 1) + 1 = m
  BY <1>2
<1>5. ASSUME NEW i \in 1..(n + 1)
      PROVE  i > m - 1 <=> w[i].ts >= w[n + 1].ts - WindowSize
  <2>1. w[i].ts >= w[n + 1].ts - WindowSize => i >= m
    BY <1>2
  <2>2. ASSUME i >= m PROVE w[i].ts >= w[n + 1].ts - WindowSize
    <3>1. w[m].ts >= w[n + 1].ts - WindowSize /\ m \in 1..(n + 1)
      OBVIOUS
    <3>2. w[m].ts <= w[i].ts
      BY <2>2, <3>1
    <3> QED
      BY <3>1, <3>2, RowsAssumption
  <2> QED
    BY <2>1, <2>2, <1>4
<1> QED
  BY <1>3, <1>4, <1>5

LEMMA WindowInit == Init => WindowInv
<1> SUFFICES ASSUME Init PROVE WindowInv
  OBVIOUS
<1>1. held = << >> /\ rolling_frames = << >> /\ row = ReplayerStart
  BY DEF Init
<1>2. << >> \in Seq(RawFrames) /\ << >> \in Seq(SeenFrames) /\ Len(<< >>) = 0
  BY EmptySeq
<1> QED
  BY <1>1, <1>2, StartType DEF WindowInv

\* What delivering a row does to the window: k frames leave it.
Shifted(k, n, r) ==
    LET seen == Inject(Modules, Frame(row, r))
    IN  /\ Len(held') = (n + 1) - k /\ Len(rolling_frames') = (n + 1) - k
        /\ \A i \in 1..((n + 1) - k) :
              IF i + k = n + 1
                THEN held'[i] = Frame(row, r) /\ rolling_frames'[i] = seen
                ELSE /\ i + k \in 1..n
                     /\ held'[i] = held[i + k] /\ rolling_frames'[i] = rolling_frames[i + k]
        /\ \A i \in 1..n : i > k <=> held[i].ts >= row - WindowSize

LEMMA DeliverShifts ==
    ASSUME WindowInv, NEW r \in Rows, Deliver(r), NEW n \in Nat, n = Len(held)
    PROVE  /\ held' \in Seq(RawFrames) /\ rolling_frames' \in Seq(SeenFrames)
           /\ \E k \in 0..n : Shifted(k, n, r)
<1> DEFINE raw == Frame(row, r)
           seen == Inject(Modules, Frame(row, r))
           w == Append(rolling_frames, seen)
           h == Append(held, raw)
<1>1. /\ row \in Nat /\ held \in Seq(RawFrames)
      /\ rolling_frames \in Seq(SeenFrames) /\ Len(rolling_frames) = n
  BY DEF WindowInv
<1>2. raw \in RawFrames /\ raw.ts = row /\ raw.readings = r
  BY <1>1 DEF RawFrames, Frame
<1>3. seen \in SeenFrames /\ seen.ts = row
  <2>1. seen.ts = raw.ts
    BY InjectKeeps
  <2> QED
    BY <1>2, <2>1 DEF SeenFrames
<1>4. /\ w \in Seq(SeenFrames) /\ Len(w) = n + 1
      /\ (\A i \in 1..n : w[i] = rolling_frames[i]) /\ w[n + 1] = seen
  <2> HIDE DEF seen
  <2> QED
    BY <1>1, <1>3, AppendProperties
<1>5. /\ h \in Seq(RawFrames) /\ Len(h) = n + 1
      /\ (\A i \in 1..n : h[i] = held[i]) /\ h[n + 1] = raw
  <2> HIDE DEF raw
  <2> QED
    BY <1>1, <1>2, AppendProperties
<1>6. /\ rolling_frames' = SubSeq(w, Oldest(w, row), Len(w))
      /\ held' = SubSeq(h, Oldest(w, row), Len(w))
  BY DEF Deliver
<1> HIDE DEF raw, seen, w, h
<1>7. \A i \in 1..n : w[i].ts = held[i].ts /\ held[i].ts \in Nat /\ held[i].ts < row
  <2>1. SUFFICES ASSUME NEW i \in 1..n
                 PROVE  w[i].ts = held[i].ts /\ held[i].ts \in Nat /\ held[i].ts < row
    OBVIOUS
  <2>2. rolling_frames[i] = Inject(Modules, held[i]) /\ held[i].ts \in ReplayerStart..(row - 1)
    BY DEF WindowInv
  <2>3. w[i].ts = held[i].ts
    BY <1>4, <2>2, InjectKeeps
  <2> QED
    BY <2>2, <2>3, StartType, <1>1
<1>8. \A i, j \in 1..n : i < j => held[i].ts < held[j].ts
  BY DEF WindowInv
<1>9. \A i \in 1..(n + 1) : w[i].ts \in Nat
  <2>1. \A i \in 1..(n + 1) : i \in 1..n \/ i = n + 1
    OBVIOUS
  <2> QED
    BY <2>1, <1>1, <1>3, <1>4, <1>7
<1>10. ASSUME NEW i \in 1..(n + 1), NEW j \in 1..(n + 1), i < j
       PROVE  w[i].ts < w[j].ts
  <2>1. i \in 1..n
    BY <1>10
  <2>2. CASE j = n + 1
    BY <2>1, <2>2, <1>3, <1>4, <1>7
  <2>3. CASE j \in 1..n
    BY <2>1, <2>3, <1>7, <1>8, <1>10
  <2> QED
    BY <2>2, <2>3
<1>11. w[n + 1].ts = row
  BY <1>3, <1>4
<1>12. DOMAIN w = 1..(n + 1)
  BY <1>4
<1>13. PICK k \in 0..n : /\ Oldest(w, row) = k + 1
                         /\ \A i \in 1..(n + 1) : i > k <=> w[i].ts >= row - WindowSize
  <2>1. \E k \in 0..n : /\ Oldest(w, w[n + 1].ts) = k + 1
                        /\ \A i \in 1..(n + 1) :
                              i > k <=> w[i].ts >= w[n + 1].ts - WindowSize
    BY <1>4, <1>9, <1>10, <1>12, OldestIs
  <2> QED
    BY <2>1, <1>11
<1>14. k \in 0..Len(w) /\ k \in 0..Len(h) /\ Len(w) = Len(h)
  BY <1>4, <1>5
<1>15. /\ rolling_frames' \in Seq(SeenFrames) /\ Len(rolling_frames') = (n + 1) - k
       /\ \A i \in 1..((n + 1) - k) : rolling_frames'[i] = w[i + k]
  <2>1. rolling_frames' = SubSeq(w, k + 1, Len(w))
    BY <1>6, <1>13
  <2> QED
    BY <2>1, <1>4, <1>14, SubSeqIsSuffix
<1>16. /\ held' \in Seq(RawFrames) /\ Len(held') = (n + 1) - k
       /\ \A i \in 1..((n + 1) - k) : held'[i] = h[i + k]
  <2>1. held' = SubSeq(h, k + 1, Len(h))
    BY <1>6, <1>13, <1>14
  <2> QED
    BY <2>1, <1>5, <1>14, SubSeqIsSuffix
<1>17. ASSUME NEW i \in 1..((n + 1) - k)
       PROVE  IF i + k = n + 1
                THEN held'[i] = raw /\ rolling_frames'[i] = seen
                ELSE /\ i + k \in 1..n
                     /\ held'[i] = held[i + k] /\ rolling_frames'[i] = rolling_frames[i + k]
  <2>1. CASE i + k = n + 1
    BY <2>1, <1>4, <1>5, <1>15, <1>16
  <2>2. CASE i + k # n + 1
    <3>1. i + k \in 1..n
      BY <2>2
    <3> QED
      BY <2>2, <3>1, <1>4, <1>5, <1>15, <1>16
  <2> QED
    BY <2>1, <2>2
<1>18. \A i \in 1..n : i > k <=> held[i].ts >= row - WindowSize
  BY <1>7, <1>13
<1>19. Shifted(k, n, r)
  BY <1>15, <1>16, <1>17, <1>18 DEF Shifted, raw, seen
<1> QED
  BY <1>15, <1>16, <1>19

\* The frame delivered is the last of the window, and the others are younger
\* than the window is long.
LEMMA DeliverWindow ==
    ASSUME WindowInv, NEW r \in Rows, Deliver(r)
    PROVE  WindowInv'
<1>1. PICK n \in Nat : n = Len(held)
  BY DEF WindowInv
<1>2. held' \in Seq(RawFrames) /\ rolling_frames' \in Seq(SeenFrames)
  BY <1>1, DeliverShifts
<1>3. PICK k \in 0..n : Shifted(k, n, r)
  BY <1>1, DeliverShifts
<1>4. PICK l \in Nat : l = (n + 1) - k
  OBVIOUS
<1>5. Len(held') = l /\ Len(rolling_frames') = l /\ l \in 1..l /\ l + k = n + 1
  BY <1>3, <1>4 DEF Shifted
<1> DEFINE raw == Frame(row, r)
<1>6. ASSUME NEW i \in 1..l
      PROVE  \/ /\ i = l /\ held'[i] = raw
                /\ rolling_frames'[i] = Inject(Modules, raw)
             \/ /\ i < l /\ i + k \in 1..n /\ held[i + k].ts >= row - WindowSize
                /\ held'[i] = held[i + k] /\ rolling_frames'[i] = rolling_frames[i + k]
  <2>1. CASE i = l
    BY <2>1, <1>3, <1>4 DEF Shifted
  <2>2. CASE i < l
    <3>1. i + k # n + 1 /\ i + k > k
      BY <2>2, <1>4
    <3>2. /\ i + k \in 1..n
          /\ held'[i] = held[i + k] /\ rolling_frames'[i] = rolling_frames[i + k]
      BY <3>1, <1>3, <1>4 DEF Shifted
    <3>3. held[i + k].ts >= row - WindowSize
      BY <3>1, <3>2, <1>3 DEF Shifted
    <3> QED
      BY <2>2, <3>2, <3>3
  <2> QED
    BY <2>1, <2>2
<1>7. raw.ts = row /\ raw.readings = r /\ DOMAIN r # {}
  BY DEF Frame, Deliver
<1> HIDE DEF raw
<1>8. row \in Nat /\ row >= ReplayerStart /\ row' = row + 1
  BY DEF WindowInv, Deliver
<1>9. \A i \in 1..n : /\ rolling_frames[i] = Inject(Modules, held[i])
                      /\ held[i].ts \in ReplayerStart..(row - 1)
                      /\ DOMAIN held[i].readings # {}
  BY <1>1 DEF WindowInv
<1>10. \A i, j \in 1..n : i < j => held[i].ts < held[j].ts
  BY <1>1 DEF WindowInv
<1>11. held'[l] = raw
  BY <1>5, <1>6
<1>12. ASSUME NEW i \in 1..l
       PROVE  /\ rolling_frames'[i] = Inject(Modules, held'[i])
              /\ held'[i].ts \in ReplayerStart..(row' - 1)
              /\ held'[i].ts >= held'[l].ts - WindowSize
              /\ DOMAIN held'[i].readings # {}
  <2>1. CASE i = l
    BY <2>1, <1>6, <1>7, <1>8, <1>11, StartType, RowsAssumption
  <2>2. CASE i < l
    <3>1. /\ i + k \in 1..n /\ held[i + k].ts >= row - WindowSize
          /\ held'[i] = held[i + k] /\ rolling_frames'[i] = rolling_frames[i + k]
      BY <2>2, <1>6
    <3>2. /\ rolling_frames'[i] = Inject(Modules, held'[i])
          /\ held'[i].ts \in ReplayerStart..(row - 1)
          /\ DOMAIN held'[i].readings # {}
          /\ held'[i].ts >= row - WindowSize
      BY <3>1, <1>9
    <3> QED
      BY <3>2, <1>7, <1>8, <1>11, StartType
  <2> QED
    BY <2>1, <2>2
<1>13. ASSUME NEW i \in 1..l, NEW j \in 1..l, i < j
       PROVE  held'[i].ts < held'[j].ts
  <2>1. i + k \in 1..n /\ held'[i] = held[i + k]
    BY <1>13, <1>6
  <2>2. CASE j = l
    <3>1. held'[i].ts \in ReplayerStart..(row - 1)
      BY <2>1, <1>9
    <3> QED
      BY <3>1, <2>2, <1>7, <1>8, <1>11, StartType
  <2>3. CASE j < l
    <3>1. j + k \in 1..n /\ held'[j] = held[j + k] /\ i + k < j + k
      BY <2>3, <1>6, <1>13
    <3> QED
      BY <2>1, <3>1, <1>10
  <2> QED
    BY <2>2, <2>3
<1>14. row' \in Nat /\ row' >= ReplayerStart
  BY <1>8, StartType
<1> QED
  BY <1>2, <1>5, <1>12, <1>13, <1>14 DEF WindowInv

LEMMA WindowNext == WindowInv /\ [Next]_vars => WindowInv'
<1> SUFFICES ASSUME WindowInv, [Next]_vars PROVE WindowInv'
  OBVIOUS
<1>1. CASE SkipRow
  <2>1. row' = row + 1 /\ UNCHANGED <<rolling_frames, held>>
    BY <1>1 DEF SkipRow
  <2>2. row \in Nat /\ row >= ReplayerStart
    BY DEF WindowInv
  <2>3. \A i \in 1..Len(held) : held[i].ts \in ReplayerStart..(row - 1)
    BY DEF WindowInv
  <2>4. /\ row' \in Nat /\ row' >= ReplayerStart
        /\ \A i \in 1..Len(held) : held[i].ts \in ReplayerStart..(row' - 1)
    BY <2>1, <2>2, <2>3, StartType
  <2>5. /\ held \in Seq(RawFrames)
        /\ rolling_frames \in Seq(SeenFrames) /\ Len(rolling_frames) = Len(held)
        /\ \A i \in 1..Len(held) :
              /\ rolling_frames[i] = Inject(Modules, held[i])
              /\ held[i].ts >= held[Len(held)].ts - WindowSize
              /\ DOMAIN held[i].readings # {}
        /\ \A i, j \in 1..Len(held) : i < j => held[i].ts < held[j].ts
    BY DEF WindowInv
  <2>6. held' = held /\ rolling_frames' = rolling_frames
    BY <2>1
  <2> QED
    BY <2>4, <2>5, <2>6 DEF WindowInv
<1>2. CASE \E r \in Rows : Deliver(r)
  BY <1>2, DeliverWindow
<1>3. CASE UNCHANGED vars
  <2>1. row' = row /\ held' = held /\ rolling_frames' = rolling_frames
    BY <1>3 DEF vars
  <2> QED
    BY <2>1 DEF WindowInv
<1> QED
  BY <1>1, <1>2, <1>3 DEF Next, Ended

\* The injected anomaly is where and when the ground truth says.
LEMMA WithinFromInv == WindowInv => WithinGroundTruth
<1> SUFFICES ASSUME WindowInv, NEW i \in DOMAIN rolling_frames
             PROVE  LET seen == rolling_frames[i].readings
                        raw  == held[i].readings
                    IN  /\ DOMAIN seen = DOMAIN raw
                        /\ \A s \in DOMAIN seen : seen[s] # raw[s] =>
                              \E k \in DOMAIN Modules :
                                 LET gt == GroundTruth(Modules[k])
                                 IN  /\ s \in gt.affected
                                     /\ held[i].ts \in gt.start..gt.end
  BY DEF WithinGroundTruth
<1>1. i \in 1..Len(held) /\ rolling_frames[i] = Inject(Modules, held[i])
  BY DEF WindowInv
<1>2. PICK f : f = held[i]
  OBVIOUS
<1>3. /\ DOMAIN Inject(Modules, f).readings = DOMAIN f.readings
      /\ \A s \in DOMAIN f.readings :
            Inject(Modules, f).readings[s] # f.readings[s] =>
               \E k \in DOMAIN Modules : /\ s \in Modules[k].affected
                                         /\ AppliesAt(Modules[k], f.ts)
  BY InjectKeeps
<1>4. f.ts \in Nat
  BY <1>1, <1>2, StartType DEF WindowInv
<1>5. ASSUME NEW k \in DOMAIN Modules, AppliesAt(Modules[k], f.ts)
      PROVE  f.ts \in Modules[k].start..Modules[k].end
  <2>1. Modules[k].start \in Nat /\ Modules[k].end \in Nat
    BY ModulesValid DEF ValidModule, ValidLeak, ValidStepChange
  <2> QED
    BY <1>4, <1>5, <2>1 DEF AppliesAt
<1> QED
  BY <1>1, <1>2, <1>3, <1>5 DEF GroundTruth

-----------------------------------------------------------------------------
(* The threshold detector.                                                 *)

\* The last frames of the window, as many as the streak says, have the sensor
\* out of range, and the one before them, if it is there, has not.
StreakOf(s) ==
    LET n == Len(rolling_frames)
        k == streak[s]
    IN  /\ \A i \in 1..n : i > n - k => OutOfRange(rolling_frames[i], s)
        /\ k < Consecutive /\ k < n => ~OutOfRange(rolling_frames[n - k], s)

StreakInv ==
    /\ streak \in [DOMAIN Ranges -> 0..Consecutive]
    /\ \A s \in DOMAIN Ranges : StreakOf(s)

\* The same of the first n frames of w, with those out of range as a set.
Streaked(w, n, a, Out) ==
    /\ \A i \in 1..n : i > n - a => w[i] \in Out
    /\ a < Consecutive /\ a < n => w[n - a] \notin Out

Moved(v, w, n, k) == \A i \in 1..(n - k) : v[i] = w[i + k]

\* One more frame at the end of a window that may lose frames at its beginning.
LEMMA StreakShift ==
    ASSUME NEW w, NEW v, NEW n \in Nat, NEW k \in 0..n, NEW l \in Nat, l = (n + 1) - k,
           NEW Out, NEW a \in 0..Consecutive, Streaked(w, n, a, Out), Moved(v, w, n, k),
           NEW b, b = IF v[l] \in Out THEN AtMost(Consecutive, a + 1) ELSE 0
    PROVE  b \in 0..Consecutive /\ Streaked(v, l, b, Out)
<1> DEFINE c == Consecutive
<1> USE DetectorsAssumption DEF Streaked, Moved
<1>1. l >= 1 /\ l - 1 = n - k /\ c \in Nat \ {0}
  OBVIOUS
<1>2. CASE v[l] \notin Out
  <2>1. b = 0
    BY <1>2
  <2> QED
    BY <1>1, <1>2, <2>1
<1>3. CASE v[l] \in Out
  <2>1. b \in 1..c /\ b <= a + 1 /\ (b < c => b = a + 1)
    BY <1>3 DEF AtMost
  <2>2. ASSUME NEW i \in 1..l, i > l - b PROVE v[i] \in Out
    <3>1. CASE i = l
      BY <3>1, <1>3
    <3>2. CASE i < l
      <4>1. i \in 1..(n - k) /\ i + k \in 1..n /\ i + k > n - a
        BY <2>1, <2>2, <3>2
      <4> QED
        BY <4>1
    <3> QED
      BY <3>1, <3>2
  <2>3. ASSUME b < c, b < l PROVE v[l - b] \notin Out
    <3>1. b = a + 1 /\ a < c /\ a < n
      BY <2>1, <2>3
    <3>2. l - b \in 1..(n - k) /\ (l - b) + k = n - a
      BY <2>3, <3>1
    <3> QED
      BY <3>1, <3>2
  <2> QED
    BY <2>1, <2>2, <2>3
<1> QED
  BY <1>2, <1>3

LEMMA StreakInit == Init => StreakInv
<1> SUFFICES ASSUME Init PROVE StreakInv
  OBVIOUS
<1>1. rolling_frames = << >> /\ streak = [s \in DOMAIN Ranges |-> 0]
  BY DEF Init
<1>2. Len(<< >>) = 0 /\ 0 \in 0..Consecutive
  BY EmptySeq, DetectorsAssumption
<1> QED
  BY <1>1, <1>2 DEF StreakInv, StreakOf

LEMMA StreakNext == WindowInv /\ StreakInv /\ [Next]_vars => StreakInv'
<1> SUFFICES ASSUME WindowInv, StreakInv, [Next]_vars PROVE StreakInv'
  OBVIOUS
<1>1. ASSUME NEW r \in Rows, Deliver(r) PROVE StreakInv'
  <2>1. PICK n \in Nat : n = Len(held) /\ Len(rolling_frames) = n
    BY DEF WindowInv
  <2>2. PICK k \in 0..n : Shifted(k, n, r)
    BY <1>1, <2>1, DeliverShifts
  <2> DEFINE seen == Inject(Modules, Frame(row, r))
             l == (n + 1) - k
  <2>3. /\ Len(rolling_frames') = l /\ rolling_frames'[l] = seen
        /\ \A i \in 1..(n - k) : rolling_frames'[i] = rolling_frames[i + k]
    <3>1. l \in 1..l /\ l + k = n + 1
      OBVIOUS
    <3>2. \A i \in 1..(n - k) : i \in 1..l /\ i + k # n + 1
      OBVIOUS
    <3> QED
      BY <2>2, <3>1, <3>2 DEF Shifted
  <2>4. streak' = [s \in DOMAIN Ranges |->
                      IF OutOfRange(seen, s) THEN AtMost(Consecutive, streak[s] + 1) ELSE 0]
    BY <1>1 DEF Deliver
  <2> HIDE DEF seen
  <2>5. ASSUME NEW s \in DOMAIN Ranges
        PROVE  streak'[s] \in 0..Consecutive /\ StreakOf(s)'
    <3> DEFINE Out == {i \in {seen} \cup {rolling_frames[i] : i \in 1..n} : OutOfRange(i, s)}
    <3>1. seen \in Out <=> OutOfRange(seen, s)
      OBVIOUS
    <3>2. \A i \in 1..n : rolling_frames[i] \in Out <=> OutOfRange(rolling_frames[i], s)
      OBVIOUS
    <3>3. \A i \in 1..l : rolling_frames'[i] \in Out <=> OutOfRange(rolling_frames'[i], s)
      <4>1. \A i \in 1..l : i = l \/ (i \in 1..(n - k) /\ i + k \in 1..n)
        OBVIOUS
      <4> HIDE DEF Out, l
      <4> QED
        BY <4>1, <2>3, <3>1, <3>2
    <3> HIDE DEF Out
    <3>4. PICK a \in 0..Consecutive : a = streak[s]
      BY DEF StreakInv
    <3>5. StreakOf(s)
      BY DEF StreakInv
    <3>6. /\ \A i \in 1..n : i > n - a => rolling_frames[i] \in Out
          /\ a < Consecutive /\ a < n => rolling_frames[n - a] \notin Out
      <4>1. a < n => n - a \in 1..n
        BY DetectorsAssumption
      <4> QED
        BY <4>1, <3>2, <3>4, <3>5, <2>1 DEF StreakOf
    <3>7. streak'[s] = IF rolling_frames'[l] \in Out THEN AtMost(Consecutive, a + 1) ELSE 0
      BY <2>3, <2>4, <3>1, <3>4
    <3>8. PICK b : b = streak'[s]
      OBVIOUS
    <3>9. PICK v : v = rolling_frames'
      OBVIOUS
    <3>10. PICK e \in Nat : e = (n + 1) - k
      OBVIOUS
    <3>11. b \in 0..Consecutive /\ Streaked(v, e, b, Out)
      <4>1. b = IF v[e] \in Out THEN AtMost(Consecutive, a + 1) ELSE 0
        BY <3>7, <3>8, <3>9, <3>10
      <4>2. Streaked(rolling_frames, n, a, Out) /\ Moved(v, rolling_frames, n, k)
        BY <3>6, <3>9, <2>3 DEF Streaked, Moved
      <4> QED
        BY <3>10, <4>1, <4>2, StreakShift
    <3>12. b < l => l - b \in 1..l
      BY <3>11, DetectorsAssumption
    <3>13. /\ \A i \in 1..l : i > l - b => OutOfRange(v[i], s)
           /\ b < Consecutive /\ b < l => ~OutOfRange(v[l - b], s)
      BY <3>3, <3>9, <3>10, <3>11, <3>12 DEF Streaked
    <3> QED
      BY <2>3, <3>8, <3>9, <3>11, <3>13 DEF StreakOf
  <2> QED
    BY <2>4, <2>5 DEF StreakInv
<1>2. CASE UNCHANGED <<rolling_frames, streak>>
  BY <1>2 DEF StreakInv, StreakOf
<1> QED
  BY <1>1, <1>2 DEF Next, SkipRow, Ended, vars

LEMMA SustainedFromInv == WindowInv /\ StreakInv => SustainedExcursion
<1> SUFFICES ASSUME WindowInv, StreakInv PROVE SustainedExcursion
  OBVIOUS
<1> DEFINE w == rolling_frames
<1>1. PICK n \in Nat : n = Len(w) /\ DOMAIN w = 1..n
  BY DEF WindowInv
<1>2. Consecutive \in Nat /\ Consecutive >= 1
  BY DetectorsAssumption
<1> DEFINE last == (n - Consecutive + 1)..n
<1>3. n < Consecutive <=> ~(last \subseteq DOMAIN w)
  <2>1. ASSUME n < Consecutive PROVE ~(last \subseteq DOMAIN w)
    <3>1. n - Consecutive + 1 \in last /\ n - Consecutive + 1 \notin 1..n
      BY <1>2, <2>1
    <3> QED
      BY <3>1, <1>1
  <2>2. ASSUME ~(n < Consecutive) PROVE last \subseteq DOMAIN w
    BY <1>1, <1>2, <2>2
  <2> QED
    BY <2>1, <2>2
<1>4. ASSUME NEW s \in DOMAIN Ranges, n >= Consecutive
      PROVE  streak[s] = Consecutive <=> \A i \in last : OutOfRange(w[i], s)
  <2>1. PICK k \in 0..Consecutive : k = streak[s]
    BY DEF StreakInv
  <2>2. StreakOf(s)
    BY DEF StreakInv
  <2>3. /\ \A i \in 1..n : i > n - k => OutOfRange(w[i], s)
        /\ k < Consecutive /\ k < n => ~OutOfRange(w[n - k], s)
    BY <1>1, <2>1, <2>2 DEF StreakOf
  <2>4. ASSUME k = Consecutive, NEW i \in last PROVE OutOfRange(w[i], s)
    <3>1. i \in 1..n /\ i > n - k
      BY <1>2, <1>4, <2>4
    <3> QED
      BY <2>3, <3>1
  <2>5. ASSUME k < Consecutive PROVE ~\A i \in last : OutOfRange(w[i], s)
    <3>1. k < n /\ n - k \in last
      BY <1>2, <1>4, <2>5
    <3> QED
      BY <2>3, <2>5, <3>1
  <2>6. k = Consecutive \/ k < Consecutive
    BY <1>2
  <2>7. k < Consecutive => k # Consecutive
    BY <1>2
  <2> QED
    BY <2>1, <2>4, <2>5, <2>6, <2>7
<1>5. ThresholdEvents(w) =
         {[sensor |-> s, ts |-> w[n].ts] :
             s \in {s \in DOMAIN Ranges :
                       /\ streak[s] = Consecutive /\ last \subseteq DOMAIN w
                       /\ \E i \in last : Excess(s, w[i].readings[s]) >= MinScore * Width(s)}}
  <2>1. CASE n < Consecutive
    <3>1. ThresholdEvents(w) = {}
      BY <1>1, <2>1 DEF ThresholdEvents
    <3>2. ~(last \subseteq DOMAIN w)
      BY <1>3, <2>1
    <3> HIDE DEF last
    <3>3. {s \in DOMAIN Ranges :
              /\ streak[s] = Consecutive /\ last \subseteq DOMAIN w
              /\ \E i \in last : Excess(s, w[i].readings[s]) >= MinScore * Width(s)} = {}
      BY <3>2, Zenon
    <3> QED
      BY <3>1, <3>3
  <2>2. CASE n >= Consecutive
    <3>1. last \subseteq DOMAIN w /\ ~(n < Consecutive)
      BY <1>2, <1>3, <2>2
    <3>2. ThresholdEvents(w) =
             {[sensor |-> s, ts |-> w[n].ts] :
                s \in {s \in DOMAIN Ranges :
                          /\ \A i \in last : OutOfRange(w[i], s)
                          /\ \E i \in last :
                                /\ OutOfRange(w[i], s)
                                /\ Excess(s, w[i].readings[s]) >= MinScore * Width(s)}}
      BY <1>1, <3>1 DEF ThresholdEvents, TailOutOfRange
    <3> HIDE DEF last
    <3>3. \A s \in DOMAIN Ranges :
             /\ \A i \in last : OutOfRange(w[i], s)
             /\ \E i \in last : /\ OutOfRange(w[i], s)
                                /\ Excess(s, w[i].readings[s]) >= MinScore * Width(s)
             <=>
             /\ streak[s] = Consecutive /\ last \subseteq DOMAIN w
             /\ \E i \in last : Excess(s, w[i].readings[s]) >= MinScore * Width(s)
      BY <1>4, <2>2, <3>1
    <3>4. {s \in DOMAIN Ranges :
              /\ \A i \in last : OutOfRange(w[i], s)
              /\ \E i \in last : /\ OutOfRange(w[i], s)
                                 /\ Excess(s, w[i].readings[s]) >= MinScore * Width(s)}
          = {s \in DOMAIN Ranges :
                /\ streak[s] = Consecutive /\ last \subseteq DOMAIN w
                /\ \E i \in last : Excess(s, w[i].readings[s]) >= MinScore * Width(s)}
      BY <3>3, Zenon
    <3> QED
      BY <3>2, <3>4
  <2> QED
    BY <2>1, <2>2, <1>2
<1> QED
  BY <1>1, <1>5 DEF SustainedExcursion

-----------------------------------------------------------------------------
(* DAMP.                                                                   *)

\* The frames of the window that have the sensor, and their times.
HeldAt(s) == {i \in 1..Len(held) : s \in DOMAIN held[i].readings}
Times(s) == {held[i].ts : i \in HeldAt(s)}

HeardInv == heard = [s \in Sensors |-> Times(s)]

LEMMA HeardInit == Init => HeardInv
<1> SUFFICES ASSUME Init PROVE HeardInv
  OBVIOUS
<1>1. held = << >> /\ heard = [s \in Sensors |-> {}]
  BY DEF Init
<1>2. Len(<< >>) = 0
  BY EmptySeq
<1>3. \A s \in Sensors : Times(s) = {}
  BY <1>1, <1>2 DEF Times, HeldAt
<1> QED
  BY <1>1, <1>3 DEF HeardInv

LEMMA HeardNext == WindowInv /\ HeardInv /\ [Next]_vars => HeardInv'
<1> SUFFICES ASSUME WindowInv, HeardInv, [Next]_vars PROVE HeardInv'
  OBVIOUS
<1>1. ASSUME NEW r \in Rows, Deliver(r) PROVE HeardInv'
  <2>1. PICK n \in Nat : n = Len(held)
    BY DEF WindowInv
  <2>2. PICK k \in 0..n : Shifted(k, n, r)
    BY <1>1, <2>1, DeliverShifts
  <2>3. PICK l \in Nat : l = (n + 1) - k
    OBVIOUS
  <2>4. /\ Len(held') = l /\ held'[l] = Frame(row, r)
        /\ (\A i \in 1..(n - k) : held'[i] = held[i + k])
        /\ \A i \in 1..n : i > k <=> held[i].ts >= row - WindowSize
    <3>1. l \in 1..l /\ l + k = n + 1
      BY <2>3
    <3>2. \A i \in 1..(n - k) : i \in 1..l /\ i + k # n + 1
      BY <2>3
    <3> QED
      BY <2>2, <2>3, <3>1, <3>2 DEF Shifted
  <2>5. Frame(row, r).ts = row /\ Frame(row, r).readings = r
    BY DEF Frame
  <2>6. heard' = [s \in Sensors |->
                     {t \in heard[s] : row - t <= WindowSize}
                        \cup (IF s \in DOMAIN r THEN {row} ELSE {})]
    BY <1>1 DEF Deliver
  <2>7. /\ row \in Nat
        /\ \A i \in 1..n : held[i].ts \in Nat
    BY <2>1, StartType DEF WindowInv
  <2>8. ASSUME NEW s \in Sensors PROVE heard'[s] = Times(s)'
    <3>1. ASSUME NEW t
          PROVE  t \in heard'[s] <=>
                    \/ \E i \in 1..n : /\ s \in DOMAIN held[i].readings /\ t = held[i].ts
                                       /\ row - t <= WindowSize
                    \/ s \in DOMAIN r /\ t = row
      BY <2>1, <2>6 DEF HeardInv, Times, HeldAt
    <3>2. ASSUME NEW t
          PROVE  t \in Times(s)' <=>
                    \E i \in 1..l : s \in DOMAIN held'[i].readings /\ t = held'[i].ts
      BY <2>4 DEF Times, HeldAt
    <3>3. ASSUME NEW i \in 1..n, row - held[i].ts <= WindowSize
          PROVE  \E j \in 1..l : held'[j] = held[i]
      <4>1. i > k
        BY <2>4, <2>7, <3>3, RowsAssumption
      <4>2. i - k \in 1..(n - k) /\ i - k \in 1..l /\ (i - k) + k = i
        BY <2>3, <4>1
      <4> QED
        BY <2>4, <4>2
    <3>4. ASSUME NEW j \in 1..l
          PROVE  \/ held'[j].readings = r /\ held'[j].ts = row
                 \/ \E i \in 1..n : held'[j] = held[i] /\ row - held[i].ts <= WindowSize
      <4>1. CASE j = l
        BY <4>1, <2>4, <2>5
      <4>2. CASE j < l
        <5>1. j \in 1..(n - k) /\ j + k \in 1..n /\ j + k > k
          BY <2>3, <4>2
        <5>2. row - held[j + k].ts <= WindowSize
          BY <5>1, <2>4, <2>7, RowsAssumption
        <5> QED
          BY <5>1, <5>2, <2>4
      <4> QED
        BY <4>1, <4>2
    <3>5. l \in 1..l
      BY <2>3
    <3>6. ASSUME NEW t, t \in heard'[s] PROVE t \in Times(s)'
      <4>1. CASE s \in DOMAIN r /\ t = row
        BY <4>1, <3>2, <3>5, <2>4, <2>5
      <4>2. CASE \E i \in 1..n : /\ s \in DOMAIN held[i].readings /\ t = held[i].ts
                                 /\ row - t <= WindowSize
        BY <4>2, <3>2, <3>3
      <4> QED
        BY <3>1, <3>6, <4>1, <4>2
    <3>7. ASSUME NEW t, t \in Times(s)' PROVE t \in heard'[s]
      <4>1. PICK j \in 1..l : s \in DOMAIN held'[j].readings /\ t = held'[j].ts
        BY <3>2, <3>7
      <4> QED
        BY <3>1, <3>4, <4>1
    <3> QED
      BY <3>6, <3>7
  <2> QED
    BY <2>6, <2>8 DEF HeardInv
<1>2. CASE UNCHANGED <<held, heard>>
  BY <1>2 DEF HeardInv, Times, HeldAt
<1> QED
  BY <1>1, <1>2 DEF Next, SkipRow, Ended, vars

\* Frames have different times, so they are as many as their times.
LEMMA AsManyTimes ==
    ASSUME WindowInv, NEW s \in Sensors
    PROVE  IsFiniteSet(Times(s)) /\ Cardinality(HeldAt(s)) = Cardinality(Times(s))
<1> DEFINE f == [i \in HeldAt(s) |-> held[i].ts]
<1>1. PICK n \in Nat : n = Len(held)
  BY DEF WindowInv
<1>2. HeldAt(s) \subseteq 1..n
  BY <1>1 DEF HeldAt
<1>3. IsFiniteSet(HeldAt(s))
  <2>1. IsFiniteSet(1..n)
    BY FS_Interval
  <2> QED
    BY <1>2, <2>1, FS_Subset
<1>4. f \in Surjection(HeldAt(s), Times(s))
  BY DEF Surjection, Times
<1>5. ASSUME NEW i \in HeldAt(s), NEW j \in HeldAt(s), f[i] = f[j] PROVE i = j
  <2>1. i \in 1..n /\ j \in 1..n /\ held[i].ts = held[j].ts
    BY <1>2, <1>5
  <2>2. ASSUME NEW x \in 1..n, NEW y \in 1..n, x < y PROVE held[x].ts # held[y].ts
    <3>1. held[x].ts < held[y].ts /\ held[x].ts \in Nat /\ held[y].ts \in Nat
      BY <1>1, <2>2, StartType DEF WindowInv
    <3> QED
      BY <3>1
  <2> QED
    BY <2>1, <2>2
<1>6. f \in Injection(HeldAt(s), Times(s))
  BY <1>5 DEF Injection, IsInjective, Times
<1> HIDE DEF f
<1> QED
  BY <1>3, <1>4, <1>6, FS_Surjection

LEMMA DampFromInv == WindowInv /\ HeardInv => DampTiming
<1> SUFFICES ASSUME WindowInv, HeardInv, rolling_frames # << >>, NEW s \in DampSensors
             PROVE  LET now == rolling_frames[Len(rolling_frames)].ts
                    IN  /\ DampReady(rolling_frames, s)
                              => now >= ReplayerStart + 2 * WindowLength - 1
                        /\ now >= ReplayerStart + WindowSize =>
                              LET missing == (now - WindowSize)..now \ heard[s]
                              IN  DampReady(rolling_frames, s) <=>
                                    Cardinality(missing) <= WindowSize + 1 - 2 * WindowLength
  BY DEF DampTiming
<1>1. PICK n \in Nat : /\ n = Len(held) /\ n = Len(rolling_frames) /\ n \in 1..n
                       /\ DOMAIN rolling_frames = 1..n
  <2>1. rolling_frames \in Seq(SeenFrames) /\ Len(rolling_frames) = Len(held)
    BY DEF WindowInv
  <2>2. Len(rolling_frames) \in Nat \ {0}
    BY <2>1, EmptySeq
  <2> QED
    BY <2>1, <2>2
<1>2. s \in Sensors
  BY RowsAssumption
<1>3. \A i \in 1..n : /\ rolling_frames[i].ts = held[i].ts
                      /\ DOMAIN rolling_frames[i].readings = DOMAIN held[i].readings
  BY <1>1, InjectKeeps DEF WindowInv
<1>4. {i \in DOMAIN rolling_frames : HasReading(rolling_frames[i], s)} = HeldAt(s)
  BY <1>1, <1>3 DEF HasReading, HeldAt
<1>5. heard[s] = Times(s)
  BY <1>2 DEF HeardInv
<1>6. PICK c \in Nat : c = Cardinality(heard[s]) /\ IsFiniteSet(heard[s])
  BY <1>2, <1>5, AsManyTimes, FS_CardinalityType
<1>7. DampReady(rolling_frames, s) <=> c >= 2 * WindowLength
  BY <1>2, <1>4, <1>5, <1>6, AsManyTimes DEF DampReady
<1>8. PICK now \in Nat : now = held[n].ts /\ now >= ReplayerStart
  BY <1>1, StartType DEF WindowInv
<1>9. ASSUME NEW i \in 1..n
      PROVE  held[i].ts \in ReplayerStart..now /\ held[i].ts \in (now - WindowSize)..now
  <2>1. held[i].ts \in ReplayerStart..(row - 1) /\ held[i].ts >= now - WindowSize
    BY <1>1, <1>8 DEF WindowInv
  <2>2. i < n => held[i].ts < now
    BY <1>1, <1>8 DEF WindowInv
  <2>3. i = n => held[i].ts = now
    BY <1>8
  <2>4. i < n \/ i = n
    OBVIOUS
  <2> QED
    BY <2>1, <2>2, <2>3, <2>4, StartType, RowsAssumption
<1>10. heard[s] \subseteq ReplayerStart..now /\ heard[s] \subseteq (now - WindowSize)..now
  BY <1>1, <1>5, <1>9 DEF Times, HeldAt
<1>11. c <= (now - ReplayerStart) + 1
  <2>1. /\ IsFiniteSet(ReplayerStart..now)
        /\ Cardinality(ReplayerStart..now) = (now - ReplayerStart) + 1
    <3>1. ReplayerStart \in Int /\ now \in Int /\ ~(ReplayerStart > now)
      BY <1>8, StartType
    <3>2. /\ IsFiniteSet(ReplayerStart..now)
          /\ Cardinality(ReplayerStart..now) =
                IF ReplayerStart > now THEN 0 ELSE now - ReplayerStart + 1
      BY <3>1, FS_Interval
    <3> QED
      BY <3>1, <3>2
  <2>2. PICK I, H : I = ReplayerStart..now /\ H = heard[s]
    OBVIOUS
  <2>3. IsFiniteSet(I) /\ H \subseteq I
    BY ONLY <1>10, <2>1, <2>2
  <2>4. Cardinality(H) <= Cardinality(I)
    BY ONLY <2>3, FS_Subset
  <2> QED
    BY ONLY <1>6, <2>1, <2>2, <2>4
<1> DEFINE span == (now - WindowSize)..now
<1>12. Cardinality(span \ heard[s]) = (WindowSize + 1) - c
  <2>1. IsFiniteSet(span) /\ Cardinality(span) = WindowSize + 1
    <3>1. now - WindowSize \in Int /\ now \in Int /\ ~(now - WindowSize > now)
      BY RowsAssumption
    <3>2. now - (now - WindowSize) + 1 = WindowSize + 1
      BY RowsAssumption
    <3> QED
      BY <3>1, <3>2, FS_Interval
  <2>2. span \cap heard[s] = heard[s]
    BY <1>10
  <2> HIDE DEF span
  <2> QED
    <3>1. Cardinality(span \ heard[s]) = Cardinality(span) - Cardinality(span \cap heard[s])
      BY <2>1, FS_Difference
    <3> QED
      BY <1>6, <2>1, <2>2, <3>1
<1>13. Cardinality(span \ heard[s]) <= WindowSize + 1 - 2 * WindowLength
          <=> c >= 2 * WindowLength
  <2> HIDE DEF span
  <2> QED
    BY <1>12, RowsAssumption, DetectorsAssumption
<1>14. c >= 2 * WindowLength => now >= ReplayerStart + 2 * WindowLength - 1
  BY <1>11, StartType, DetectorsAssumption
<1>15. rolling_frames[Len(rolling_frames)].ts = now
  BY <1>1, <1>3, <1>8
<1> QED
  BY <1>7, <1>13, <1>14, <1>15

-----------------------------------------------------------------------------
(* Types.                                                                  *)

LEMMA TypeFromInv == WindowInv /\ StreakInv /\ HeardInv => TypeOK
<1> SUFFICES ASSUME WindowInv, StreakInv, HeardInv PROVE TypeOK
  OBVIOUS
<1>1. PICK n \in Nat : n = Len(held) /\ n = Len(rolling_frames) /\ DOMAIN rolling_frames = 1..n
  BY DEF WindowInv
<1>2. \A i \in 1..n : /\ rolling_frames[i].ts = held[i].ts
                      /\ DOMAIN rolling_frames[i].readings = DOMAIN held[i].readings
  BY <1>1, InjectKeeps DEF WindowInv
<1>3. ASSUME NEW i \in 1..n PROVE DOMAIN held[i].readings \subseteq Sensors
  <2>1. held[i] \in RawFrames
    BY <1>1 DEF WindowInv
  <2>2. PICK t \in Nat, r \in Rows : held[i] = Frame(t, r)
    BY <2>1 DEF RawFrames
  <2> QED
    BY <2>2, RowsAssumption DEF Frame
<1>4. ASSUME NEW i \in 1..n
      PROVE  /\ held[i].ts \in Nat /\ held[i].ts < row
             /\ held[i].ts >= held[n].ts - WindowSize
             /\ DOMAIN held[i].readings # {}
  BY <1>1, StartType DEF WindowInv
<1>5. ASSUME NEW i \in 1..n
      PROVE  /\ IsFrame(rolling_frames[i]) /\ rolling_frames[i].ts < row
             /\ rolling_frames[i].ts >= rolling_frames[n].ts - WindowSize
  BY <1>2, <1>3, <1>4 DEF IsFrame
<1>6. \A i, j \in 1..n : i < j => rolling_frames[i].ts < rolling_frames[j].ts
  BY <1>1, <1>2 DEF WindowInv
<1>7. row \in Nat
  BY DEF WindowInv
<1>8. \A s \in Sensors : Times(s) \subseteq 0..row
  BY <1>1, <1>4, <1>7 DEF Times, HeldAt
<1>9. heard \in [Sensors -> SUBSET (0..row)]
  BY <1>8 DEF HeardInv
<1> QED
  BY <1>1, <1>5, <1>6, <1>7, <1>9 DEF TypeOK, StreakInv

-----------------------------------------------------------------------------
(* The leak.                                                               *)

\* The loss never falls.
LEMMA LossGrows ==
    ASSUME NEW m, ValidLeak(m, Sensors), NEW a \in Nat, NEW b \in Nat, a <= b
    PROVE  /\ PressureLoss(m, a) \in Nat /\ PressureLoss(m, b) \in Nat
           /\ PressureLoss(m, a) <= PressureLoss(m, b)
<1>1. PICK d \in Nat \ {0} : d = m.duration
  BY DEF ValidLeak
<1>2. PICK c : c = m.curve /\ c \in [0..d -> Nat] /\ c[0] = 0
                  /\ \A h \in 1..d : c[h - 1] <= c[h]
  BY <1>1 DEF ValidLeak
<1>3. \A h \in 0..d : c[h] \in Nat
  BY <1>2
<1>4. ASSUME NEW x \in 0..d, NEW y \in 0..d, x <= y PROVE c[x] <= c[y]
  <2> DEFINE over == {i \in 0..d : x <= i => c[x] <= c[i]}
  <2>1. 0 \in over
    <3>1. 0 \in 0..d /\ c[0] \in Int /\ (x <= 0 => x = 0)
      BY <1>3
    <3> QED
      BY <3>1
  <2>2. ASSUME NEW i \in 0..(d - 1), i \in over PROVE i + 1 \in over
    <3>1. i + 1 \in 1..d /\ (i + 1) - 1 = i /\ i \in 0..d /\ i + 1 \in 0..d
      OBVIOUS
    <3>2. c[i] <= c[i + 1]
      BY <1>2, <3>1
    <3>3. c[i] \in Int /\ c[i + 1] \in Int /\ c[x] \in Int
      BY <3>1, <1>3
    <3>4. CASE x <= i
      BY <2>2, <3>1, <3>2, <3>3, <3>4
    <3>5. CASE x = i + 1
      BY <3>1, <3>3, <3>5
    <3>6. CASE x > i + 1
      BY <3>1, <3>6
    <3> QED
      BY <3>4, <3>5, <3>6
  <2> HIDE DEF over
  <2>3. y \in over
    BY <2>1, <2>2, InductionTo
  <2> QED
    BY <1>4, <2>3 DEF over
<1> DEFINE At(e) == IF e >= d THEN d ELSE e
<1>5. \A e \in Nat : At(e) \in 0..d
  OBVIOUS
<1>6. \A e \in Nat : PressureLoss(m, e) = c[At(e)]
  <2>1. SUFFICES ASSUME NEW e \in Nat PROVE PressureLoss(m, e) = c[At(e)]
    OBVIOUS
  <2>2. CASE e = 0
    BY <2>2, <1>1, <1>2 DEF PressureLoss
  <2>3. CASE e > 0
    BY <2>3, <1>1, <1>2 DEF PressureLoss
  <2> QED
    BY <2>2, <2>3
<1>7. At(a) <= At(b)
  OBVIOUS
<1> HIDE DEF At
<1> QED
  BY <1>3, <1>4, <1>5, <1>6, <1>7

\* The opening is a sum over the steps.
StepOf(m, loss, i) ==
    IF \A j \in 1..i : loss >= m.thresholds[j] THEN m.increments[i] ELSE 0

SumsTo(g, m, loss, n) ==
    /\ g[0] = 0
    /\ \A i \in 1..n : g[i] = g[i - 1] + StepOf(m, loss, i)
    /\ ValveIncrement(m, loss) = g[n]

LEMMA ValveSteps ==
    ASSUME NEW m, NEW loss, NEW n \in Nat, n = Len(m.thresholds)
    PROVE  \E g : SumsTo(g, m, loss, n)
<1> DEFINE Is(g, k) == g = [i \in 0..k |-> IF i = 0 THEN 0
                                           ELSE g[i - 1] + StepOf(m, loss, i)]
           upto == {k \in 0..n : \E g : Is(g, k)}
<1>1. 0 \in upto
  <2> DEFINE h == [i \in 0..0 |-> 0]
  <2>1. \A i \in 0..0 : h[i] = IF i = 0 THEN 0 ELSE h[i - 1] + StepOf(m, loss, i)
    OBVIOUS
  <2>2. Is(h, 0)
    BY <2>1
  <2> HIDE DEF Is, h
  <2> QED
    BY <2>2
<1>2. ASSUME NEW k \in 0..(n - 1), k \in upto PROVE k + 1 \in upto
  <2>1. PICK g : Is(g, k)
    BY <1>2
  <2> DEFINE h == [i \in 0..(k + 1) |-> IF i <= k THEN g[i]
                                        ELSE g[k] + StepOf(m, loss, k + 1)]
  <2>2. \A i \in 0..(k + 1) : h[i] = IF i = 0 THEN 0 ELSE h[i - 1] + StepOf(m, loss, i)
    <3>1. SUFFICES ASSUME NEW i \in 0..(k + 1)
                   PROVE  h[i] = IF i = 0 THEN 0 ELSE h[i - 1] + StepOf(m, loss, i)
      OBVIOUS
    <3>2. CASE i = 0
      BY <3>2, <2>1
    <3>3. CASE i # 0 /\ i <= k
      BY <3>3, <2>1
    <3>4. CASE i = k + 1
      BY <3>4
    <3> QED
      BY <3>2, <3>3, <3>4
  <2>3. Is(h, k + 1)
    BY <2>2
  <2>4. k + 1 \in 0..n
    OBVIOUS
  <2> HIDE DEF Is, h
  <2> QED
    BY <2>3, <2>4
<1>3. n \in upto
  <2> HIDE DEF upto
  <2> QED
    BY ONLY SMTT(30), <1>1, <1>2, n \in Nat, InductionTo
<1> DEFINE f == CHOOSE g : Is(g, Len(m.thresholds))
<1>4. Is(f, n)
  BY <1>3
<1>5. ValveIncrement(m, loss) = f[n]
  <2>1. ValveIncrement(m, loss) = f[Len(m.thresholds)]
    BY DEF ValveIncrement, StepOf
  <2> HIDE DEF f
  <2> QED
    BY <2>1
<1> HIDE DEF f
<1>6. f[0] = 0 /\ \A i \in 1..n : f[i] = f[i - 1] + StepOf(m, loss, i)
  BY <1>4
<1> QED
  BY <1>5, <1>6 DEF SumsTo

\* A valve that is told to open only opens further as the loss grows.
LEMMA ValveGrows ==
    ASSUME NEW m, ValidLeak(m, Sensors),
           \A i \in DOMAIN m.increments : m.increments[i] >= 0,
           NEW a \in Nat, NEW b \in Nat, a <= b
    PROVE  /\ ValveIncrement(m, a) \in Nat /\ ValveIncrement(m, b) \in Nat
           /\ ValveIncrement(m, a) <= ValveIncrement(m, b)
<1>1. /\ m.thresholds \in Seq(Int) /\ m.increments \in Seq(Int)
      /\ Len(m.thresholds) = Len(m.increments)
  BY DEF ValidLeak
<1>2. PICK n \in Nat : n = Len(m.thresholds)
  BY <1>1
<1>3. \A i \in 1..n : m.increments[i] \in Nat /\ m.thresholds[i] \in Int
  <2>1. DOMAIN m.increments = 1..n
    BY <1>1, <1>2
  <2>2. \A i \in 1..n : m.increments[i] \in Int /\ m.thresholds[i] \in Int
    BY <1>1, <1>2
  <2> QED
    BY <2>1, <2>2
<1>4. PICK f : SumsTo(f, m, a, n)
  BY <1>2, ValveSteps
<1>5. PICK g : SumsTo(g, m, b, n)
  BY <1>2, ValveSteps
<1>6. ASSUME NEW i \in 1..n
      PROVE  StepOf(m, a, i) \in Nat /\ StepOf(m, b, i) \in Nat
                /\ StepOf(m, a, i) <= StepOf(m, b, i)
  <2>1. \A j \in 1..i : j \in 1..n
    OBVIOUS
  <2>2. (\A j \in 1..i : a >= m.thresholds[j]) => \A j \in 1..i : b >= m.thresholds[j]
    BY <1>3, <2>1
  <2> QED
    BY <1>3, <2>2 DEF StepOf
<1> DEFINE upto == {i \in 0..n : f[i] \in Nat /\ g[i] \in Nat /\ f[i] <= g[i]}
<1>7. 0 \in upto
  BY <1>4, <1>5 DEF SumsTo
<1>8. ASSUME NEW i \in 0..(n - 1), i \in upto PROVE i + 1 \in upto
  <2>1. i + 1 \in 1..n /\ (i + 1) - 1 = i /\ i + 1 \in 0..n
    OBVIOUS
  <2>2. /\ f[i + 1] = f[i] + StepOf(m, a, i + 1)
        /\ g[i + 1] = g[i] + StepOf(m, b, i + 1)
    BY <1>4, <1>5, <2>1 DEF SumsTo
  <2>3. f[i] \in Nat /\ g[i] \in Nat /\ f[i] <= g[i]
    BY <1>8
  <2>4. /\ StepOf(m, a, i + 1) \in Nat /\ StepOf(m, b, i + 1) \in Nat
        /\ StepOf(m, a, i + 1) <= StepOf(m, b, i + 1)
    BY <1>6, <2>1
  <2>5. f[i + 1] \in Nat /\ g[i + 1] \in Nat /\ f[i + 1] <= g[i + 1]
    BY <2>2, <2>3, <2>4
  <2> QED
    BY <2>1, <2>5
<1> HIDE DEF upto
<1>9. n \in upto
  BY <1>7, <1>8, InductionTo
<1> QED
  BY <1>4, <1>5, <1>9 DEF upto, SumsTo

\* A sensor that one module alone affects shows what this module makes of it.
LEMMA AloneInject ==
    ASSUME NEW frame, NEW k \in DOMAIN Modules, NEW s \in DOMAIN frame.readings, Alone(s, k)
    PROVE  \E pre : /\ pre.ts = frame.ts /\ DOMAIN pre.readings = DOMAIN frame.readings
                    /\ pre.readings[s] = frame.readings[s]
                    /\ Inject(Modules, frame).readings[s] =
                           Transform(Modules[k], pre).readings[s]
<1>1. PICK n \in Nat : n = Len(Modules) /\ DOMAIN Modules = 1..n
  BY ModulesValid
<1>2. PICK g : /\ g[0] = frame
               /\ \A i \in 1..n : g[i] = Transform(Modules[i], g[i - 1])
               /\ Inject(Modules, frame) = g[n]
  BY <1>1, InjectSteps
<1> DEFINE Kept(i) ==
              /\ g[i].ts = frame.ts /\ DOMAIN g[i].readings = DOMAIN frame.readings
              /\ i < k => g[i].readings[s] = frame.readings[s]
              /\ i >= k => g[i].readings[s] = g[k].readings[s]
           upto == {i \in 0..n : Kept(i)}
<1>3. k \in 1..n
  BY <1>1
<1>4. 0 \in upto
  BY <1>2, <1>3
<1>5. ASSUME NEW i \in 0..(n - 1), i \in upto PROVE i + 1 \in upto
  <2>1. i + 1 \in 1..n /\ (i + 1) - 1 = i /\ i + 1 \in 0..n
    OBVIOUS
  <2>2. Kept(i)
    BY <1>5
  <2>3. PICK m : m = Modules[i + 1]
    OBVIOUS
  <2>4. ValidModule(m, Sensors) /\ g[i + 1] = Transform(m, g[i])
    BY <1>1, <1>2, <2>1, <2>3, ModulesValid
  <2>5. /\ Transform(m, g[i]).ts = g[i].ts
        /\ DOMAIN Transform(m, g[i]).readings = DOMAIN g[i].readings
        /\ \A x \in DOMAIN g[i].readings :
              Transform(m, g[i]).readings[x] # g[i].readings[x]
                  => x \in m.affected /\ AppliesAt(m, g[i].ts)
    BY <2>4, TransformKeeps
  <2>6. i + 1 # k => s \notin m.affected
    BY <1>1, <2>1, <2>3 DEF Alone, GroundTruth
  <2>7. i + 1 # k => g[i + 1].readings[s] = g[i].readings[s]
    BY <2>2, <2>4, <2>5, <2>6
  <2>8. CASE i + 1 < k
    BY <2>1, <2>2, <2>4, <2>5, <2>7, <2>8, <1>3
  <2>9. CASE i + 1 = k
    BY <2>1, <2>2, <2>4, <2>5, <2>9, <1>3
  <2>10. CASE i + 1 > k
    BY <2>1, <2>2, <2>4, <2>5, <2>7, <2>10, <1>3
  <2> QED
    BY <2>8, <2>9, <2>10, <1>3
<1>6. n \in upto /\ k - 1 \in upto
  <2>1. n \in 0..n /\ k - 1 \in 0..n
    BY <1>3
  <2> HIDE DEF upto
  <2>2. \A i \in 0..n : i \in upto
    BY <1>4, <1>5, InductionTo
  <2> QED
    BY <2>1, <2>2
<1>7. /\ g[k - 1].ts = frame.ts /\ DOMAIN g[k - 1].readings = DOMAIN frame.readings
      /\ g[k - 1].readings[s] = frame.readings[s]
  BY <1>3, <1>6
<1>8. g[n].readings[s] = g[k].readings[s]
  BY <1>3, <1>6
<1>9. g[k] = Transform(Modules[k], g[k - 1])
  BY <1>2, <1>3
<1> QED
  BY <1>2, <1>7, <1>8, <1>9

\* What a leak does to the sensor of one role.
LEMMA LeakAtPressure ==
    ASSUME NEW m, m.type = "thermal_loop_coolant_leak", NEW frame,
           AppliesAt(m, frame.ts), m.pressure \in DOMAIN frame.readings,
           m.pressure \notin m.temperatures \cup {m.valve}
    PROVE  Transform(m, frame).readings[m.pressure] =
               (frame.readings[m.pressure] * (100 - PressureLoss(m, frame.ts - m.start)))
                  \div 100
<1>1. Transform(m, frame).readings = Leaking(m, frame.ts - m.start, frame.readings)
  BY DEF Transform, Frame
<1>2. m.pressure \notin m.temperatures /\ m.pressure # m.valve
  OBVIOUS
<1> QED
  BY <1>1, <1>2 DEF Leaking

LEMMA LeakAtValve ==
    ASSUME NEW m, m.type = "thermal_loop_coolant_leak", NEW frame,
           AppliesAt(m, frame.ts), m.valve \in DOMAIN frame.readings,
           m.valve \notin m.temperatures \cup {m.pressure}
    PROVE  Transform(m, frame).readings[m.valve] =
               LET steps == ValveIncrement(m, PressureLoss(m, frame.ts - m.start))
               IN  IF steps > 0 THEN AtMost(100, frame.readings[m.valve] + steps)
                   ELSE frame.readings[m.valve]
<1>1. Transform(m, frame).readings = Leaking(m, frame.ts - m.start, frame.readings)
  BY DEF Transform, Frame
<1>2. m.valve \notin m.temperatures /\ m.pressure # m.valve
  OBVIOUS
<1> QED
  BY <1>1, <1>2 DEF Leaking

LEMMA DecayGrows ==
    ASSUME NEW v \in Nat, NEW a \in Nat, NEW b \in Nat, a <= b
    PROVE  (v * (100 - b)) \div 100 <= (v * (100 - a)) \div 100
<1>1. PICK x \in Int : x = 100 - b
  OBVIOUS
<1>2. PICK y \in Int : y = 100 - a
  OBVIOUS
<1>3. v * x <= v * y /\ v * x \in Int /\ v * y \in Int
  BY <1>1, <1>2
<1>4. \A p, q \in Int : p <= q => p \div 100 <= q \div 100
  OBVIOUS
<1> QED
  BY <1>1, <1>2, <1>3, <1>4

\* The reading a frame of the data set had is a number.
LEMMA RawReading ==
    ASSUME WindowInv, NEW i \in 1..Len(held), NEW s \in DOMAIN held[i].readings
    PROVE  held[i].readings[s] \in Int
<1>1. held[i] \in RawFrames
  BY DEF WindowInv
<1>2. PICK t \in Nat, r \in Rows : held[i] = Frame(t, r)
  BY <1>1 DEF RawFrames
<1>3. r \in [DOMAIN r -> Int] /\ held[i].readings = r
  BY <1>2, RowsAssumption DEF Frame
<1> QED
  BY <1>3

LEMMA LeakFromInv == WindowInv => LeakGrows
<1> SUFFICES ASSUME WindowInv, NEW k \in DOMAIN Modules,
                    NEW i \in DOMAIN rolling_frames, NEW j \in DOMAIN rolling_frames,
                    Modules[k].type = "thermal_loop_coolant_leak", i < j,
                    AppliesAt(Modules[k], held[i].ts), AppliesAt(Modules[k], held[j].ts)
             PROVE  LET m == Modules[k]
                        Same(s) ==
                           /\ s \in DOMAIN held[i].readings \cap DOMAIN held[j].readings
                           /\ held[i].readings[s] = held[j].readings[s]
                        Raw(s) == held[i].readings[s]
                        Seen(f, s) == rolling_frames[f].readings[s]
                    IN  /\ /\ Same(m.pressure) /\ Raw(m.pressure) >= 0 /\ Alone(m.pressure, k)
                           /\ m.pressure \notin m.temperatures \cup {m.valve}
                           => Seen(j, m.pressure) <= Seen(i, m.pressure)
                        /\ /\ Same(m.valve) /\ Raw(m.valve) <= 100 /\ Alone(m.valve, k)
                           /\ m.valve \notin m.temperatures \cup {m.pressure}
                           /\ \A n \in DOMAIN m.increments : m.increments[n] >= 0
                           => Seen(j, m.valve) >= Seen(i, m.valve)
  BY DEF LeakGrows
<1>1. /\ i \in 1..Len(held) /\ j \in 1..Len(held)
      /\ rolling_frames[i] = Inject(Modules, held[i])
      /\ rolling_frames[j] = Inject(Modules, held[j])
  BY DEF WindowInv
<1>2. held[i].ts \in Nat /\ held[j].ts \in Nat /\ held[i].ts < held[j].ts
  BY <1>1, StartType DEF WindowInv
<1>3. PICK m : m = Modules[k]
  OBVIOUS
<1>4. m.type = "thermal_loop_coolant_leak" /\ AppliesAt(m, held[i].ts) /\ AppliesAt(m, held[j].ts)
  BY <1>3
<1>5. ValidLeak(m, Sensors)
  <2>1. ValidModule(m, Sensors)
    BY <1>3, ModulesValid
  <2> QED
    BY <2>1, <1>4 DEF ValidModule, ValidStepChange
<1>6. m.start \in Nat
  BY <1>5 DEF ValidLeak
<1>7. PICK a \in Nat, b \in Nat :
         a = held[i].ts - m.start /\ b = held[j].ts - m.start /\ a <= b
  BY <1>2, <1>4, <1>6 DEF AppliesAt
<1>8. PICK la \in Nat, lb \in Nat :
         la = PressureLoss(m, a) /\ lb = PressureLoss(m, b) /\ la <= lb
  BY <1>5, <1>7, LossGrows
<1>9. ASSUME NEW s, s \in DOMAIN held[i].readings, s \in DOMAIN held[j].readings, Alone(s, k)
      PROVE  \E p, q : /\ p.ts = held[i].ts /\ s \in DOMAIN p.readings
                       /\ p.readings[s] = held[i].readings[s]
                       /\ q.ts = held[j].ts /\ s \in DOMAIN q.readings
                       /\ q.readings[s] = held[j].readings[s]
                       /\ rolling_frames[i].readings[s] = Transform(m, p).readings[s]
                       /\ rolling_frames[j].readings[s] = Transform(m, q).readings[s]
  <2>1. PICK p : /\ p.ts = held[i].ts /\ DOMAIN p.readings = DOMAIN held[i].readings
                 /\ p.readings[s] = held[i].readings[s]
                 /\ Inject(Modules, held[i]).readings[s] = Transform(Modules[k], p).readings[s]
    BY <1>9, AloneInject
  <2>2. PICK q : /\ q.ts = held[j].ts /\ DOMAIN q.readings = DOMAIN held[j].readings
                 /\ q.readings[s] = held[j].readings[s]
                 /\ Inject(Modules, held[j]).readings[s] = Transform(Modules[k], q).readings[s]
    BY <1>9, AloneInject
  <2> QED
    BY <1>1, <1>3, <1>9, <2>1, <2>2
<1>10. ASSUME NEW s, s = m.pressure, s \in DOMAIN held[i].readings,
              s \in DOMAIN held[j].readings, held[i].readings[s] = held[j].readings[s],
              held[i].readings[s] >= 0, Alone(s, k), s \notin m.temperatures \cup {m.valve}
       PROVE  rolling_frames[j].readings[s] <= rolling_frames[i].readings[s]
  <2>1. PICK v \in Nat : v = held[i].readings[s]
    BY <1>1, <1>10, RawReading
  <2>2. PICK p, q : /\ p.ts = held[i].ts /\ s \in DOMAIN p.readings
                    /\ p.readings[s] = held[i].readings[s]
                    /\ q.ts = held[j].ts /\ s \in DOMAIN q.readings
                    /\ q.readings[s] = held[j].readings[s]
                    /\ rolling_frames[i].readings[s] = Transform(m, p).readings[s]
                    /\ rolling_frames[j].readings[s] = Transform(m, q).readings[s]
    BY <1>9, <1>10
  <2>3. Transform(m, p).readings[s] = (v * (100 - la)) \div 100
    <3>1. AppliesAt(m, p.ts) /\ p.ts - m.start = a
      BY <1>4, <1>7, <2>2
    <3>2. Transform(m, p).readings[m.pressure] =
             (p.readings[m.pressure] * (100 - PressureLoss(m, p.ts - m.start))) \div 100
      BY <1>4, <1>10, <2>2, <3>1, LeakAtPressure
    <3> QED
      BY <1>8, <1>10, <2>1, <2>2, <3>1, <3>2
  <2>4. Transform(m, q).readings[s] = (v * (100 - lb)) \div 100
    <3>1. AppliesAt(m, q.ts) /\ q.ts - m.start = b
      BY <1>4, <1>7, <2>2
    <3>2. Transform(m, q).readings[m.pressure] =
             (q.readings[m.pressure] * (100 - PressureLoss(m, q.ts - m.start))) \div 100
      BY <1>4, <1>10, <2>2, <3>1, LeakAtPressure
    <3> QED
      BY <1>8, <1>10, <2>1, <2>2, <3>1, <3>2
  <2>5. (v * (100 - lb)) \div 100 <= (v * (100 - la)) \div 100
    BY <1>8, DecayGrows
  <2> QED
    BY <2>2, <2>3, <2>4, <2>5
<1>11. ASSUME NEW s, s = m.valve, s \in DOMAIN held[i].readings,
              s \in DOMAIN held[j].readings, held[i].readings[s] = held[j].readings[s],
              held[i].readings[s] <= 100, Alone(s, k), s \notin m.temperatures \cup {m.pressure},
              \A n \in DOMAIN m.increments : m.increments[n] >= 0
       PROVE  rolling_frames[j].readings[s] >= rolling_frames[i].readings[s]
  <2>1. PICK v \in Int : v = held[i].readings[s]
    BY <1>1, <1>11, RawReading
  <2>2. PICK p, q : /\ p.ts = held[i].ts /\ s \in DOMAIN p.readings
                    /\ p.readings[s] = held[i].readings[s]
                    /\ q.ts = held[j].ts /\ s \in DOMAIN q.readings
                    /\ q.readings[s] = held[j].readings[s]
                    /\ rolling_frames[i].readings[s] = Transform(m, p).readings[s]
                    /\ rolling_frames[j].readings[s] = Transform(m, q).readings[s]
    BY <1>9, <1>11
  <2>3. PICK x \in Nat, y \in Nat :
           x = ValveIncrement(m, la) /\ y = ValveIncrement(m, lb) /\ x <= y
    <3>1. la \in Nat /\ lb \in Nat /\ la <= lb
      BY <1>8
    <3> QED
      BY <1>5, <1>11, <3>1, ValveGrows
  <2>4. Transform(m, p).readings[s] = IF x > 0 THEN AtMost(100, v + x) ELSE v
    <3>1. AppliesAt(m, p.ts) /\ p.ts - m.start = a
      BY <1>4, <1>7, <2>2
    <3>2. Transform(m, p).readings[m.valve] =
             LET steps == ValveIncrement(m, PressureLoss(m, p.ts - m.start))
             IN  IF steps > 0 THEN AtMost(100, p.readings[m.valve] + steps)
                 ELSE p.readings[m.valve]
      BY <1>4, <1>11, <2>2, <3>1, LeakAtValve
    <3> QED
      BY <1>8, <1>11, <2>1, <2>2, <2>3, <3>1, <3>2
  <2>5. Transform(m, q).readings[s] = IF y > 0 THEN AtMost(100, v + y) ELSE v
    <3>1. AppliesAt(m, q.ts) /\ q.ts - m.start = b
      BY <1>4, <1>7, <2>2
    <3>2. Transform(m, q).readings[m.valve] =
             LET steps == ValveIncrement(m, PressureLoss(m, q.ts - m.start))
             IN  IF steps > 0 THEN AtMost(100, q.readings[m.valve] + steps)
                 ELSE q.readings[m.valve]
      BY <1>4, <1>11, <2>2, <3>1, LeakAtValve
    <3> QED
      BY <1>8, <1>11, <2>1, <2>2, <2>3, <3>1, <3>2
  <2>6. v <= 100
    BY <1>11, <2>1
  <2>7. (IF y > 0 THEN AtMost(100, v + y) ELSE v)
           >= (IF x > 0 THEN AtMost(100, v + x) ELSE v)
    BY <2>3, <2>6 DEF AtMost
  <2> QED
    BY <2>2, <2>4, <2>5, <2>7
<1> QED
  BY <1>3, <1>10, <1>11

-----------------------------------------------------------------------------
(* Positions.                                                              *)

Below(kept, n) == {x \in kept : x < n}

\* p lists the members of kept below n, in order and none left out: as many are
\* below each as precede it.
Lists(p, kept, n) ==
    /\ p \in Seq(Nat)
    /\ \A i \in 1..Len(p) : /\ p[i] \in kept
                            /\ i - 1 <= p[i] /\ p[i] + (Len(p) - i) < n
                            /\ Cardinality(Below(kept, p[i])) = i - 1
    /\ \A i, j \in 1..Len(p) : i < j => p[i] < p[j]
    /\ IsFiniteSet(Below(kept, n)) /\ Cardinality(Below(kept, n)) = Len(p)

LEMMA ListsNone == ASSUME NEW kept, kept \subseteq Nat PROVE Lists(<< >>, kept, 0)
<1>1. Below(kept, 0) = {}
  <2>1. \A x \in kept : ~(x < 0)
    OBVIOUS
  <2> QED
    BY <2>1 DEF Below
<1>2. IsFiniteSet({}) /\ Cardinality({}) = 0
  BY FS_EmptySet
<1>3. PICK p : p = << >>
  OBVIOUS
<1>4. p \in Seq(Nat) /\ Len(p) = 0 /\ 1..0 = {}
  BY <1>3
<1>5. Lists(p, kept, 0)
  BY <1>1, <1>2, <1>4 DEF Lists
<1> QED
  BY <1>3, <1>5

LEMMA ListsSkip ==
    ASSUME NEW kept, kept \subseteq Nat, NEW n \in Nat, n \notin kept, NEW p, Lists(p, kept, n)
    PROVE  Lists(p, kept, n + 1)
<1>1. Below(kept, n + 1) = Below(kept, n)
  <2>1. \A x \in kept : x < n + 1 <=> x < n
    OBVIOUS
  <2> QED
    BY <2>1 DEF Below
<1>2. PICK l \in Nat : l = Len(p)
  BY DEF Lists
<1>3. ASSUME NEW i \in 1..l PROVE p[i] + (l - i) < n + 1
  <2>1. p[i] \in Nat /\ p[i] + (l - i) < n
    BY <1>2 DEF Lists
  <2> QED
    BY <2>1
<1> QED
  BY <1>1, <1>2, <1>3 DEF Lists

LEMMA ListsKeep ==
    ASSUME NEW kept, kept \subseteq Nat, NEW n \in kept, NEW p, Lists(p, kept, n)
    PROVE  Lists(Append(p, n), kept, n + 1)
<1>1. PICK l \in Nat : l = Len(p)
  <2>1. p \in Seq(Nat)
    BY DEF Lists
  <2>2. Len(p) \in Nat
    BY <2>1
  <2> QED
    BY <2>2
<1>2. PICK q : q = Append(p, n)
  OBVIOUS
<1>3. /\ p \in Seq(Nat) /\ q \in Seq(Nat) /\ Len(q) = l + 1 /\ q[l + 1] = n
      /\ \A i \in 1..l : q[i] = p[i] /\ p[i] \in Nat
  BY <1>1, <1>2 DEF Lists
<1> DEFINE below == Below(kept, n)
<1>4. IsFiniteSet(below) /\ Cardinality(below) = l
  BY <1>1, <1>2 DEF Lists
<1>5. Below(kept, n + 1) = below \cup {n} /\ n \notin below
  <2>1. /\ \A x \in kept : x < n + 1 <=> x < n \/ x = n
        /\ n \in kept /\ ~(n < n)
    OBVIOUS
  <2> QED
    BY <2>1 DEF Below
<1>6. IsFiniteSet(below \cup {n}) /\ Cardinality(below \cup {n}) = l + 1
  <2> HIDE DEF below
  <2> QED
    BY <1>4, <1>5, FS_AddElement
<1>7. ASSUME NEW i \in 1..(l + 1)
      PROVE  /\ q[i] \in kept
             /\ i - 1 <= q[i] /\ q[i] + ((l + 1) - i) < n + 1
             /\ Cardinality(Below(kept, q[i])) = i - 1
  <2>1. CASE i \in 1..l
    <3>1. /\ q[i] = p[i] /\ p[i] \in kept /\ p[i] \in Nat
          /\ i - 1 <= p[i] /\ p[i] + (l - i) < n
          /\ Cardinality(Below(kept, p[i])) = i - 1
      BY <2>1, <1>1, <1>2, <1>3 DEF Lists
    <3> QED
      BY <3>1
  <2>2. CASE i = l + 1
    <3>1. l <= n
      <4>1. CASE l = 0
        BY <4>1
      <4>2. CASE l # 0
        <5>1. l \in 1..l /\ p[l] \in Nat
          BY <4>2, <1>3
        <5>2. l - 1 <= p[l] /\ p[l] + (l - l) < n
          BY <5>1, <1>1, <1>2 DEF Lists
        <5> QED
          BY <5>1, <5>2
      <4> QED
        BY <4>1, <4>2
    <3> QED
      BY <2>2, <3>1, <1>3, <1>4
  <2> QED
    BY <2>1, <2>2
<1>8. ASSUME NEW i \in 1..(l + 1), NEW j \in 1..(l + 1), i < j PROVE q[i] < q[j]
  <2>1. i \in 1..l
    BY <1>8
  <2>2. CASE j \in 1..l
    BY <1>8, <2>1, <2>2, <1>1, <1>2, <1>3 DEF Lists
  <2>3. CASE j = l + 1
    <3>1. p[i] \in Nat /\ p[i] + (l - i) < n
      BY <2>1, <1>1, <1>2, <1>3 DEF Lists
    <3> QED
      BY <2>1, <2>3, <3>1, <1>3
  <2> QED
    BY <2>2, <2>3
<1> HIDE DEF below
<1>9. \A i, j \in 1..Len(q) : i < j => q[i] < q[j]
  BY <1>3, <1>8
<1> QED
  BY <1>1, <1>2, <1>3, <1>5, <1>6, <1>7, <1>9 DEF Lists

\* What one position does to the list.
Longer(kept, i, p) == IF i - 1 \in kept THEN Append(p, i - 1) ELSE p

LEMMA ListSteps ==
    ASSUME NEW kept, NEW n \in Nat
    PROVE  \E g : /\ g[0] = << >>
                  /\ \A i \in 1..n : g[i] = Longer(kept, i, g[i - 1])
                  /\ Listed(kept, n) = g[n]
<1> DEFINE Is(g, k) == g = [i \in 0..k |-> IF i = 0 THEN << >>
                                           ELSE Longer(kept, i, g[i - 1])]
           upto == {k \in 0..n : \E g : Is(g, k)}
<1>1. 0 \in upto
  <2> DEFINE h == [i \in 0..0 |-> << >>]
  <2>1. \A i \in 0..0 : h[i] = IF i = 0 THEN << >> ELSE Longer(kept, i, h[i - 1])
    OBVIOUS
  <2>2. Is(h, 0)
    BY <2>1
  <2> HIDE DEF Is, h
  <2> QED
    BY <2>2
<1>2. ASSUME NEW k \in 0..(n - 1), k \in upto PROVE k + 1 \in upto
  <2>1. PICK g : Is(g, k)
    BY <1>2
  <2> DEFINE h == [i \in 0..(k + 1) |-> IF i <= k THEN g[i] ELSE Longer(kept, i, g[k])]
  <2>2. \A i \in 0..(k + 1) : h[i] = IF i = 0 THEN << >> ELSE Longer(kept, i, h[i - 1])
    <3>1. SUFFICES ASSUME NEW i \in 0..(k + 1)
                   PROVE  h[i] = IF i = 0 THEN << >> ELSE Longer(kept, i, h[i - 1])
      OBVIOUS
    <3>2. CASE i = 0
      BY <3>2, <2>1
    <3>3. CASE i # 0 /\ i <= k
      BY <3>3, <2>1
    <3>4. CASE i = k + 1
      BY <3>4
    <3> QED
      BY <3>2, <3>3, <3>4
  <2>3. Is(h, k + 1)
    BY <2>2
  <2>4. k + 1 \in 0..n
    OBVIOUS
  <2> HIDE DEF Is, h
  <2> QED
    BY <2>3, <2>4
<1>3. n \in upto
  <2> HIDE DEF upto
  <2> QED
    BY <1>1, <1>2, InductionTo
<1> DEFINE f == CHOOSE g : Is(g, n)
<1>4. Is(f, n)
  BY <1>3
<1>5. Listed(kept, n) = f[n]
  BY DEF Listed, Longer
<1> HIDE DEF f
<1>6. f[0] = << >> /\ \A i \in 1..n : f[i] = Longer(kept, i, f[i - 1])
  BY <1>4
<1> QED
  BY <1>5, <1>6

LEMMA ListedIs ==
    ASSUME NEW kept, kept \subseteq Nat, NEW n \in Nat
    PROVE  Lists(Listed(kept, n), kept, n)
<1>1. PICK g : /\ g[0] = << >>
               /\ \A i \in 1..n : g[i] = Longer(kept, i, g[i - 1])
               /\ Listed(kept, n) = g[n]
  BY ListSteps
<1> DEFINE upto == {i \in 0..n : Lists(g[i], kept, i)}
<1>2. 0 \in upto
  <2>1. Lists(<< >>, kept, 0)
    BY ListsNone
  <2>2. Lists(g[0], kept, 0) /\ 0 \in 0..n
    BY <1>1, <2>1
  <2> QED
    BY <2>2
<1>3. ASSUME NEW i \in 0..(n - 1), i \in upto PROVE i + 1 \in upto
  <2>1. Lists(g[i], kept, i) /\ i \in Nat
    BY <1>3
  <2>2. g[i + 1] = IF i \in kept THEN Append(g[i], i) ELSE g[i]
    BY <1>1 DEF Longer
  <2>3. Lists(g[i + 1], kept, i + 1)
    BY <2>1, <2>2, ListsKeep, ListsSkip
  <2> QED
    BY <2>3
<1>4. n \in upto
  <2> HIDE DEF upto
  <2>1. \A i \in 0..n : i \in upto
    BY ONLY <1>2, <1>3, n \in Nat, InductionTo
  <2> QED
    BY <2>1
<1> QED
  BY <1>1, <1>4

-----------------------------------------------------------------------------
(* Runs.                                                                   *)

\* A run is a stretch of consecutive members of A that begins as early as it can.
IsRun(r, A) ==
    /\ r \in Seq(Nat) /\ Len(r) > 0
    /\ \A j \in 1..Len(r) : r[j] = r[1] + (j - 1) /\ r[j] \in A
    /\ r[1] - 1 \notin A

\* It ends as late as it can, before b.
IsOver(r, A, b) == r[1] + Len(r) \notin A /\ r[1] + Len(r) <= b

\* The runs that are over before b and the one that goes on there, if any: they
\* begin one after the other, and wherever a run may begin.
ScanInv(done, run, A, b) ==
    /\ done \in Seq(Seq(Nat)) /\ run \in Seq(Nat) /\ b \in Nat
    /\ \A k \in 1..Len(done) : IsRun(done[k], A) /\ IsOver(done[k], A, b - 1)
    /\ Len(run) > 0 => IsRun(run, A) /\ run[1] + Len(run) = b
    /\ Len(run) = 0 => b - 1 \notin A
    /\ \A k, l \in 1..Len(done) : k < l => done[k][1] < done[l][1]
    /\ Len(run) > 0 => \A k \in 1..Len(done) : done[k][1] < run[1]
    /\ \A i \in A : i < b /\ i - 1 \notin A =>
           \/ \E k \in 1..Len(done) : done[k][1] = i
           \/ Len(run) > 0 /\ run[1] = i

\* The next start is above the threshold.
LEMMA ScanOn ==
    ASSUME NEW A, A \subseteq Nat, NEW b \in A, NEW done, NEW run, ScanInv(done, run, A, b)
    PROVE  ScanInv(done, Append(run, b), A, b + 1)
<1>1. PICK l \in Nat : l = Len(run)
  <2>1. run \in Seq(Nat)
    BY DEF ScanInv
  <2>2. Len(run) \in Nat
    BY <2>1
  <2> QED
    BY <2>2
<1>2. PICK q : q = Append(run, b)
  OBVIOUS
<1>3. /\ run \in Seq(Nat) /\ q \in Seq(Nat) /\ Len(q) = l + 1 /\ q[l + 1] = b
      /\ \A j \in 1..l : q[j] = run[j] /\ run[j] \in Nat
      /\ b \in Nat /\ b + 1 \in Nat
  BY SMTT(30), <1>1, <1>2 DEF ScanInv
<1>4. q[1] + (l + 1) = b + 1 /\ q[1] - 1 \notin A /\ q[1] \in Nat
      /\ \A j \in 1..(l + 1) : q[j] = q[1] + (j - 1) /\ q[j] \in A
  <2>1. CASE l = 0
    BY <2>1, <1>1, <1>2, <1>3 DEF ScanInv
  <2>2. CASE l # 0
    <3>1. q[1] = run[1] /\ run[1] \in Nat
      BY <2>2, <1>3
    <3>2. /\ run[1] + l = b /\ run[1] - 1 \notin A
          /\ \A j \in 1..l : run[j] = run[1] + (j - 1) /\ run[j] \in A
      BY <2>2, <1>1, <1>2 DEF ScanInv, IsRun
    <3>3. ASSUME NEW j \in 1..(l + 1) PROVE q[j] = q[1] + (j - 1) /\ q[j] \in A
      <4>1. CASE j \in 1..l
        BY <4>1, <3>1, <3>2, <1>3
      <4>2. CASE j = l + 1
        BY <4>2, <3>1, <3>2, <1>3
      <4> QED
        BY <4>1, <4>2
    <3> QED
      BY <3>1, <3>2, <3>3
  <2> QED
    BY <2>1, <2>2
<1>5. IsRun(q, A)
  BY <1>3, <1>4 DEF IsRun
<1>6. /\ done \in Seq(Seq(Nat)) /\ Len(done) \in Nat
      /\ \A k \in 1..Len(done) : /\ IsRun(done[k], A) /\ IsOver(done[k], A, b - 1)
                                 /\ done[k] \in Seq(Nat)
      /\ \A k, m \in 1..Len(done) : k < m => done[k][1] < done[m][1]
  BY DEF ScanInv, IsRun
<1>7. ASSUME NEW k \in 1..Len(done)
      PROVE  IsOver(done[k], A, (b + 1) - 1) /\ done[k][1] < q[1]
  <2>1. PICK f, m : f = done[k][1] /\ m = Len(done[k])
    OBVIOUS
  <2>2. f \in Nat /\ m \in Nat /\ m > 0
    BY <2>1, <1>6 DEF IsRun
  <2>3. f + m \notin A /\ f + m <= b - 1
    BY <2>1, <1>6 DEF IsOver
  <2>4. f < q[1]
    <3>1. CASE l = 0
      BY <3>1, <2>2, <2>3, <1>3
    <3>2. CASE l # 0
      BY <3>2, <2>1, <1>1, <1>2, <1>3 DEF ScanInv
    <3> QED
      BY <3>1, <3>2
  <2> QED
    BY SMTT(30), <2>1, <2>2, <2>3, <2>4, <1>3 DEF IsOver
<1>8. ASSUME NEW i \in A, i < b + 1, i - 1 \notin A
      PROVE  (\E k \in 1..Len(done) : done[k][1] = i) \/ q[1] = i
  <2>1. CASE i < b
    <3>1. \/ \E k \in 1..Len(done) : done[k][1] = i
          \/ l > 0 /\ run[1] = i
      BY <2>1, <1>1, <1>2, <1>8 DEF ScanInv
    <3> QED
      BY <3>1, <1>3
  <2>2. CASE i = b
    <3>1. l = 0
      <4>1. ASSUME l > 0 PROVE FALSE
        <5>1. l \in 1..(l + 1)
          BY <4>1
        <5>2. q[l] = q[1] + (l - 1) /\ q[l] \in A /\ q[1] + (l + 1) = b + 1 /\ q[1] \in Nat
          BY <5>1, <1>4
        <5>3. q[l] = i - 1
          BY <5>2, <2>2, <1>3
        <5> QED
          BY <5>2, <5>3, <1>8
      <4> QED
        BY <4>1
    <3> QED
      BY <2>2, <3>1, <1>3
  <2> QED
    BY <2>1, <2>2, <1>3, <1>8
<1> QED
  BY SMTT(30), <1>1, <1>2, <1>3, <1>4, <1>5, <1>6, <1>7, <1>8 DEF ScanInv

\* It is not, and ends a run.
LEMMA ScanOver ==
    ASSUME NEW A, A \subseteq Nat, NEW b \in Nat, b \notin A, NEW done, NEW run,
           ScanInv(done, run, A, b), Len(run) > 0
    PROVE  ScanInv(Append(done, run), << >>, A, b + 1)
<1>1. PICK n \in Nat : n = Len(done)
  <2>1. done \in Seq(Seq(Nat))
    BY DEF ScanInv
  <2>2. Len(done) \in Nat
    BY <2>1
  <2> QED
    BY <2>2
<1>2. PICK d, e : d = Append(done, run) /\ e = << >>
  OBVIOUS
<1>3. /\ d \in Seq(Seq(Nat)) /\ Len(d) = n + 1 /\ d[n + 1] = run
      /\ \A k \in 1..n : d[k] = done[k]
      /\ e \in Seq(Nat) /\ Len(e) = 0 /\ b + 1 \in Nat
  BY <1>1, <1>2 DEF ScanInv
<1>4. /\ \A k \in 1..n : IsRun(done[k], A) /\ IsOver(done[k], A, b - 1)
      /\ IsRun(run, A) /\ run[1] + Len(run) = b
      /\ \A k \in 1..n : done[k][1] < run[1]
      /\ \A k, l \in 1..n : k < l => done[k][1] < done[l][1]
  BY <1>1, <1>2 DEF ScanInv
<1>5. ASSUME NEW k \in 1..(n + 1)
      PROVE  IsRun(d[k], A) /\ IsOver(d[k], A, (b + 1) - 1)
  <2>1. CASE k \in 1..n
    <3>1. PICK f, m : f = done[k][1] /\ m = Len(done[k])
      OBVIOUS
    <3>2. IsRun(done[k], A) /\ IsOver(done[k], A, b - 1)
      BY <2>1, <1>4
    <3>3. f \in Nat /\ m \in Nat /\ f + m \notin A /\ f + m <= b - 1
      BY <3>1, <3>2 DEF IsRun, IsOver
    <3>4. d[k] = done[k] /\ f + m <= (b + 1) - 1
      BY SMTT(30), <2>1, <3>3, <1>3
    <3>5. IsOver(done[k], A, (b + 1) - 1)
      BY <3>1, <3>3, <3>4 DEF IsOver
    <3> QED
      BY <3>2, <3>4, <3>5
  <2>2. CASE k = n + 1
    BY <2>2, <1>3, <1>4 DEF IsOver
  <2> QED
    BY <2>1, <2>2
<1>6. ASSUME NEW k \in 1..(n + 1), NEW l \in 1..(n + 1), k < l PROVE d[k][1] < d[l][1]
  <2>1. k \in 1..n
    BY <1>6
  <2>2. CASE l \in 1..n
    BY <2>1, <2>2, <1>3, <1>4, <1>6
  <2>3. CASE l = n + 1
    BY <2>1, <2>3, <1>3, <1>4
  <2> QED
    BY <2>2, <2>3
<1>7. ASSUME NEW i \in A, i < b + 1, i - 1 \notin A
      PROVE  \E k \in 1..(n + 1) : d[k][1] = i
  <2>1. i < b
    BY <1>7
  <2>2. (\E k \in 1..n : done[k][1] = i) \/ run[1] = i
    BY <2>1, <1>1, <1>2, <1>7 DEF ScanInv
  <2>3. CASE run[1] = i
    <3>1. n + 1 \in 1..(n + 1)
      OBVIOUS
    <3> QED
      BY <2>3, <3>1, <1>3
  <2>4. CASE \E k \in 1..n : done[k][1] = i
    <3>1. PICK k \in 1..n : done[k][1] = i
      BY <2>4
    <3> QED
      BY <3>1, <1>3
  <2> QED
    BY <2>2, <2>3, <2>4
<1>8. (b + 1) - 1 \notin A
  OBVIOUS
<1>9. ScanInv(d, e, A, b + 1)
  BY ONLY <1>3, <1>5, <1>6, <1>7, <1>8 DEF ScanInv
<1> QED
  BY <1>1, <1>2, <1>9

\* It is not, and there is no run.
LEMMA ScanOff ==
    ASSUME NEW A, A \subseteq Nat, NEW b \in Nat, b \notin A, NEW done, NEW run,
           ScanInv(done, run, A, b), Len(run) = 0
    PROVE  ScanInv(done, run, A, b + 1)
<1>1. ASSUME NEW k \in 1..Len(done) PROVE IsOver(done[k], A, (b + 1) - 1)
  <2>1. IsRun(done[k], A) /\ IsOver(done[k], A, b - 1)
    BY DEF ScanInv
  <2>2. PICK f, m : f = done[k][1] /\ m = Len(done[k])
    OBVIOUS
  <2>3. f \in Nat /\ m \in Nat /\ f + m \notin A /\ f + m <= b - 1
    BY <2>1, <2>2 DEF IsRun, IsOver
  <2> QED
    BY <2>2, <2>3 DEF IsOver
<1>2. ASSUME NEW i \in A, i < b + 1 PROVE i < b
  BY <1>2
<1>3. b + 1 \in Nat /\ (b + 1) - 1 \notin A /\ ~(Len(run) > 0)
  OBVIOUS
<1> QED
  BY <1>1, <1>2, <1>3 DEF ScanInv

\* What one start does to the runs.
Scanned(score, threshold, n, x) ==
    LET i == Baseline + n - 1
    IN  IF score[i] > threshold THEN [x EXCEPT !.run = Append(@, i)]
        ELSE IF x.run # << >> THEN [done |-> Append(x.done, x.run), run |-> << >>]
        ELSE x

NoRuns == [done |-> << >>, run |-> << >>]

\* g holds what the first i starts make of the runs, for every i.
Scans(g, n, rows, score, threshold) ==
    /\ g[0] = NoRuns
    /\ \A i \in 1..n : g[i] = Scanned(score, threshold, i, g[i - 1])
    /\ Runs(rows, score, threshold) =
          IF g[n].run # << >> THEN Append(g[n].done, g[n].run) ELSE g[n].done

LEMMA RunSteps ==
    ASSUME NEW rows, NEW n \in Nat, n = Cardinality(Starts(rows)), NEW score, NEW threshold
    PROVE  \E g : Scans(g, n, rows, score, threshold)
<1> DEFINE Is(g, k) == g = [i \in 0..k |-> IF i = 0 THEN NoRuns
                                           ELSE Scanned(score, threshold, i, g[i - 1])]
           upto == {k \in 0..n : \E g : Is(g, k)}
<1>1. 0 \in upto
  <2> DEFINE h == [i \in 0..0 |-> NoRuns]
  <2>1. \A i \in 0..0 : h[i] = IF i = 0 THEN NoRuns ELSE Scanned(score, threshold, i, h[i - 1])
    OBVIOUS
  <2>2. Is(h, 0)
    BY <2>1
  <2> HIDE DEF Is, h
  <2> QED
    BY <2>2
<1>2. ASSUME NEW k \in 0..(n - 1), k \in upto PROVE k + 1 \in upto
  <2>1. PICK g : Is(g, k)
    BY <1>2
  <2> DEFINE h == [i \in 0..(k + 1) |-> IF i <= k THEN g[i]
                                        ELSE Scanned(score, threshold, i, g[k])]
  <2>2. \A i \in 0..(k + 1) :
           h[i] = IF i = 0 THEN NoRuns ELSE Scanned(score, threshold, i, h[i - 1])
    <3>1. SUFFICES ASSUME NEW i \in 0..(k + 1)
                   PROVE  h[i] = IF i = 0 THEN NoRuns
                                 ELSE Scanned(score, threshold, i, h[i - 1])
      OBVIOUS
    <3>2. CASE i = 0
      BY <3>2, <2>1
    <3>3. CASE i # 0 /\ i <= k
      BY <3>3, <2>1
    <3>4. CASE i = k + 1
      BY <3>4
    <3> QED
      BY <3>2, <3>3, <3>4
  <2>3. Is(h, k + 1)
    BY <2>2
  <2>4. k + 1 \in 0..n
    OBVIOUS
  <2> HIDE DEF Is, h
  <2> QED
    BY <2>3, <2>4
<1>3. n \in upto
  <2> HIDE DEF upto
  <2> QED
    BY <1>1, <1>2, InductionTo
<1> DEFINE f == CHOOSE g : Is(g, Cardinality(Starts(rows)))
<1>4. Is(f, n)
  BY <1>3
<1>5. Runs(rows, score, threshold) =
         IF f[n].run # << >> THEN Append(f[n].done, f[n].run) ELSE f[n].done
  <2>1. Runs(rows, score, threshold) =
           LET last == f[Cardinality(Starts(rows))]
           IN  IF last.run # << >> THEN Append(last.done, last.run) ELSE last.done
    BY DEF Runs, Scanned, NoRuns
  <2> HIDE DEF f
  <2> QED
    BY <2>1
<1> HIDE DEF f
<1>6. f[0] = NoRuns /\ \A i \in 1..n : f[i] = Scanned(score, threshold, i, f[i - 1])
  BY <1>4
<1> QED
  BY <1>5, <1>6 DEF Scans

\* The maximal runs of A, in order.
RunsAre(runs, A) ==
    /\ runs \in Seq(Seq(Nat))
    /\ \A k \in 1..Len(runs) : IsRun(runs[k], A) /\ runs[k][1] + Len(runs[k]) \notin A
    /\ \A k, l \in 1..Len(runs) : k < l => runs[k][1] < runs[l][1]
    /\ \A i \in A : i - 1 \notin A => \E k \in 1..Len(runs) : runs[k][1] = i

LEMMA RunsFromScan ==
    ASSUME NEW A, NEW b, NEW done, NEW run, ScanInv(done, run, A, b), Len(run) = 0,
           \A i \in A : i < b
    PROVE  RunsAre(done, A)
<1>1. ~(Len(run) > 0)
  OBVIOUS
<1> QED
  BY <1>1 DEF ScanInv, RunsAre, IsOver

IsScan(x, A, b) == x = [done |-> x.done, run |-> x.run] /\ ScanInv(x.done, x.run, A, b)

LEMMA ScanStep ==
    ASSUME NEW A, A \subseteq Nat, NEW score, NEW n \in Nat, NEW b \in Nat, b = Baseline + n,
           b \in A <=> score[b] > 0, NEW x, IsScan(x, A, b)
    PROVE  IsScan(Scanned(score, 0, n + 1, x), A, b + 1)
<1>1. PICK d, r : d = x.done /\ r = x.run
  OBVIOUS
<1>2. x = [done |-> d, run |-> r] /\ ScanInv(d, r, A, b) /\ r \in Seq(Nat)
  BY <1>1 DEF IsScan, ScanInv
<1>3. Baseline + (n + 1) - 1 = b
  BY DetectorsAssumption
<1>4. CASE b \in A
  <2>1. Scanned(score, 0, n + 1, x) = [done |-> d, run |-> Append(r, b)]
    BY <1>2, <1>3, <1>4 DEF Scanned
  <2>2. ScanInv(d, Append(r, b), A, b + 1)
    BY <1>2, <1>4, ScanOn
  <2>3. PICK q : q = Append(r, b)
    OBVIOUS
  <2>4. IsScan([done |-> d, run |-> q], A, b + 1)
    BY <2>2, <2>3 DEF IsScan
  <2> QED
    BY <2>1, <2>3, <2>4
<1>5. CASE b \notin A /\ r # << >>
  <2>1. Scanned(score, 0, n + 1, x) = [done |-> Append(d, r), run |-> << >>]
    BY <1>2, <1>3, <1>5 DEF Scanned
  <2>2. Len(r) > 0
    BY <1>2, <1>5
  <2>3. PICK c, e : c = Append(d, r) /\ e = << >>
    OBVIOUS
  <2>4. ScanInv(c, e, A, b + 1)
    BY <1>2, <1>5, <2>2, <2>3, ScanOver
  <2>5. IsScan([done |-> c, run |-> e], A, b + 1)
    BY <2>4 DEF IsScan
  <2> QED
    BY <2>1, <2>3, <2>5
<1>6. CASE b \notin A /\ r = << >>
  <2>1. Scanned(score, 0, n + 1, x) = [done |-> d, run |-> r]
    BY <1>2, <1>3, <1>6 DEF Scanned
  <2>2. Len(r) = 0
    BY <1>6
  <2>3. ScanInv(d, r, A, b + 1)
    BY <1>2, <1>6, <2>2, ScanOff
  <2> QED
    BY <2>1, <2>3 DEF IsScan
<1> QED
  BY <1>4, <1>5, <1>6

LEMMA RunsIs ==
    ASSUME NEW rows \in Nat, rows >= Baseline + Detect, NEW score \in [Starts(rows) -> 0..2],
           NEW A, A = {i \in Starts(rows) : score[i] > 0}
    PROVE  RunsAre(Runs(rows, score, 0), A)
<1>1. Baseline \in Nat /\ Detect \in Nat /\ Baseline > 1 /\ Detect > 1
  BY DetectorsAssumption
<1>2. PICK n \in Nat : n = rows - Detect - Baseline + 1
  BY <1>1
<1>3. Cardinality(Starts(rows)) = n
  <2>1. Baseline \in Int /\ rows - Detect \in Int /\ Baseline <= rows - Detect
    BY <1>1
  <2>2. Cardinality(Baseline..(rows - Detect)) = (rows - Detect) - Baseline + 1
    BY <2>1, FS_Interval
  <2> QED
    BY <2>2, <1>1, <1>2 DEF Starts
<1>4. PICK g : /\ g[0] = NoRuns
               /\ \A i \in 1..n : g[i] = Scanned(score, 0, i, g[i - 1])
               /\ Runs(rows, score, 0) =
                     IF g[n].run # << >> THEN Append(g[n].done, g[n].run) ELSE g[n].done
  <2>1. \E g : Scans(g, n, rows, score, 0)
    BY ONLY n \in Nat, <1>3, RunSteps
  <2> QED
    BY <2>1 DEF Scans
<1>5. A \subseteq Nat /\ \A i \in A : i >= Baseline /\ i < Baseline + n
  BY <1>1, <1>2 DEF Starts
<1> DEFINE upto == {i \in 0..n : IsScan(g[i], A, Baseline + i)}
<1>6. 0 \in upto
  <2>1. PICK e : e = << >>
    OBVIOUS
  <2>2. e \in Seq(Seq(Nat)) /\ e \in Seq(Nat) /\ Len(e) = 0 /\ 1..0 = {}
    BY <2>1
  <2>3. Baseline - 1 \notin A /\ (\A i \in A : ~(i < Baseline)) /\ ~(Len(e) > 0)
    BY <2>2, <1>1, <1>5
  <2>4. ScanInv(e, e, A, Baseline)
    BY <2>2, <2>3, <1>1 DEF ScanInv
  <2>5. IsScan([done |-> e, run |-> e], A, Baseline)
    BY <2>4 DEF IsScan
  <2>6. g[0] = [done |-> e, run |-> e] /\ Baseline + 0 = Baseline /\ 0 \in 0..n
    BY <2>1, <1>1, <1>4 DEF NoRuns
  <2> QED
    BY <2>5, <2>6
<1>7. ASSUME NEW i \in 0..(n - 1), i \in upto PROVE i + 1 \in upto
  <2>1. PICK b \in Nat : b = Baseline + i
    BY <1>1
  <2>2. IsScan(g[i], A, b) /\ i \in Nat /\ i + 1 \in 1..n /\ (i + 1) - 1 = i
    BY <1>7, <2>1
  <2>3. b \in Starts(rows)
    BY <2>1, <1>1, <1>2 DEF Starts
  <2>4. b \in A <=> score[b] > 0
    BY <2>3
  <2>5. IsScan(Scanned(score, 0, i + 1, g[i]), A, b + 1)
    BY <2>1, <2>2, <2>4, <1>5, ScanStep
  <2>6. g[i + 1] = Scanned(score, 0, i + 1, g[i])
    BY <2>2, <1>4
  <2>7. b + 1 = Baseline + (i + 1) /\ i + 1 \in 0..n
    BY <2>1, <2>2, <1>1
  <2> QED
    BY <2>5, <2>6, <2>7
<1>8. n \in upto
  <2> HIDE DEF upto
  <2>1. \A i \in 0..n : i \in upto
    BY ONLY <1>6, <1>7, n \in Nat, InductionTo
  <2> QED
    BY <2>1
<1>9. PICK d, r, b : d = g[n].done /\ r = g[n].run /\ b = Baseline + n
  OBVIOUS
<1>10. ScanInv(d, r, A, b) /\ r \in Seq(Nat) /\ b \in Nat
  BY <1>1, <1>8, <1>9 DEF IsScan, ScanInv
<1>11. b \notin A /\ (\A i \in A : i < b) /\ (\A i \in A : i < b + 1)
  BY <1>5, <1>9, <1>10
<1>12. CASE r # << >>
  <2>1. Len(r) > 0
    BY <1>10, <1>12
  <2>2. PICK e, c : e = << >> /\ c = Append(d, r)
    OBVIOUS
  <2>3. ScanInv(c, e, A, b + 1) /\ Len(e) = 0
    BY <2>1, <2>2, <1>5, <1>10, <1>11, ScanOver
  <2>4. RunsAre(c, A)
    BY <2>3, <1>11, RunsFromScan
  <2> QED
    BY <2>2, <2>4, <1>4, <1>9, <1>12
<1>13. CASE r = << >>
  <2>1. Len(r) = 0
    BY <1>13
  <2>2. RunsAre(d, A)
    BY <2>1, <1>10, <1>11, RunsFromScan
  <2> QED
    BY <2>2, <1>4, <1>9, <1>13
<1> QED
  BY <1>12, <1>13

-----------------------------------------------------------------------------
(* The events.                                                             *)

\* The frames are in the order of time.
Ordered(w, n) ==
    /\ n \in Nat /\ Len(w) = n /\ DOMAIN w = 1..n
    /\ \A i \in 1..n : w[i].ts \in Nat
    /\ \A i, j \in 1..n : i < j => w[i].ts < w[j].ts

LEMMA OrderedFromInv == WindowInv => Ordered(rolling_frames, Len(rolling_frames))
<1> SUFFICES ASSUME WindowInv PROVE Ordered(rolling_frames, Len(rolling_frames))
  OBVIOUS
<1>1. PICK n \in Nat : n = Len(held) /\ n = Len(rolling_frames) /\ DOMAIN rolling_frames = 1..n
  BY DEF WindowInv
<1>2. ASSUME NEW i \in 1..n PROVE rolling_frames[i].ts = held[i].ts /\ held[i].ts \in Nat
  BY <1>1, InjectKeeps, StartType DEF WindowInv
<1>3. \A i, j \in 1..n : i < j => rolling_frames[i].ts < rolling_frames[j].ts
  BY <1>1, <1>2 DEF WindowInv
<1> QED
  BY <1>1, <1>2, <1>3 DEF Ordered

\* The rows p of a matrix are the frames kept of a window.
Matrix(w, n, kept, p) ==
    Ordered(w, n) /\ kept \subseteq 0..(n - 1) /\ Lists(p, kept, n)

\* The time of row i.
RowTime(w, p, i) == w[p[i + 1] + 1].ts

Earlier(w, kept, t) == {x \in kept : w[x + 1].ts < t}

IsKept(w, kept, t) == \E x \in kept : w[x + 1].ts = t

\* A row is a whole frame, with as many whole frames before it as rows.
LEMMA RowIs ==
    ASSUME NEW w, NEW n, NEW kept, NEW p, Matrix(w, n, kept, p), NEW i \in 0..(Len(p) - 1)
    PROVE  /\ RowTime(w, p, i) \in Nat
           /\ IsKept(w, kept, RowTime(w, p, i))
           /\ Cardinality(Earlier(w, kept, RowTime(w, p, i))) = i
<1> USE DEF Matrix
<1>1. PICK l \in Nat : l = Len(p)
  <2>1. p \in Seq(Nat)
    BY DEF Lists
  <2> QED
    BY <2>1
<1>2. PICK y : y = p[i + 1]
  OBVIOUS
<1>3. i + 1 \in 1..l /\ (i + 1) - 1 = i
  BY <1>1
<1>4. y \in kept /\ Cardinality(Below(kept, y)) = i
  BY <1>1, <1>2, <1>3 DEF Lists
<1>5. n \in Nat /\ y \in 0..(n - 1) /\ y + 1 \in 1..n
  BY <1>4 DEF Ordered
<1>6. RowTime(w, p, i) = w[y + 1].ts /\ w[y + 1].ts \in Nat
  BY <1>2, <1>5 DEF RowTime, Ordered
<1>7. ASSUME NEW x \in kept PROVE w[x + 1].ts < w[y + 1].ts <=> x < y
  <2>1. x \in 0..(n - 1) /\ x + 1 \in 1..n
    BY <1>5
  <2>2. w[x + 1].ts \in Nat
    BY <2>1 DEF Ordered
  <2>3. CASE x < y
    BY <2>1, <2>3, <1>5 DEF Ordered
  <2>4. CASE x = y
    BY <2>2, <2>4, <1>5
  <2>5. CASE x > y
    <3>1. w[y + 1].ts < w[x + 1].ts
      BY <2>1, <2>5, <1>5 DEF Ordered
    <3> QED
      BY <3>1, <2>2, <2>5, <1>5, <1>6
  <2> QED
    BY <2>1, <2>3, <2>4, <2>5, <1>5
<1>8. Earlier(w, kept, RowTime(w, p, i)) = Below(kept, y)
  BY <1>6, <1>7 DEF Below, Earlier
<1> QED
  BY <1>4, <1>6, <1>8 DEF IsKept

\* Rows are in the order of time.
LEMMA RowsOrdered ==
    ASSUME NEW w, NEW n, NEW kept, NEW p, Matrix(w, n, kept, p),
           NEW i \in 0..(Len(p) - 1), NEW j \in 0..(Len(p) - 1)
    PROVE  /\ i < j => RowTime(w, p, i) < RowTime(w, p, j)
           /\ i <= j => RowTime(w, p, i) <= RowTime(w, p, j)
<1> USE DEF Matrix
<1>1. PICK l \in Nat : l = Len(p)
  <2>1. p \in Seq(Nat)
    BY DEF Lists
  <2> QED
    BY <2>1
<1>2. PICK x, y : x = p[i + 1] /\ y = p[j + 1]
  OBVIOUS
<1>3. i + 1 \in 1..l /\ j + 1 \in 1..l
  BY <1>1
<1>4. x \in kept /\ y \in kept /\ (i < j => x < y)
  BY <1>1, <1>2, <1>3 DEF Lists
<1>5. n \in Nat /\ x + 1 \in 1..n /\ y + 1 \in 1..n /\ (i < j => x + 1 < y + 1)
  BY <1>4 DEF Ordered
<1>6. RowTime(w, p, i) \in Nat /\ RowTime(w, p, j) \in Nat
  BY RowIs
<1>7. i < j => RowTime(w, p, i) < RowTime(w, p, j)
  BY <1>2, <1>5 DEF RowTime, Ordered
<1> QED
  BY <1>6, <1>7, <1>1

\* Where a run first scores highest.
IsPeak(run, score, i) ==
    /\ \A j \in DOMAIN run : score[run[j]] <= score[run[i]]
    /\ \A j \in 1..(i - 1) : score[run[j]] < score[run[i]]

LEMMA PeakExists ==
    ASSUME NEW l \in Nat, l > 0, NEW run, DOMAIN run = 1..l, NEW score,
           \A j \in 1..l : score[run[j]] \in 0..2
    PROVE  \E i \in DOMAIN run : IsPeak(run, score, i)
<1> DEFINE short == {2 - score[run[j]] : j \in 1..l}
<1>1. short \subseteq Nat /\ short # {}
  <2>1. 1 \in 1..l
    OBVIOUS
  <2> QED
    BY <2>1
<1>2. PICK m \in short : \A x \in short : m <= x
  <2> HIDE DEF short
  <2> QED
    BY <1>1, LeastNat
<1>3. ASSUME NEW j \in 1..l PROVE score[run[j]] <= 2 - m
  <2>1. score[run[j]] \in 0..2 /\ 2 - score[run[j]] \in short
    OBVIOUS
  <2>2. m <= 2 - score[run[j]] /\ m \in Nat
    BY <2>1, <1>1, <1>2
  <2> QED
    BY <2>1, <2>2
<1> DEFINE best == {j \in 1..l : score[run[j]] = 2 - m}
<1>4. best \subseteq Nat /\ best # {}
  BY <1>2
<1>5. PICK i \in best : \A x \in best : i <= x
  <2> HIDE DEF best, short
  <2> QED
    BY <1>4, LeastNat
<1>6. i \in 1..l /\ score[run[i]] = 2 - m /\ m \in Nat
  BY <1>1, <1>2, <1>5
<1>7. ASSUME NEW j \in 1..(i - 1) PROVE score[run[j]] < score[run[i]]
  <2>1. j \in 1..l /\ j < i
    BY <1>6
  <2>2. j \notin best
    BY <2>1, <1>5, <1>6
  <2> QED
    BY <2>1, <2>2, <1>3, <1>6
<1> QED
  BY <1>3, <1>6, <1>7 DEF IsPeak

\* The event of a run begins with its first row, peaks at one of its rows and
\* ends with a row that is not before its last.
LEMMA EventIs ==
    ASSUME NEW w, NEW p \in Seq(Nat), NEW A, NEW score, NEW run, IsRun(run, A),
           \A i \in A : i \in 0..(Len(p) - 1) /\ score[i] \in 0..2
    PROVE  \E j \in 1..Len(run), m \in 0..(Len(p) - 1) :
               /\ run[Len(run)] <= m
               /\ MakeEvent(w, p, run, score) =
                     [ts |-> RowTime(w, p, run[j]), start |-> RowTime(w, p, run[1]),
                      end |-> RowTime(w, p, m), above |-> Len(run)]
<1>1. PICK l \in Nat : l = Len(run) /\ l > 0 /\ DOMAIN run = 1..l /\ Len(p) \in Nat
  BY DEF IsRun
<1>2. \A j \in 1..l : run[j] \in A /\ run[j] \in 0..(Len(p) - 1) /\ score[run[j]] \in 0..2
  BY <1>1 DEF IsRun
<1>3. \E i \in DOMAIN run : IsPeak(run, score, i)
  BY <1>1, <1>2, PeakExists
<1>4. PICK j : j = CHOOSE i \in DOMAIN run : IsPeak(run, score, i)
  OBVIOUS
<1>5. j \in 1..l
  BY <1>1, <1>3, <1>4
<1>6. PICK a, b : a = run[Len(run)] + Detect - 1 /\ b = Len(p) - 1
  OBVIOUS
<1>7. /\ a \in Nat /\ b \in Nat /\ run[Len(run)] \in Nat
      /\ run[Len(run)] <= a /\ run[Len(run)] <= b
  <2>1. l \in 1..l
    BY <1>1
  <2>2. run[l] \in 0..(Len(p) - 1)
    BY <2>1, <1>2
  <2> QED
    BY <2>2, <1>1, <1>6, DetectorsAssumption
<1>8. PICK m : m = Min({a, b})
  OBVIOUS
<1>9. m \in {a, b} /\ m <= b
  <2>1. CASE a <= b
    <3>1. a \in {a, b} /\ \A y \in {a, b} : a <= y
      BY <2>1, <1>7
    <3> QED
      BY <3>1, <1>8 DEF Min
  <2>2. CASE b <= a
    <3>1. b \in {a, b} /\ \A y \in {a, b} : b <= y
      BY <2>2, <1>7
    <3> QED
      BY <3>1, <1>8 DEF Min
  <2> QED
    BY <2>1, <2>2, <1>7
<1>10. m \in 0..(Len(p) - 1) /\ run[Len(run)] <= m
  BY <1>6, <1>7, <1>9
<1>11. MakeEvent(w, p, run, score) =
          [ts |-> RowTime(w, p, run[j]), start |-> RowTime(w, p, run[1]),
           end |-> RowTime(w, p, m), above |-> Len(run)]
  BY <1>4, <1>6, <1>8 DEF MakeEvent, RowTime, IsPeak
<1> QED
  BY <1>1, <1>5, <1>10, <1>11

\* What the property asks of an event that tells the run of A that begins at i.
Tells(e, i, A, w, kept) ==
    /\ Cardinality(Earlier(w, kept, e.start)) = i
    /\ i..(i + e.above - 1) \subseteq A
    /\ i + e.above \notin A

\* The frames its times are of.
Bounds(e, w, kept) ==
    /\ e.start <= e.ts /\ e.ts <= e.end
    /\ IsKept(w, kept, e.start) /\ IsKept(w, kept, e.ts) /\ IsKept(w, kept, e.end)

\* Starts above the threshold are rows and have scores.
Scored(A, score, l) == \A i \in A : i \in 0..(l - 1) /\ score[i] \in 0..2

LEMMA EventTells ==
    ASSUME NEW w, NEW n, NEW kept, NEW p, Matrix(w, n, kept, p),
           NEW A, NEW score, Scored(A, score, Len(p)),
           NEW run, IsRun(run, A), run[1] + Len(run) \notin A,
           NEW e, e = MakeEvent(w, p, run, score)
    PROVE  /\ run[1] \in A /\ run[1] - 1 \notin A
           /\ Tells(e, run[1], A, w, kept) /\ Bounds(e, w, kept)
           /\ e.start = RowTime(w, p, run[1])
<1>1. p \in Seq(Nat) /\ Len(p) \in Nat
  BY DEF Lists, Matrix
<1>2. PICK j \in 1..Len(run), m \in 0..(Len(p) - 1) :
         /\ run[Len(run)] <= m
         /\ e = [ts |-> RowTime(w, p, run[j]), start |-> RowTime(w, p, run[1]),
                 end |-> RowTime(w, p, m), above |-> Len(run)]
  BY <1>1, EventIs DEF Scored
<1>3. PICK l \in Nat : l = Len(run) /\ l > 0
  BY DEF IsRun
<1>4. PICK f : f = run[1]
  OBVIOUS
<1>5. /\ \A k \in 1..l : run[k] = f + (k - 1) /\ run[k] \in A /\ run[k] \in 0..(Len(p) - 1)
      /\ f - 1 \notin A
  BY <1>3, <1>4 DEF IsRun, Scored
<1>6. f \in A /\ f \in 0..(Len(p) - 1)
  BY <1>3, <1>4, <1>5
<1>7. PICK g : g = run[j]
  OBVIOUS
<1>8. g \in 0..(Len(p) - 1) /\ f <= g /\ g <= m
  <2>1. l \in 1..l /\ j \in 1..l
    BY <1>2, <1>3, <1>4
  <2>2. g = f + (j - 1) /\ run[l] = f + (l - 1) /\ g \in 0..(Len(p) - 1)
    BY <2>1, <1>5, <1>7
  <2>3. f + (l - 1) <= m
    BY <2>2, <1>2, <1>3, <1>4
  <2> QED
    BY <2>1, <2>2, <2>3, <1>6, <1>1
<1>9. /\ e.start = RowTime(w, p, f) /\ e.ts = RowTime(w, p, g) /\ e.end = RowTime(w, p, m)
      /\ e.above = l
  BY <1>2, <1>3, <1>4, <1>7
<1>10. Bounds(e, w, kept)
  <2>1. RowTime(w, p, f) <= RowTime(w, p, g)
    BY <1>6, <1>8, RowsOrdered
  <2>2. RowTime(w, p, g) <= RowTime(w, p, m)
    BY <1>8, RowsOrdered
  <2>3. /\ IsKept(w, kept, RowTime(w, p, f)) /\ IsKept(w, kept, RowTime(w, p, g))
        /\ IsKept(w, kept, RowTime(w, p, m))
    BY <1>6, <1>8, RowIs
  <2> QED
    BY <2>1, <2>2, <2>3, <1>9 DEF Bounds
<1>11. Tells(e, f, A, w, kept)
  <2>1. Cardinality(Earlier(w, kept, RowTime(w, p, f))) = f
    BY <1>6, RowIs
  <2>2. ASSUME NEW i \in f..(f + l - 1) PROVE i \in A
    <3>1. i - f + 1 \in 1..l /\ f + ((i - f + 1) - 1) = i
      BY <1>6
    <3> QED
      BY <3>1, <1>5
  <2> QED
    BY <2>1, <2>2, <1>3, <1>4, <1>9 DEF Tells
<1> QED
  BY <1>3, <1>4, <1>5, <1>6, <1>9, <1>10, <1>11

\* A are the starts above the threshold, es the events that come of them.
MdiCase(w, S, kept, rows, score, A, es) ==
    /\ kept = WholeFrames(w, S) /\ rows = Cardinality(kept) /\ rows >= Baseline + Detect
    /\ score \in [Starts(rows) -> 0..2] /\ A = {i \in Starts(rows) : score[i] > 0}
    /\ es = MdiEvents(w, S, score, 0)

\* They tell the runs of A.
MdiTold(w, kept, A, es) ==
    /\ \A i \in A : i - 1 \notin A => \E k \in DOMAIN es : Tells(es[k], i, A, w, kept)
    /\ \A k \in DOMAIN es : /\ \E i \in A : i - 1 \notin A /\ Tells(es[k], i, A, w, kept)
                            /\ Bounds(es[k], w, kept)
    /\ \A k, l \in DOMAIN es : k < l => es[k].start < es[l].start

\* The events of MDI, over all the runs of A.
LEMMA MdiTells ==
    ASSUME NEW w, NEW n, Ordered(w, n), NEW S, NEW kept, NEW rows, NEW score, NEW A,
           NEW es, MdiCase(w, S, kept, rows, score, A, es)
    PROVE  MdiTold(w, kept, A, es)
<1> USE DEF MdiCase
<1>1. n \in Nat /\ Len(w) = n /\ kept \subseteq 0..(n - 1) /\ kept \subseteq Nat
  BY DEF Ordered, WholeFrames
<1>2. PICK p : p = FrameIndices(w, S)
  OBVIOUS
<1>3. Lists(p, kept, n) /\ Matrix(w, n, kept, p)
  BY <1>1, <1>2, ListedIs DEF FrameIndices, Matrix
<1>4. p \in Seq(Nat) /\ Len(p) \in Nat
  BY <1>3 DEF Lists
<1>5. Len(p) = rows
  <2>1. Below(kept, n) = kept
    BY <1>1 DEF Below
  <2> QED
    BY <2>1, <1>3 DEF Lists
<1>6. PICK runs : runs = Runs(rows, score, 0)
  OBVIOUS
<1>7. RunsAre(runs, A)
  BY <1>4, <1>5, <1>6, RunsIs
<1>8. PICK c \in Nat : c = Len(runs) /\ DOMAIN runs = 1..c
  <2>1. runs \in Seq(Seq(Nat))
    BY <1>7 DEF RunsAre
  <2>2. Len(runs) \in Nat /\ DOMAIN runs = 1..Len(runs)
    BY <2>1
  <2> QED
    BY <2>2
<1>9. es = [k \in 1..c |-> MakeEvent(w, p, runs[k], score)]
  BY <1>2, <1>5, <1>6, <1>8 DEF MdiEvents
<1>10. Scored(A, score, Len(p))
  BY SMTT(30), <1>4, <1>5, DetectorsAssumption DEF Starts, Scored
<1>11. ASSUME NEW k \in 1..c
       PROVE  /\ runs[k][1] \in A /\ runs[k][1] - 1 \notin A
              /\ Tells(es[k], runs[k][1], A, w, kept) /\ Bounds(es[k], w, kept)
              /\ es[k].start = RowTime(w, p, runs[k][1])
  <2>1. PICK run : run = runs[k]
    OBVIOUS
  <2>2. IsRun(run, A) /\ run[1] + Len(run) \notin A
    BY <2>1, <1>7, <1>8 DEF RunsAre
  <2>3. es[k] = MakeEvent(w, p, run, score)
    BY <2>1, <1>9
  <2>4. PICK e : e = es[k]
    OBVIOUS
  <2>5. /\ run[1] \in A /\ run[1] - 1 \notin A
        /\ Tells(e, run[1], A, w, kept) /\ Bounds(e, w, kept)
        /\ e.start = RowTime(w, p, run[1])
    BY ONLY <2>2, <2>3, <2>4, <1>3, <1>10, EventTells
  <2> QED
    BY ONLY <2>1, <2>4, <2>5
<1>12. ASSUME NEW i \in A, i - 1 \notin A
       PROVE  \E k \in DOMAIN es : Tells(es[k], i, A, w, kept)
  <2>1. PICK k \in 1..c : runs[k][1] = i
    BY <1>7, <1>8, <1>12 DEF RunsAre
  <2> QED
    BY <2>1, <1>9, <1>11
<1>13. ASSUME NEW k \in 1..c, NEW l \in 1..c, k < l PROVE es[k].start < es[l].start
  <2>1. PICK f, g : f = runs[k][1] /\ g = runs[l][1]
    OBVIOUS
  <2>2. f < g
    BY <2>1, <1>7, <1>8, <1>13 DEF RunsAre
  <2>3. f \in 0..(Len(p) - 1) /\ g \in 0..(Len(p) - 1)
    BY <2>1, <1>10, <1>11 DEF Scored
  <2>4. RowTime(w, p, f) < RowTime(w, p, g)
    BY <2>2, <2>3, <1>3, RowsOrdered
  <2> QED
    BY <2>1, <2>4, <1>11
<1>14. DOMAIN es = 1..c
  BY <1>9
<1> QED
  BY <1>11, <1>12, <1>13, <1>14 DEF MdiTold

\* DAMP counts values where it should count frames.
LEMMA DampLocated ==
    ASSUME NEW w, NEW n, Ordered(w, n), NEW s, NEW d \in Discords(w, s)
    PROVE  /\ Len(Present(w, s)) \in Nat
           /\ \E x \in 1..n : DampStamp(w, d) = w[x].ts
           /\ DampStamp(w, d) <= w[Present(w, s)[d + 1] + 1].ts
           /\ Present(w, s)[d + 1] - d <= n - Len(Present(w, s))
<1>1. n \in Nat /\ Len(w) = n
  BY DEF Ordered
<1>2. PICK kept, p : kept = WholeFrames(w, {s}) /\ p = Present(w, s)
  OBVIOUS
<1>3. kept \subseteq 0..(n - 1) /\ kept \subseteq Nat
  BY <1>1, <1>2 DEF WholeFrames
<1>4. Lists(p, kept, n)
  BY <1>1, <1>2, <1>3, ListedIs DEF Present
<1>5. PICK l \in Nat : l = Len(p)
  <2>1. p \in Seq(Nat)
    BY <1>4 DEF Lists
  <2> QED
    BY <2>1
<1>6. d \in Nat /\ d + 1 \in 1..l
  BY <1>2, <1>5, DetectorsAssumption DEF Discords
<1>7. PICK y : y = p[d + 1]
  OBVIOUS
<1>8. y \in kept /\ (d + 1) - 1 <= y /\ y + (l - (d + 1)) < n
  BY <1>4, <1>5, <1>6, <1>7 DEF Lists
<1>9. y \in Nat /\ d <= y /\ y - d <= n - l /\ y + 1 \in 1..n /\ d + 1 \in 1..n
  BY <1>1, <1>3, <1>6, <1>8
<1>10. DampStamp(w, d) = w[d + 1].ts
  BY <1>1, <1>6, <1>9 DEF DampStamp
<1>11. w[d + 1].ts <= w[y + 1].ts
  <2>1. w[d + 1].ts \in Nat
    BY <1>9 DEF Ordered
  <2>2. CASE d = y
    BY <2>1, <2>2
  <2>3. CASE d # y
    <3>1. d + 1 < y + 1 /\ w[y + 1].ts \in Nat
      BY <2>3, <1>6, <1>9 DEF Ordered
    <3>2. w[d + 1].ts < w[y + 1].ts
      BY <3>1, <1>9 DEF Ordered
    <3> QED
      BY <2>1, <3>1, <3>2
  <2> QED
    BY <2>2, <2>3
<1> QED
  BY <1>2, <1>5, <1>7, <1>9, <1>10, <1>11

LEMMA StampsOf == ASSUME NEW w, NEW n, Ordered(w, n), n > 0 PROVE StampsInWindow(w)
<1> DEFINE times == {w[i].ts : i \in DOMAIN w}
<1>1. DOMAIN w = 1..n /\ Len(w) = n /\ n \in 1..n
  BY DEF Ordered
<1>2. \A x \in 1..n : w[x].ts \in times
  BY <1>1
<1>3. \A e \in ThresholdEvents(w) : e.ts \in times
  BY <1>1, <1>2 DEF ThresholdEvents
<1>4. ASSUME NEW s PROVE \A e \in DampEvents(w, s) : e.ts \in times
  <2> HIDE DEF times
  <2>1. \A d \in Discords(w, s) : DampStamp(w, d) \in times
    BY <1>2, DampLocated
  <2> QED
    BY <2>1 DEF DampEvents
<1> QED
  BY <1>3, <1>4 DEF StampsInWindow

LEMMA DampOf == ASSUME NEW w, NEW n, Ordered(w, n) PROVE DampNearDiscord(w)
<1>1. Len(w) = n
  BY DEF Ordered
<1> QED
  BY <1>1, DampLocated DEF DampNearDiscord

LEMMA MdiOf == ASSUME NEW w, NEW n, Ordered(w, n) PROVE MdiTellsStretches(w)
<1> DEFINE whole == {i \in 0..(Len(w) - 1) : MdiSensors \subseteq DOMAIN w[i + 1].readings}
           rows == Cardinality(whole)
           RowOf(t) == Cardinality({i \in whole : w[i + 1].ts < t})
           Whole(t) == \E i \in whole : w[i + 1].ts = t
<1>1. whole = WholeFrames(w, MdiSensors)
  BY DEF WholeFrames, HasReading
<1>2. ASSUME rows >= Baseline + Detect, NEW score \in [Starts(rows) -> 0..2],
             NEW es, es = MdiEvents(w, MdiSensors, score, 0),
             NEW A, A = {i \in DOMAIN score : score[i] > 0}
      PROVE  MdiTold(w, whole, A, es)
  <2>1. A = {i \in Starts(rows) : score[i] > 0}
    BY <1>2
  <2>2. MdiCase(w, MdiSensors, whole, rows, score, A, es)
    BY <2>1, <1>1, <1>2 DEF MdiCase
  <2> QED
    BY ONLY Ordered(w, n), <2>2, MdiTells
<1>3. \A e, i, A : Tells(e, i, A, w, whole) <=> /\ RowOf(e.start) = i
                                               /\ i..(i + e.above - 1) \subseteq A
                                               /\ i + e.above \notin A
  BY Zenon DEF Tells, Earlier
<1>4. \A e : Bounds(e, w, whole) <=>
                  /\ e.start <= e.ts /\ e.ts <= e.end
                  /\ Whole(e.start) /\ Whole(e.ts) /\ Whole(e.end)
  BY Zenon DEF Bounds, IsKept
<1>5. ASSUME rows >= Baseline + Detect, NEW score \in [Starts(rows) -> 0..2]
       PROVE  LET es    == MdiEvents(w, MdiSensors, score, 0)
                  above == {i \in DOMAIN score : score[i] > 0}
                  Told(e, i) == /\ RowOf(e.start) = i
                                /\ i..(i + e.above - 1) \subseteq above
                                /\ i + e.above \notin above
              IN  /\ \A i \in above : i - 1 \notin above =>
                        \E k \in DOMAIN es : Told(es[k], i)
                  /\ \A k \in DOMAIN es :
                        /\ \E i \in above : i - 1 \notin above /\ Told(es[k], i)
                        /\ es[k].start <= es[k].ts /\ es[k].ts <= es[k].end
                        /\ Whole(es[k].start) /\ Whole(es[k].ts) /\ Whole(es[k].end)
                  /\ \A k, l \in DOMAIN es : k < l => es[k].start < es[l].start
  <2> HIDE DEF whole, rows, RowOf, Whole
  <2>1. PICK es, A : /\ es = MdiEvents(w, MdiSensors, score, 0)
                     /\ A = {i \in DOMAIN score : score[i] > 0}
    OBVIOUS
  <2>2. /\ \A i \in A : i - 1 \notin A => \E k \in DOMAIN es : Tells(es[k], i, A, w, whole)
        /\ \A k \in DOMAIN es :
              /\ \E i \in A : i - 1 \notin A /\ Tells(es[k], i, A, w, whole)
              /\ Bounds(es[k], w, whole)
        /\ \A k, l \in DOMAIN es : k < l => es[k].start < es[l].start
    <3>1. MdiTold(w, whole, A, es)
      BY ONLY <2>1, <1>2, <1>5
    <3> QED
      BY <3>1 DEF MdiTold
  <2>3. \A k \in DOMAIN es : /\ es[k].start <= es[k].ts /\ es[k].ts <= es[k].end
                             /\ Whole(es[k].start) /\ Whole(es[k].ts) /\ Whole(es[k].end)
    BY ONLY <2>2, <1>4, Zenon
  <2>4. \A i \in A : i - 1 \notin A =>
            \E k \in DOMAIN es : /\ RowOf(es[k].start) = i
                                 /\ i..(i + es[k].above - 1) \subseteq A
                                 /\ i + es[k].above \notin A
    BY ONLY <2>2, <1>3, Zenon
  <2>5. \A k \in DOMAIN es :
            \E i \in A : /\ i - 1 \notin A
                         /\ RowOf(es[k].start) = i
                         /\ i..(i + es[k].above - 1) \subseteq A
                         /\ i + es[k].above \notin A
    BY ONLY <2>2, <1>3, Zenon
  <2> QED
    BY ONLY <2>1, <2>2, <2>3, <2>4, <2>5, Zenon
<1> QED
  BY <1>5, Zenon DEF MdiTellsStretches

LEMMA EventsFromInv == WindowInv => EventsInWindow
<1> SUFFICES ASSUME WindowInv, rolling_frames # << >> PROVE EventsInWindow
  BY DEF EventsInWindow
<1>1. PICK w, n : w = rolling_frames /\ n = Len(w)
  OBVIOUS
<1>2. Ordered(w, n) /\ n > 0
  BY SMTT(30), <1>1, OrderedFromInv DEF Ordered, WindowInv
<1> QED
  BY <1>1, <1>2, StampsOf, DampOf, MdiOf DEF EventsInWindow

-----------------------------------------------------------------------------
(* The theorems.                                                           *)

LEMMA Invariants == Spec => [](WindowInv /\ StreakInv /\ HeardInv)
<1>1. Init => WindowInv /\ StreakInv /\ HeardInv
  BY WindowInit, StreakInit, HeardInit
<1>2. WindowInv /\ StreakInv /\ HeardInv /\ [Next]_vars
         => (WindowInv /\ StreakInv /\ HeardInv)'
  BY WindowNext, StreakNext, HeardNext
<1> QED
  BY <1>1, <1>2, PTL DEF Spec

\* The rolling window is in the order of time, spans its size at most and
\* ends with the last frame.
THEOREM TypeCorrect == Spec => []TypeOK
<1> QED
  BY Invariants, TypeFromInv, PTL

\* Whatever modules a scenario combines, a frame differs from the data set
\* inside their ground truth only, and a leak only grows.
THEOREM GroundTruthCorrect == Spec => []GroundTruthSound
<1>1. WindowInv => GroundTruthSound
  BY WithinFromInv, LeakFromInv DEF GroundTruthSound
<1> QED
  BY <1>1, Invariants, PTL

\* A sensor is reported exactly when enough of the last frames in a row had it
\* out of range and one of them far out.
THEOREM ExcursionCorrect == Spec => []SustainedExcursion
<1> QED
  BY Invariants, SustainedFromInv, PTL

\* DAMP begins two of its windows after the replay at the earliest, and goes
\* on as long as readings are not missing for more than its slack.
THEOREM DampCorrect == Spec => []DampTiming
<1> QED
  BY Invariants, DampFromInv, PTL

\* What a detector reports is located in the window: thresholds and DAMP with
\* one of its frames, MDI with the frames its stretch of rows is of.
THEOREM EventsCorrect == Spec => []EventsInWindow
<1> QED
  BY Invariants, EventsFromInv, PTL
=============================================================================
