---------------------------- MODULE StoreProofs ----------------------------
(***************************************************************************)
(* Theorems about Store, for any sensors, retention, distance of frames    *)
(* and pattern of missing values.                                          *)
(*                                                                         *)
(* A deque is a suffix of what its sensor delivered, and eviction cuts it  *)
(* where the retention does because timestamps grow; the window of a       *)
(* correlation ends no earlier than the last sample of any of its sensors, *)
(* so it lies within what each deque retains.                              *)
(***************************************************************************)
EXTENDS Store, SequenceTheorems, FiniteSetTheorems, WellFoundedInduction, TLAPS

-----------------------------------------------------------------------------
(* Numbers.                                                                *)

\* A set of naturals that is not empty has a minimum.
LEMMA MinOfNat ==
    ASSUME NEW S, S \subseteq Nat, S # {}
    PROVE  Min(S) \in S /\ \A x \in S : Min(S) <= x
<1>1. PICK m \in S : \A x \in S : <<x, m>> \notin OpToRel(<, Nat)
  BY NatLessThanWellFounded, WFMin
<1>2. ASSUME NEW x \in S, x < m PROVE FALSE
  <2>1. <<x, m>> \in OpToRel(<, Nat)
    BY <1>2 DEF OpToRel
  <2> QED
    BY <1>1, <2>1
<1>3. \A x \in S : m <= x
  BY <1>2
<1> QED
  BY <1>3 DEF Min

\* Of integers with a largest one, that is the maximum.
LEMMA MaxIs ==
    ASSUME NEW S, S \subseteq Int, NEW m \in S, \A x \in S : x <= m
    PROVE  Max(S) = m
<1>1. \A x \in S : (\A y \in S : x >= y) => x = m
  OBVIOUS
<1>2. \A y \in S : m >= y
  OBVIOUS
<1> QED
  BY <1>1, <1>2 DEF Max

-----------------------------------------------------------------------------
(* Eviction.                                                               *)

Increasing(q) == \A i, j \in 1..Len(q) : i < j => q[i] < q[j]

\* q is what is left of f without its first k.
Suffix(q, f, k) ==
    /\ Len(q) = Len(f) - k
    /\ \A i \in 1..Len(q) : q[i] = f[i + k]

LEMMA SubSeqIsSuffix ==
    ASSUME NEW f \in Seq(Nat), NEW k \in 0..Len(f)
    PROVE  /\ SubSeq(f, k + 1, Len(f)) \in Seq(Nat)
           /\ Suffix(SubSeq(f, k + 1, Len(f)), f, k)
<1>1. PICK n \in Nat : n = Len(f)
  OBVIOUS
<1>2. \A i \in k + 1 .. n : f[i] \in Nat
  BY <1>1
<1>3. /\ SubSeq(f, k + 1, n) \in Seq(Nat)
      /\ Len(SubSeq(f, k + 1, n)) = IF k + 1 <= n THEN n - (k + 1) + 1 ELSE 0
      /\ \A i \in 1 .. n - (k + 1) + 1 : SubSeq(f, k + 1, n)[i] = f[k + 1 + i - 1]
  BY <1>2, <1>1, SubSeqProperties
<1>4. Len(SubSeq(f, k + 1, n)) = n - k
  BY <1>3, <1>1
<1>5. \A i \in 1 .. n - k : SubSeq(f, k + 1, n)[i] = f[i + k]
  BY <1>3, <1>1
<1> QED
  BY <1>1, <1>3, <1>4, <1>5 DEF Suffix

LEMMA SuffixIsSubSeq ==
    ASSUME NEW f \in Seq(Nat), NEW k \in 0..Len(f), NEW q \in Seq(Nat), Suffix(q, f, k)
    PROVE  q = SubSeq(f, k + 1, Len(f))
<1> DEFINE t == SubSeq(f, k + 1, Len(f))
<1>1. t \in Seq(Nat) /\ Suffix(t, f, k)
  BY SubSeqIsSuffix
<1> HIDE DEF t
<1>2. Len(q) = Len(t) /\ \A i \in 1..Len(q) : q[i] = t[i]
  BY <1>1 DEF Suffix
<1>3. q = t
  BY <1>1, <1>2, SeqEqual
<1> QED
  BY <1>3 DEF t

\* Evict removes exactly the readings before the cutoff.
LEMMA EvictSuffix ==
    ASSUME NEW buf \in Seq(Nat), Increasing(buf), NEW cutoff \in Int
    PROVE  \E k \in 0..Len(buf) :
               /\ Evict(buf, cutoff) \in Seq(Nat) /\ Suffix(Evict(buf, cutoff), buf, k)
               /\ \A i \in 1..Len(buf) : i > k <=> buf[i] >= cutoff
<1> DEFINE kept == {i \in DOMAIN buf : buf[i] >= cutoff}
           first == Min(kept \cup {Len(buf) + 1})
<1>1. DOMAIN buf = 1..Len(buf) /\ Len(buf) \in Nat
  OBVIOUS
<1>2. /\ first \in kept \cup {Len(buf) + 1}
      /\ \A x \in kept \cup {Len(buf) + 1} : first <= x
  <2>1. kept \cup {Len(buf) + 1} \subseteq Nat
    BY <1>1
  <2> QED
    BY <2>1, MinOfNat
<1> HIDE DEF first
<1>3. PICK k \in Int : k = first - 1
  BY <1>2, <1>1
<1>4. k \in 0..Len(buf) /\ first = k + 1
  BY <1>1, <1>2, <1>3
<1>5. \A i \in 1..Len(buf) : i > k <=> buf[i] >= cutoff
  <2>1. SUFFICES ASSUME NEW i \in 1..Len(buf)
                 PROVE  i > k <=> buf[i] >= cutoff
    OBVIOUS
  <2>2. buf[i] >= cutoff => i > k
    BY <1>1, <1>2, <1>4
  <2>3. ASSUME i > k PROVE buf[i] >= cutoff
    <3>1. first \in 1..Len(buf) /\ buf[first] >= cutoff /\ first <= i
      BY <1>1, <1>2, <1>4, <2>3
    <3>2. buf[first] <= buf[i]
      BY <3>1 DEF Increasing
    <3> QED
      BY <3>1, <3>2, buf[i] \in Nat, buf[first] \in Nat
  <2> QED
    BY <2>2, <2>3
<1>6. Evict(buf, cutoff) = SubSeq(buf, k + 1, Len(buf))
  BY <1>4 DEF Evict, first
<1>7. Evict(buf, cutoff) \in Seq(Nat) /\ Suffix(Evict(buf, cutoff), buf, k)
  BY <1>4, <1>6, SubSeqIsSuffix
<1> QED
  BY <1>4, <1>5, <1>7

-----------------------------------------------------------------------------
(* What the store holds.                                                   *)

\* k readings of a sensor are gone: those that are too old for its last one.
Gone(q, f, k) ==
    /\ k \in 0..Len(f) /\ Suffix(q, f, k)
    /\ \A i \in 1..Len(f) : i > k <=> f[i] >= f[Len(f)] - Retention

SensorInv(s) ==
    /\ readings[s] \in Seq(Nat) /\ fed[s] \in Seq(Nat)
    /\ Increasing(fed[s])
    /\ \A i \in 1..Len(fed[s]) : fed[s][i] <= now
    /\ \E k \in Nat : Gone(readings[s], fed[s], k)

StoreInv ==
    /\ now \in Nat
    /\ readings \in [Sensors -> Seq(Nat)] /\ fed \in [Sensors -> Seq(Nat)]
    /\ \A s \in Sensors : SensorInv(s)

LEMMA StoreInit == Init => StoreInv
<1> SUFFICES ASSUME Init PROVE StoreInv
  OBVIOUS
<1>1. << >> \in Seq(Nat) /\ Len(<< >>) = 0
  BY EmptySeq
<1>2. readings \in [Sensors -> Seq(Nat)] /\ fed \in [Sensors -> Seq(Nat)]
  BY <1>1 DEF Init
<1>3. ASSUME NEW s \in Sensors PROVE SensorInv(s)
  <2>1. readings[s] = << >> /\ fed[s] = << >>
    BY DEF Init
  <2>2. Increasing(fed[s]) /\ Gone(readings[s], fed[s], 0)
    BY <1>1, <2>1 DEF Increasing, Gone, Suffix
  <2> QED
    BY <1>1, <2>1, <2>2 DEF SensorInv
<1> QED
  BY <1>2, <1>3 DEF StoreInv, Init

\* Appending a younger reading to a deque and to what was delivered.
LEMMA IngestSensor ==
    ASSUME NEW q \in Seq(Nat), NEW f \in Seq(Nat), NEW k \in Nat, Gone(q, f, k),
           Increasing(f), NEW ts \in Nat, \A i \in 1..Len(f) : f[i] < ts
    PROVE  /\ Append(f, ts) \in Seq(Nat) /\ Increasing(Append(f, ts))
           /\ \A i \in 1..Len(Append(f, ts)) : Append(f, ts)[i] <= ts
           /\ Evict(Append(q, ts), ts - Retention) \in Seq(Nat)
           /\ \E j \in Nat :
                 Gone(Evict(Append(q, ts), ts - Retention), Append(f, ts), j)
<1> DEFINE f2 == Append(f, ts)
           q2 == Append(q, ts)
           e  == Evict(q2, ts - Retention)
<1>1. PICK n \in Nat : n = Len(f)
  OBVIOUS
<1>2. /\ f2 \in Seq(Nat) /\ Len(f2) = n + 1
      /\ (\A i \in 1..n : f2[i] = f[i]) /\ f2[n + 1] = ts
  BY <1>1, AppendProperties
<1>3. PICK m \in Nat : m = Len(q)
  OBVIOUS
<1>4. /\ q2 \in Seq(Nat) /\ Len(q2) = m + 1
      /\ (\A i \in 1..m : q2[i] = q[i]) /\ q2[m + 1] = ts
  BY <1>3, AppendProperties
<1>5. k \in 0..n /\ m = n - k /\ \A i \in 1..m : q[i] = f[i + k]
  BY <1>1, <1>3 DEF Gone, Suffix
<1> HIDE DEF f2, q2
<1>6. \A i \in 1..n : f[i] \in Nat /\ f[i] < ts
  BY <1>1
<1>7. Increasing(f2)
  <2>1. \A i, j \in 1..n : i < j => f[i] < f[j]
    BY <1>1 DEF Increasing
  <2>2. ASSUME NEW i \in 1..(n + 1), NEW j \in 1..(n + 1), i < j
        PROVE  f2[i] < f2[j]
    <3>1. i \in 1..n
      BY <2>2
    <3>2. CASE j = n + 1
      BY <3>1, <3>2, <1>2, <1>6
    <3>3. CASE j \in 1..n
      BY <3>1, <3>3, <1>2, <2>1, <2>2
    <3> QED
      BY <3>2, <3>3
  <2> QED
    BY <2>2, <1>2 DEF Increasing
<1>8. \A i \in 1..(n + 1) : f2[i] <= ts
  <2>1. SUFFICES ASSUME NEW i \in 1..(n + 1) PROVE f2[i] <= ts
    OBVIOUS
  <2>2. CASE i = n + 1
    BY <2>2, <1>2
  <2>3. CASE i \in 1..n
    <3>1. f2[i] = f[i]
      BY <2>3, <1>2
    <3>2. f[i] \in Nat /\ f[i] < ts
      BY <2>3, <1>6
    <3> QED
      BY <3>1, <3>2
  <2> QED
    BY <2>2, <2>3
<1>9. \A i \in 1..(m + 1) : q2[i] = f2[i + k]
  <2>1. SUFFICES ASSUME NEW i \in 1..(m + 1) PROVE q2[i] = f2[i + k]
    OBVIOUS
  <2>2. CASE i = m + 1
    <3>1. i + k = n + 1
      BY <2>2, <1>5
    <3> QED
      BY <3>1, <2>2, <1>2, <1>4
  <2>3. CASE i \in 1..m
    <3>1. i + k \in 1..n
      BY <2>3, <1>5
    <3> QED
      BY <3>1, <2>3, <1>2, <1>4, <1>5
  <2> QED
    BY <2>2, <2>3
<1>10. Increasing(q2)
  <2>1. ASSUME NEW i \in 1..(m + 1), NEW j \in 1..(m + 1), i < j
        PROVE  q2[i] < q2[j]
    <3>1. i + k \in 1..(n + 1) /\ j + k \in 1..(n + 1) /\ i + k < j + k
      BY <2>1, <1>5
    <3>2. f2[i + k] < f2[j + k]
      BY <3>1, <1>7, <1>2 DEF Increasing
    <3> QED
      BY <3>2, <1>9
  <2> QED
    BY <2>1, <1>4 DEF Increasing
<1>11. ts - Retention \in Int
  BY StoreAssumption
<1>12. PICK g \in 0..Len(q2) :
          /\ e \in Seq(Nat) /\ Suffix(e, q2, g)
          /\ \A i \in 1..Len(q2) : i > g <=> q2[i] >= ts - Retention
  BY <1>4, <1>10, <1>11, EvictSuffix
<1> HIDE DEF e
<1>13. g \in 0..(m + 1) /\ Len(e) = m + 1 - g
  BY <1>12, <1>4 DEF Suffix
<1>14. Len(e) = n + 1 - (g + k) /\ g + k \in 0..(n + 1)
  BY <1>13, <1>5
<1>15. \A i \in 1..Len(e) : e[i] = f2[i + (g + k)]
  <2>1. SUFFICES ASSUME NEW i \in 1..Len(e) PROVE e[i] = f2[i + (g + k)]
    OBVIOUS
  <2>2. e[i] = q2[i + g]
    BY <1>12 DEF Suffix
  <2>3. i + g \in 1..(m + 1) /\ (i + g) + k = i + (g + k)
    BY <1>13, <1>5
  <2>4. q2[i + g] = f2[(i + g) + k]
    BY <2>3, <1>9
  <2> QED
    BY <2>2, <2>3, <2>4
<1>16. ASSUME NEW i \in 1..(n + 1)
       PROVE  i > g + k <=> f2[i] >= ts - Retention
  <2>1. CASE i > k
    <3>1. i - k \in 1..(m + 1) /\ (i - k) + k = i
      BY <2>1, <1>5
    <3>2. q2[i - k] = f2[i]
      BY <3>1, <1>9
    <3>3. i - k > g <=> f2[i] >= ts - Retention
      BY <3>1, <3>2, <1>12, <1>4
    <3>4. i - k > g <=> i > g + k
      BY <1>13, <1>5
    <3> QED
      BY <3>3, <3>4
  <2>2. CASE i <= k
    <3>1. i \in 1..n
      BY <2>2, <1>5
    <3>2. n \in 1..n
      BY <3>1
    <3>3. ~(f[i] >= f[n] - Retention)
      BY <3>1, <2>2, <1>1, <1>5 DEF Gone
    <3>4. f[i] \in Nat /\ f[n] \in Nat /\ f[n] < ts /\ f2[i] = f[i]
      BY <3>1, <3>2, <1>6, <1>2
    <3>5. ~(f2[i] >= ts - Retention)
      BY <3>3, <3>4, StoreAssumption
    <3>6. ~(i > g + k)
      BY <2>2, <1>13, <1>5
    <3> QED
      BY <3>5, <3>6
  <2> QED
    BY <2>1, <2>2, <1>5
<1>17. Gone(e, f2, g + k)
  BY <1>2, <1>14, <1>15, <1>16 DEF Gone, Suffix
<1>18. g + k \in Nat
  BY <1>14
<1> QED
  BY <1>2, <1>7, <1>8, <1>12, <1>17, <1>18 DEF e, f2, q2

LEMMA StoreNext == StoreInv /\ [Next]_vars => StoreInv'
<1> SUFFICES ASSUME StoreInv, [Next]_vars PROVE StoreInv'
  OBVIOUS
<1>1. CASE Frame
  <2>1. PICK gap \in 1..MaxGap, frame \in SUBSET Sensors :
           /\ now' = now + gap
           /\ Ingest(frame, now + gap)
           /\ fed' = [s \in Sensors |->
                         IF s \in frame THEN Append(fed[s], now + gap) ELSE fed[s]]
    BY <1>1 DEF Frame
  <2>2. PICK ts \in Nat : ts = now + gap /\ now < ts
    BY <2>1, StoreAssumption DEF StoreInv
  <2>3. readings' = [s \in Sensors |->
                        IF s \in frame THEN Evict(Append(readings[s], ts), ts - Retention)
                        ELSE readings[s]]
    BY <2>1, <2>2 DEF Ingest
  <2>4. fed' = [s \in Sensors |-> IF s \in frame THEN Append(fed[s], ts) ELSE fed[s]]
    BY <2>1, <2>2
  <2>5. now \in Nat /\ now' = ts
    BY <2>1, <2>2 DEF StoreInv
  <2>6. ASSUME NEW s \in Sensors PROVE SensorInv(s)'
    <3>1. /\ readings[s] \in Seq(Nat) /\ fed[s] \in Seq(Nat) /\ Increasing(fed[s])
          /\ \A i \in 1..Len(fed[s]) : fed[s][i] <= now
      BY DEF StoreInv, SensorInv
    <3>2. PICK k \in Nat : Gone(readings[s], fed[s], k)
      BY DEF StoreInv, SensorInv
    <3>3. \A i \in 1..Len(fed[s]) : fed[s][i] \in Nat
      BY <3>1
    <3>4. \A i \in 1..Len(fed[s]) : fed[s][i] < ts
      BY <3>1, <3>3, <2>2, <2>5
    <3>5. CASE s \in frame
      <4>1. /\ readings'[s] = Evict(Append(readings[s], ts), ts - Retention)
            /\ fed'[s] = Append(fed[s], ts)
        BY <3>5, <2>3, <2>4
      <4>2. /\ fed'[s] \in Seq(Nat) /\ Increasing(fed'[s])
            /\ \A i \in 1..Len(fed'[s]) : fed'[s][i] <= ts
            /\ readings'[s] \in Seq(Nat)
            /\ \E j \in Nat : Gone(readings'[s], fed'[s], j)
        BY SMTT(30), <3>1, <3>2, <3>4, <4>1, IngestSensor
      <4> QED
        BY <4>2, <2>5 DEF SensorInv
    <3>6. CASE s \notin frame
      <4>1. readings'[s] = readings[s] /\ fed'[s] = fed[s]
        BY <3>6, <2>3, <2>4
      <4>2. \A i \in 1..Len(fed[s]) : fed[s][i] <= ts
        BY <3>3, <3>4
      <4>3. \E j \in Nat : Gone(readings'[s], fed'[s], j)
        BY <3>2, <4>1
      <4> QED
        BY <3>1, <4>1, <4>2, <4>3, <2>5 DEF SensorInv
    <3> QED
      BY <3>5, <3>6
  <2>7. \A s \in Sensors : readings'[s] \in Seq(Nat) /\ fed'[s] \in Seq(Nat)
    BY <2>6 DEF SensorInv
  <2>8. readings' \in [Sensors -> Seq(Nat)] /\ fed' \in [Sensors -> Seq(Nat)]
    BY <2>3, <2>4, <2>7
  <2> QED
    BY <2>5, <2>6, <2>8 DEF StoreInv
<1>2. CASE UNCHANGED vars
  BY <1>2 DEF vars, StoreInv, SensorInv
<1> QED
  BY <1>1, <1>2 DEF Next, Ended

LEMMA StoreInvariant == Spec => []StoreInv
<1> QED
  BY StoreInit, StoreNext, PTL DEF Spec

LEMMA HeldFromInv == StoreInv => HeldExactly
<1> SUFFICES ASSUME StoreInv, NEW s \in Sensors
             PROVE  LET n == Len(fed[s])
                    IN  \E k \in 0..n :
                           /\ readings[s] = SubSeq(fed[s], k + 1, n)
                           /\ \A i \in 1..n :
                                 i > k <=> fed[s][i] >= fed[s][n] - Retention
  BY DEF HeldExactly
<1>1. readings[s] \in Seq(Nat) /\ fed[s] \in Seq(Nat)
  BY DEF StoreInv, SensorInv
<1>2. PICK k \in Nat : Gone(readings[s], fed[s], k)
  BY DEF StoreInv, SensorInv
<1>3. k \in 0..Len(fed[s]) /\ Suffix(readings[s], fed[s], k)
  BY <1>2 DEF Gone
<1>4. readings[s] = SubSeq(fed[s], k + 1, Len(fed[s]))
  BY <1>1, <1>3, SuffixIsSubSeq
<1>5. \A i \in 1..Len(fed[s]) : i > k <=> fed[s][i] >= fed[s][Len(fed[s])] - Retention
  BY <1>2 DEF Gone
<1> QED
  BY <1>3, <1>4, <1>5

\* A deque holds, in chronological order, exactly what was delivered for its
\* sensor within the retention of the sensor's own latest reading.
THEOREM HoldsRetention == Spec => []HeldExactly
<1> QED
  BY StoreInvariant, HeldFromInv, PTL

-----------------------------------------------------------------------------
(* What the tools read.                                                    *)

\* A sensor with samples is known, by the last of them, and its history from a
\* time that is not before its retention is that of its samples.
LEMMA KnownSensor ==
    ASSUME StoreInv, NEW s \in Sensors, Samples(s) # {}
    PROVE  /\ readings[s] # << >> /\ Latest(s) \in Samples(s)
           /\ Samples(s) \subseteq Nat
           /\ \A t \in Samples(s) : t <= Latest(s)
           /\ \A t \in Nat : t \in {readings[s][i] : i \in DOMAIN readings[s]}
                 <=> t \in Samples(s) /\ t >= Latest(s) - Retention
<1> DEFINE q == readings[s]
           f == fed[s]
<1>1. q \in Seq(Nat) /\ f \in Seq(Nat) /\ Increasing(f)
  BY DEF StoreInv, SensorInv
<1>2. PICK k \in Nat : Gone(q, f, k)
  BY DEF StoreInv, SensorInv
<1> HIDE DEF q, f
<1>3. PICK n \in Nat : n = Len(f)
  BY <1>1
<1>4. DOMAIN f = 1..n /\ (\A i \in 1..n : f[i] \in Nat) /\ DOMAIN q = 1..Len(q)
  BY <1>1, <1>3
<1>5. Samples(s) = {f[i] : i \in 1..n}
  BY <1>4 DEF Samples, f
<1>6. n \in 1..n
  BY <1>5, <1>3
<1>7. /\ k \in 0..n /\ Len(q) = n - k /\ (\A i \in 1..Len(q) : q[i] = f[i + k])
      /\ \A i \in 1..n : i > k <=> f[i] >= f[n] - Retention
  BY <1>2, <1>3 DEF Gone, Suffix
<1>8. n > k
  BY <1>6, <1>7, <1>4, StoreAssumption
<1>9. Len(q) \in 1..Len(q) /\ q[Len(q)] = f[n]
  BY <1>7, <1>8
<1>10. q # << >> /\ Latest(s) = f[n]
  BY <1>9 DEF Latest, q
<1>11. \A i \in 1..n : f[i] <= f[n]
  <2>1. \A i \in 1..n : i < n => f[i] < f[n]
    BY <1>1, <1>3, <1>6 DEF Increasing
  <2>2. \A i \in 1..n : i < n \/ i = n
    OBVIOUS
  <2>3. \A i \in 1..n : f[i] \in Nat
    BY <1>4
  <2> QED
    BY <2>1, <2>2, <2>3, <1>6
<1>12. ASSUME NEW t \in Nat
       PROVE  t \in {q[i] : i \in DOMAIN q}
                 <=> t \in Samples(s) /\ t >= f[n] - Retention
  <2>1. ASSUME NEW i \in 1..Len(q), t = q[i]
        PROVE  t \in Samples(s) /\ t >= f[n] - Retention
    <3>1. i + k \in 1..n /\ i + k > k /\ t = f[i + k]
      BY <2>1, <1>7
    <3> QED
      BY <3>1, <1>5, <1>7
  <2>2. ASSUME NEW i \in 1..n, t = f[i], t >= f[n] - Retention
        PROVE  \E j \in 1..Len(q) : t = q[j]
    <3>1. i > k
      BY <2>2, <1>7
    <3>2. i - k \in 1..Len(q) /\ (i - k) + k = i
      BY <3>1, <1>7
    <3>3. q[i - k] = f[i]
      BY <3>2, <1>7
    <3> QED
      BY <3>2, <3>3, <2>2
  <2>3. t \in {q[i] : i \in DOMAIN q} <=> \E i \in 1..Len(q) : t = q[i]
    BY <1>4
  <2>4. t \in Samples(s) <=> \E i \in 1..n : t = f[i]
    BY <1>5
  <2> QED
    BY <2>1, <2>2, <2>3, <2>4
<1>13. /\ Latest(s) \in Samples(s) /\ Samples(s) \subseteq Nat
       /\ \A t \in Samples(s) : t <= Latest(s)
  BY <1>4, <1>5, <1>6, <1>10, <1>11
<1> QED
  BY <1>10, <1>12, <1>13 DEF q

\* A set of naturals that is not empty and has a bound has a greatest element.
LEMMA GreatestNat ==
    ASSUME NEW S, S \subseteq Nat, S # {}, NEW b \in Nat, \A x \in S : x <= b
    PROVE  \E m \in S : \A x \in S : x <= m
<1> DEFINE below == {b - x : x \in S}
<1>1. below \subseteq Nat /\ below # {}
  <2>1. \A x \in S : x \in Nat /\ x <= b
    OBVIOUS
  <2>2. \A x \in S : b - x \in Nat
    BY <2>1
  <2> QED
    BY <2>2
<1> HIDE DEF below
<1>2. PICK d \in below : \A y \in below : d <= y
  BY <1>1, MinOfNat
<1> USE DEF below
<1>3. PICK m \in S : d = b - m
  OBVIOUS
<1>4. ASSUME NEW x \in S PROVE x <= m
  <2>1. b - m <= b - x
    BY <1>2, <1>3
  <2> QED
    BY <2>1
<1> QED
  BY <1>4

\* A sensor without samples has no readings.
LEMMA UnknownSensor ==
    ASSUME StoreInv, NEW s \in Sensors, Samples(s) = {}
    PROVE  readings[s] = << >>
<1>1. readings[s] \in Seq(Nat) /\ fed[s] \in Seq(Nat)
  BY DEF StoreInv, SensorInv
<1>2. PICK k \in Nat : Gone(readings[s], fed[s], k)
  BY DEF StoreInv, SensorInv
<1>3. Len(fed[s]) = 0
  <2>1. ~(1 \in DOMAIN fed[s])
    BY DEF Samples
  <2> QED
    BY <1>1, <2>1
<1>4. Len(readings[s]) = 0
  <2>1. Len(readings[s]) = Len(fed[s]) - k /\ k \in 0..Len(fed[s])
    BY <1>2 DEF Gone, Suffix
  <2>2. k = 0 /\ Len(readings[s]) = 0 - k
    BY <2>1, <1>3
  <2> QED
    BY <2>2
<1> QED
  BY <1>1, <1>4

\* The history of a window that ends no earlier than the sensor's last sample and
\* is no longer than the retention is that of its samples.
LEMMA HistoryIs ==
    ASSUME StoreInv, NEW s \in Sensors, NEW e \in Nat, NEW window \in 0..Retention,
           \A t \in Samples(s) : t <= e
    PROVE  \A t : t \in History(s, e - window, e) <=> t \in Samples(s) /\ t >= e - window
<1> DEFINE held == {readings[s][i] : i \in DOMAIN readings[s]}
<1>1. \A t : t \in History(s, e - window, e) <=> t \in held /\ e - window <= t /\ t <= e
  BY DEF History
<1>2. CASE Samples(s) = {}
  <2>1. readings[s] = << >>
    BY <1>2, UnknownSensor
  <2>2. held = {}
    BY <2>1
  <2> QED
    BY <1>1, <1>2, <2>2
<1>3. CASE Samples(s) # {}
  <2>1. PICK l : l = Latest(s)
    OBVIOUS
  <2>2. /\ l \in Samples(s) /\ Samples(s) \subseteq Nat
        /\ \A t \in Nat : t \in held <=> t \in Samples(s) /\ t >= l - Retention
    BY <1>3, <2>1, KnownSensor
  <2>3. held \subseteq Nat
    BY DEF StoreInv, SensorInv
  <2>4. window \in Nat /\ Retention \in Nat /\ window <= Retention
    BY StoreAssumption
  <2>5. l \in Nat /\ l <= e
    BY <2>2
  <2> HIDE DEF held
  <2>6. ASSUME NEW t \in Nat
        PROVE  t \in held /\ e - window <= t /\ t <= e
                  <=> t \in Samples(s) /\ t >= e - window
    <3>1. t >= e - window => t >= l - Retention
      BY <2>4, <2>5
    <3>2. t \in Samples(s) => t <= e
      OBVIOUS
    <3>3. e - window <= t <=> t >= e - window
      BY <2>4
    <3> QED
      BY <2>2, <3>1, <3>2, <3>3
  <2> QED
    BY <1>1, <2>2, <2>3, <2>6
<1> QED
  BY <1>2, <1>3

\* The anchor of a request with a sample is the youngest sample of its sensors.
LEMMA AnchorIs ==
    ASSUME StoreInv, NEW n \in Nat, NEW ids \in [1..n -> Sensors],
           NEW m \in 1..n, Samples(ids[m]) # {}
    PROVE  \E e \in Nat : /\ Anchor(ToSet(ids)) = e
                          /\ Max(UNION {Samples(ids[k]) : k \in DOMAIN ids}) = e
                          /\ \A k \in 1..n : \A t \in Samples(ids[k]) : t <= e
<1> DEFINE last == {Latest(s) : s \in Known(ToSet(ids))}
           all == UNION {Samples(ids[k]) : k \in DOMAIN ids}
<1>1. DOMAIN ids = 1..n /\ \A k \in 1..n : ids[k] \in Sensors
  OBVIOUS
<1>2. \A s : s \in ToSet(ids) <=> \E k \in 1..n : s = ids[k]
  BY <1>1 DEF ToSet
<1>3. ASSUME NEW s \in Known(ToSet(ids))
      PROVE  /\ s \in Sensors /\ Samples(s) # {} /\ Latest(s) \in Samples(s)
             /\ Samples(s) \subseteq Nat
             /\ \A t \in Samples(s) : t <= Latest(s)
  <2>1. s \in Sensors /\ readings[s] # << >>
    BY <1>1, <1>2 DEF Known
  <2>2. Samples(s) # {}
    BY <2>1, UnknownSensor
  <2> QED
    BY <2>1, <2>2, KnownSensor
<1>4. ASSUME NEW k \in 1..n, NEW t \in Samples(ids[k])
      PROVE  ids[k] \in Known(ToSet(ids)) /\ t <= Latest(ids[k])
             /\ t \in Nat /\ Latest(ids[k]) \in last
  <2>1. ids[k] \in Sensors /\ Samples(ids[k]) # {}
    BY <1>1
  <2>2. readings[ids[k]] # << >>
    BY <2>1, KnownSensor
  <2>3. ids[k] \in Known(ToSet(ids))
    BY <1>2, <2>2 DEF Known
  <2> QED
    BY <1>3, <2>3
<1>5. last \subseteq Nat
  BY <1>3
<1>6. last # {}
  BY <1>4
<1>7. \A x \in last : x <= now
  <2>1. ASSUME NEW s \in Known(ToSet(ids)) PROVE Latest(s) <= now
    <3>1. Latest(s) \in Samples(s) /\ s \in Sensors
      BY <1>3
    <3>2. fed[s] \in Seq(Nat) /\ \A i \in 1..Len(fed[s]) : fed[s][i] <= now
      BY <3>1 DEF StoreInv, SensorInv
    <3>3. PICK i \in DOMAIN fed[s] : Latest(s) = fed[s][i]
      BY <3>1 DEF Samples
    <3>4. i \in 1..Len(fed[s])
      BY <3>2
    <3> QED
      BY <3>2, <3>3, <3>4
  <2> QED
    BY <2>1
<1>8. now \in Nat
  BY DEF StoreInv
<1> HIDE DEF last
<1>9. PICK e \in last : \A x \in last : x <= e
  BY <1>5, <1>6, <1>7, <1>8, GreatestNat
<1>10. Max(last) = e
  BY <1>5, <1>9, MaxIs, Nat \subseteq Int
<1>11. Anchor(ToSet(ids)) = e
  BY <1>10 DEF Anchor, last
<1>12. ASSUME NEW k \in 1..n, NEW t \in Samples(ids[k]) PROVE t <= e
  <2>1. PICK l \in last : l = Latest(ids[k]) /\ t <= l /\ t \in Nat
    BY <1>4
  <2>2. l <= e /\ l \in Nat /\ e \in Nat
    BY <2>1, <1>5, <1>9
  <2> QED
    BY <2>1, <2>2
<1>13. e \in all
  <2>1. PICK s \in Known(ToSet(ids)) : e = Latest(s)
    BY <1>9 DEF last
  <2>2. PICK k \in 1..n : s = ids[k]
    BY <1>2, <2>1 DEF Known
  <2>3. e \in Samples(ids[k])
    BY <1>3, <2>1, <2>2
  <2> QED
    BY <1>1, <2>3
<1>14. \A x \in all : x \in Nat /\ x <= e
  BY <1>1, <1>4, <1>12
<1> HIDE DEF all
<1>15. Max(all) = e
  BY <1>13, <1>14, MaxIs
<1>16. e \in Nat
  BY <1>5, <1>9
<1> QED
  BY <1>11, <1>12, <1>15, <1>16 DEF all

\* The samples a pair is aligned on are its common ones.
LEMMA AlignedIs ==
    ASSUME StoreInv, NEW n \in Nat, NEW ids \in [1..n -> Sensors],
           NEW m \in 1..n, Samples(ids[m]) # {}, NEW window \in 0..Retention,
           NEW i \in 1..n, NEW j \in 1..n
    PROVE  Aligned(ids, i, j, window) = Common(ids, i, j, window)
<1>1. PICK e \in Nat : /\ Anchor(ToSet(ids)) = e
                       /\ Max(UNION {Samples(ids[k]) : k \in DOMAIN ids}) = e
                       /\ \A k \in 1..n : \A t \in Samples(ids[k]) : t <= e
  BY AnchorIs
<1>2. ids[i] \in Sensors /\ ids[j] \in Sensors
  OBVIOUS
<1>3. \A t : t \in History(ids[i], e - window, e)
                <=> t \in Samples(ids[i]) /\ t >= e - window
  BY <1>1, <1>2, HistoryIs
<1>4. \A t : t \in History(ids[j], e - window, e)
                <=> t \in Samples(ids[j]) /\ t >= e - window
  BY <1>1, <1>2, HistoryIs
<1>5. Aligned(ids, i, j, window) =
         History(ids[i], e - window, e) \cap History(ids[j], e - window, e)
  BY <1>1 DEF Aligned
<1>6. Common(ids, i, j, window) =
         {t \in Samples(ids[i]) \cap Samples(ids[j]) : t >= e - window}
  BY <1>1 DEF Common
<1> QED
  BY <1>3, <1>4, <1>5, <1>6

\* Without a sample there is nothing in common.
LEMMA NothingCommon ==
    ASSUME NEW ids, NEW i, NEW j, NEW window, Samples(ids[i]) = {}
    PROVE  Cardinality(Common(ids, i, j, window)) = 0
<1>1. Common(ids, i, j, window) = {}
  BY DEF Common
<1> QED
  BY <1>1, FS_EmptySet

Due(ids, window) ==
    {p \in (DOMAIN ids) \X (DOMAIN ids) :
        p[1] < p[2] /\ Cardinality(Common(ids, p[1], p[2], window)) >= 2}

LEMMA CorrelationsAre ==
    ASSUME StoreInv, NEW n \in Nat, NEW ids \in [1..n -> Sensors],
           NEW window \in 0..Retention
    PROVE  /\ DOMAIN Correlations(ids, window) = Due(ids, window)
           /\ \A p \in Due(ids, window) :
                 Correlations(ids, window)[p] = Common(ids, p[1], p[2], window)
<1>1. DOMAIN ids = 1..n /\ Len(ids) = n
  OBVIOUS
<1>2. CASE Len(ids) < 2 \/ Known(ToSet(ids)) = {}
  <2>1. Correlations(ids, window) = << >>
    BY <1>2 DEF Correlations
  <2>2. DOMAIN Correlations(ids, window) = {}
    BY <2>1
  <2>3. Due(ids, window) = {}
    <3> SUFFICES ASSUME NEW p \in Due(ids, window) PROVE FALSE
      OBVIOUS
    <3>1. PICK i \in 1..n, j \in 1..n : p = <<i, j>>
      BY <1>1 DEF Due
    <3>2. i < j /\ Cardinality(Common(ids, i, j, window)) >= 2
      BY <3>1 DEF Due
    <3>3. n >= 2
      BY <3>2
    <3>4. Known(ToSet(ids)) = {}
      BY <1>1, <1>2, <3>3
    <3>5. ids[i] \in ToSet(ids) /\ ids[i] \in Sensors
      BY <1>1 DEF ToSet
    <3>6. readings[ids[i]] = << >>
      BY <3>4, <3>5 DEF Known
    <3>7. Samples(ids[i]) = {}
      BY <3>5, <3>6, KnownSensor
    <3>8. Cardinality(Common(ids, i, j, window)) = 0
      BY <3>7, NothingCommon
    <3> QED
      BY <3>2, <3>8
  <2> QED
    BY <2>2, <2>3
<1>3. CASE ~(Len(ids) < 2 \/ Known(ToSet(ids)) = {})
  <2>1. PICK m \in 1..n : Samples(ids[m]) # {}
    <3>1. PICK s \in Known(ToSet(ids)) : TRUE
      BY <1>3
    <3>2. PICK m \in 1..n : s = ids[m]
      BY <1>1 DEF Known, ToSet
    <3>3. readings[s] # << >> /\ s \in Sensors
      BY <3>2 DEF Known
    <3> QED
      BY <3>2, <3>3, UnknownSensor
  <2>2. \A i \in 1..n, j \in 1..n :
           Aligned(ids, i, j, window) = Common(ids, i, j, window)
    BY <2>1, AlignedIs
  <2> DEFINE reported == {p \in {q \in (DOMAIN ids) \X (DOMAIN ids) : q[1] < q[2]} :
                             Cardinality(Aligned(ids, p[1], p[2], window)) >= 2}
  <2>3. Correlations(ids, window)
           = [p \in reported |-> Aligned(ids, p[1], p[2], window)]
    BY <1>3 DEF Correlations
  <2>4. \A p \in (1..n) \X (1..n) :
           Aligned(ids, p[1], p[2], window) = Common(ids, p[1], p[2], window)
    BY <2>2
  <2>5. \A p : p \in reported <=> p \in Due(ids, window)
    BY <1>1, <2>4 DEF Due
  <2>6. reported = Due(ids, window)
    BY <2>5
  <2>7. \A p \in reported : p \in (1..n) \X (1..n)
    BY <1>1
  <2> HIDE DEF reported
  <2>8. DOMAIN Correlations(ids, window) = reported
        /\ \A p \in reported : Correlations(ids, window)[p]
                                 = Aligned(ids, p[1], p[2], window)
    BY <2>3
  <2> QED
    BY <2>4, <2>6, <2>7, <2>8
<1> QED
  BY <1>2, <1>3

LEMMA CorrelationFromInv == StoreInv => CorrelationComplete
<1> SUFFICES ASSUME StoreInv, NEW n \in 0..MaxAsked, NEW ids \in [1..n -> Sensors],
                    NEW window \in 0..Retention
             PROVE  /\ DOMAIN Correlations(ids, window) = Due(ids, window)
                    /\ \A p \in Due(ids, window) :
                          Correlations(ids, window)[p] = Common(ids, p[1], p[2], window)
  BY DEF CorrelationComplete, Requests, Due
<1>1. n \in Nat
  BY StoreAssumption
<1> QED
  BY <1>1, CorrelationsAre

\* For requests of any length: a report has exactly the pairs with enough common
\* samples in the window of the request, and misses none of them, though the
\* deques were evicted at different times.
THEOREM CorrelatesAll == Spec => []CorrelationComplete
<1> QED
  BY StoreInvariant, CorrelationFromInv, PTL
=============================================================================
