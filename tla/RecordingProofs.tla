-------------------------- MODULE RecordingProofs --------------------------
(***************************************************************************)
(* Theorems about Recording, for any number of events, runs and replays.   *)
(*                                                                         *)
(* The wire of a channel holds the last messages sent on it, and the last  *)
(* one recorded is the one before them, so the next one recorded follows.  *)
(*                                                                         *)
(* A playback has at most one value on its way: it is in transit, or in    *)
(* the box, or seen, and there is time for all of it before the next one   *)
(* is due (Stage).  What it shows is on top of whatever the panel held     *)
(* (Covers).  If the capture began cleanly each result is recorded after   *)
(* the start of its run (Begun); runs start in their order, so the panel   *)
(* keeps a block for each of them and the result finds it (Shows).         *)
(***************************************************************************)
EXTENDS Recording, TLAPS, WellFoundedInduction, FiniteSetTheorems, SequenceTheorems

-----------------------------------------------------------------------------
(* The capture.                                                            *)

Types == {"frame", "anomaly", "agent_run_started", "agent_run_completed",
          "agent_run_failed"}
Items == [channel : Channels, n : Nat, type : Types, run : Nat, of : {"none"},
          frame : Frames \cup {NoFrame}]
Entries == [item : Items, t : Nat]

\* The wire holds the last events sent on the channel.
WireOf(ch) ==
    /\ consumer[ch] = "connecting" =>
          wire[ch] = <<>> /\ \A i \in DOMAIN events : events[i].item.channel # ch
    /\ Len(wire[ch]) <= sent[ch]
    /\ consumer[ch] = "reading" =>
          \A i \in 1..Len(wire[ch]) : /\ wire[ch][i].channel = ch
                                      /\ wire[ch][i].n = sent[ch] - Len(wire[ch]) + i

\* The last event recorded of a channel that is read is the one before them.
LastOf(ch) ==
    consumer[ch] = "reading" =>
        \A i \in DOMAIN events :
            /\ events[i].item.channel = ch
            /\ \A k \in (i + 1)..Len(events) : events[k].item.channel # ch
            => events[i].item.n = sent[ch] - Len(wire[ch])

\* The stretches of RecordingFaithful, of any recording.
Stretches(recorded) ==
    \A ch \in Channels : \A i, j \in DOMAIN recorded :
        /\ i < j /\ recorded[i].item.channel = ch /\ recorded[j].item.channel = ch
        /\ \A k \in (i + 1)..(j - 1) : recorded[k].item.channel # ch
        => recorded[j].item.n = recorded[i].item.n + 1

CaptureInv ==
    step # "written" =>
        /\ sent \in [Channels -> Nat]
        /\ consumer \in [Channels -> {"connecting", "reading", "returned"}]
        /\ wire \in [Channels -> Seq(Items)]
        /\ events \in Seq(Entries)
        /\ step = "prepared" => events = <<>>
        /\ \A ch \in Channels : WireOf(ch) /\ LastOf(ch)
        /\ Stretches(events)

LEMMA CaptureInit == Init => CaptureInv
BY DEF Init, CaptureInv, WireOf, LastOf, Stretches, Entries, Items, Channels

\* What a step of the backend does to the channels.
LEMMA SendDoes ==
    ASSUME NEW item \in Items, Send(item)
    PROVE  /\ sent' = [sent EXCEPT ![item.channel] = @ + 1]
           /\ wire' = IF consumer[item.channel] = "reading"
                        THEN [wire EXCEPT ![item.channel] = Append(@, item)] ELSE wire
           /\ UNCHANGED <<consumer, step, events>>
BY DEF Send

LEMMA ItemIs ==
    ASSUME sent \in [Channels -> Nat], NEW ch \in Channels, NEW type \in Types,
           NEW run \in Nat, NEW frame \in Frames \cup {NoFrame}
    PROVE  /\ Item(ch, type, run, frame) \in Items
           /\ Item(ch, type, run, frame).channel = ch
           /\ Item(ch, type, run, frame).n = sent[ch] + 1
BY DEF Item, Items

LEMMA CaptureSend ==
    ASSUME CaptureInv, step # "written", NEW ch \in Channels, NEW item \in Items,
           item.channel = ch, item.n = sent[ch] + 1, Send(item)
    PROVE  CaptureInv'
<1>1. /\ sent' = [sent EXCEPT ![ch] = @ + 1]
      /\ wire' = IF consumer[ch] = "reading"
                   THEN [wire EXCEPT ![ch] = Append(@, item)] ELSE wire
      /\ consumer' = consumer /\ step' = step /\ events' = events
  BY SendDoes
<1>2. /\ sent \in [Channels -> Nat]
      /\ wire \in [Channels -> Seq(Items)]
      /\ \A c \in Channels : WireOf(c) /\ LastOf(c)
      /\ Stretches(events)
  BY DEF CaptureInv
<1>3. sent' \in [Channels -> Nat] /\ wire' \in [Channels -> Seq(Items)]
  BY <1>1, <1>2
<1>4. Stretches(events')
  BY <1>1, <1>2
<1>5. ASSUME NEW c \in Channels PROVE WireOf(c)' /\ LastOf(c)'
  <2>1. CASE c # ch
    BY <2>1, <1>1, <1>2 DEF WireOf, LastOf
  <2>2. CASE c = ch /\ consumer[ch] # "reading"
    BY <2>2, <1>1, <1>2 DEF WireOf, LastOf
  <2>3. CASE c = ch /\ consumer[ch] = "reading"
    <3>1. /\ wire'[ch] = Append(wire[ch], item) /\ sent'[ch] = sent[ch] + 1
          /\ wire[ch] \in Seq(Items) /\ sent[ch] \in Nat
      BY <2>3, <1>1, <1>2
    <3>2. Len(wire'[ch]) = Len(wire[ch]) + 1
      BY <3>1
    <3>3. \A i \in 1..Len(wire'[ch]) :
             /\ wire'[ch][i].channel = ch
             /\ wire'[ch][i].n = sent'[ch] - Len(wire'[ch]) + i
      BY <3>1, <3>2, <2>3, <1>2 DEF WireOf
    <3>4. WireOf(ch) /\ LastOf(ch) /\ events' = events /\ consumer' = consumer
      BY <1>1, <1>2
    <3>5. sent'[ch] - Len(wire'[ch]) = sent[ch] - Len(wire[ch])
      BY <3>1, <3>2
    <3>6. WireOf(ch)'
      BY <3>1, <3>2, <3>3, <3>4, <2>3 DEF WireOf
    <3>7. LastOf(ch)'
      BY <3>4, <3>5 DEF LastOf
    <3> QED
      BY <2>3, <3>6, <3>7
  <2> QED
    BY <2>1, <2>2, <2>3
<1> QED
  BY <1>1, <1>3, <1>4, <1>5 DEF CaptureInv

LEMMA CaptureReceive ==
    ASSUME CaptureInv, NEW ch \in Channels, Receive(ch)
    PROVE  CaptureInv'
<1> SUFFICES ASSUME step # "written" PROVE CaptureInv'
  BY DEF Receive, CaptureInv
<1> DEFINE item == Head(wire[ch])
           entry == [item |-> item, t |-> 0]
<1>1. /\ consumer[ch] = "reading" /\ wire[ch] # <<>>
      /\ wire' = [wire EXCEPT ![ch] = Tail(@)]
      /\ events' = IF step = "prepared" THEN events ELSE Append(events, entry)
      /\ consumer' = IF step = "stopped" THEN [consumer EXCEPT ![ch] = "returned"]
                     ELSE consumer
      /\ sent' = sent /\ step' = step
  BY DEF Receive, Record, backend
<1>2. /\ sent \in [Channels -> Nat]
      /\ consumer \in [Channels -> {"connecting", "reading", "returned"}]
      /\ wire \in [Channels -> Seq(Items)]
      /\ events \in Seq(Entries)
      /\ step = "prepared" => events = <<>>
      /\ \A c \in Channels : WireOf(c) /\ LastOf(c)
      /\ Stretches(events)
  BY DEF CaptureInv
<1>3. /\ wire[ch] \in Seq(Items) /\ sent[ch] \in Nat /\ Len(wire[ch]) \in Nat \ {0}
      /\ item = wire[ch][1] /\ item \in Items
      /\ wire'[ch] = Tail(wire[ch]) /\ Len(wire'[ch]) = Len(wire[ch]) - 1
      /\ wire' \in [Channels -> Seq(Items)]
  BY <1>1, <1>2
<1>4. item.channel = ch /\ item.n = sent[ch] - Len(wire[ch]) + 1
  BY <1>1, <1>2, <1>3 DEF WireOf
<1>5. entry \in Entries
  BY <1>3 DEF Entries
<1>6. consumer' \in [Channels -> {"connecting", "reading", "returned"}]
  BY <1>1, <1>2
<1>7. CASE step = "prepared"
  <2>1. events = <<>> /\ events' = <<>> /\ consumer' = consumer
    BY <1>7, <1>1, <1>2
  <2>2. ASSUME NEW c \in Channels PROVE WireOf(c)' /\ LastOf(c)'
    <3>1. CASE c # ch
      BY <3>1, <2>1, <1>1, <1>2 DEF WireOf, LastOf
    <3>2. CASE c = ch
      <4>1. \A i \in 1..Len(wire'[ch]) :
               /\ wire'[ch][i].channel = ch
               /\ wire'[ch][i].n = sent[ch] - Len(wire'[ch]) + i
        BY <1>1, <1>2, <1>3 DEF WireOf
      <4> QED
        BY <4>1, <3>2, <2>1, <1>1, <1>2, <1>3 DEF WireOf, LastOf
    <3> QED
      BY <3>1, <3>2
  <2> QED
    BY <2>1, <2>2, <1>1, <1>2, <1>3, <1>6 DEF CaptureInv, Stretches
<1>8. CASE step # "prepared"
  <2> DEFINE n == Len(events)
  <2>1. /\ events' \in Seq(Entries) /\ Len(events') = n + 1 /\ n \in Nat
        /\ \A i \in 1..n : events'[i] = events[i]
        /\ events'[n + 1].item = item
        /\ DOMAIN events' = 1..(n + 1) /\ DOMAIN events = 1..n
        /\ Len(events) = n
    BY <1>8, <1>1, <1>2, <1>5
  <2> HIDE DEF n
  <2>2. Stretches(events')
    <3>1. ASSUME NEW c \in Channels, NEW i \in 1..(n + 1), NEW j \in 1..(n + 1), i < j,
                 events'[i].item.channel = c, events'[j].item.channel = c,
                 \A k \in (i + 1)..(j - 1) : events'[k].item.channel # c
          PROVE  events'[j].item.n = events'[i].item.n + 1
      <4>1. CASE j <= n
        <5>1. /\ events'[i] = events[i] /\ events'[j] = events[j]
              /\ \A k \in (i + 1)..(j - 1) : events'[k] = events[k]
          BY <3>1, <4>1, <2>1
        <5>2. /\ Stretches(events) /\ DOMAIN events = 1..n
              /\ i \in 1..n /\ j \in 1..n
          BY <3>1, <4>1, <2>1, <1>2
        <5> QED
          BY ONLY <3>1, <5>1, <5>2 DEF Stretches
      <4>2. CASE j = n + 1
        <5>1. c = ch /\ i \in 1..n /\ events[i].item.channel = ch
          BY <3>1, <4>2, <2>1, <1>4
        <5>2. \A k \in (i + 1)..n : events[k].item.channel # ch
          BY <3>1, <4>2, <5>1, <2>1
        <5>3. LastOf(ch) /\ consumer[ch] = "reading"
          BY <1>1, <1>2
        <5>4. events[i].item.n = sent[ch] - Len(wire[ch])
          BY <5>1, <5>2, <5>3, <2>1 DEF LastOf
        <5> QED
          BY <5>1, <5>4, <4>2, <2>1, <1>3, <1>4
      <4> QED
        BY <3>1, <4>1, <4>2, <2>1
    <3>2. DOMAIN events' = 1..(n + 1)
      BY <2>1
    <3> QED
      BY ONLY <3>1, <3>2 DEF Stretches
  <2>3. ASSUME NEW c \in Channels PROVE WireOf(c)' /\ LastOf(c)'
    <3>1. CASE c # ch
      <4>1. wire'[c] = wire[c] /\ consumer'[c] = consumer[c]
        BY <3>1, <1>1, <1>2
      <4>2. WireOf(c)'
        BY SMTT(30), <4>1, <3>1, <2>1, <1>1, <1>2, <1>4 DEF WireOf
      <4>3. ASSUME consumer[c] = "reading", NEW i \in 1..(n + 1),
                   events'[i].item.channel = c,
                   \A k \in (i + 1)..(n + 1) : events'[k].item.channel # c
            PROVE  events'[i].item.n = sent[c] - Len(wire[c])
        <5>1. i \in 1..n
          BY <4>3, <3>1, <2>1, <1>4
        <5>2. events[i].item.channel = c /\ \A k \in (i + 1)..n : events[k].item.channel # c
          BY <5>1, <4>3, <2>1
        <5> QED
          <6>1. LastOf(c)
            BY <1>2
          <6> QED
            BY <6>1, <5>1, <5>2, <4>3, <2>1 DEF LastOf
      <4>4. LastOf(c)'
        BY <4>1, <4>3, <2>1, <1>1 DEF LastOf
      <4> QED
        BY <4>2, <4>4
    <3>2. CASE c = ch
      <4>1. \A i \in 1..Len(wire'[ch]) :
               /\ wire'[ch][i].channel = ch
               /\ wire'[ch][i].n = sent[ch] - Len(wire'[ch]) + i
        BY <1>1, <1>2, <1>3 DEF WireOf
      <4>2. consumer'[ch] # "connecting"
        BY <1>1, <1>2
      <4>3. WireOf(ch)'
        BY <4>1, <4>2, <1>1, <1>2, <1>3 DEF WireOf
      <4>4. ASSUME NEW i \in 1..(n + 1), events'[i].item.channel = ch,
                   \A k \in (i + 1)..(n + 1) : events'[k].item.channel # ch
            PROVE  events'[i].item.n = sent[ch] - Len(wire'[ch])
        <5>1. i = n + 1
          BY <4>4, <2>1, <1>4
        <5>2. events'[i].item.n = sent[ch] - Len(wire[ch]) + 1
          BY <5>1, <2>1, <1>4
        <5>3. PICK l \in Nat, m \in Nat :
                 l = Len(wire[ch]) /\ m = sent[ch] /\ Len(wire'[ch]) = l - 1
          BY <1>3
        <5>4. m - (l - 1) = m - l + 1
          OBVIOUS
        <5> QED
          BY <5>2, <5>3, <5>4
      <4>5. LastOf(ch)'
        <5>1. sent' = sent
          BY <1>1
        <5> QED
          BY <5>1, <4>4, <2>1 DEF LastOf
      <4> QED
        BY <3>2, <4>3, <4>5
    <3> QED
      BY <3>1, <3>2
  <2> QED
    BY <2>1, <2>2, <2>3, <1>1, <1>2, <1>3, <1>6, <1>8 DEF CaptureInv
<1> QED
  BY <1>7, <1>8

LEMMA CaptureConsumer ==
    ASSUME CaptureInv, NEW ch \in Channels, Join(ch) \/ Close(ch) \/ Leave(ch)
    PROVE  CaptureInv'
<1> SUFFICES ASSUME step # "written" PROVE CaptureInv'
  BY DEF Join, Close, Leave, CaptureInv
<1>1. /\ sent \in [Channels -> Nat]
      /\ consumer \in [Channels -> {"connecting", "reading", "returned"}]
      /\ wire \in [Channels -> Seq(Items)]
      /\ events \in Seq(Entries)
      /\ step = "prepared" => events = <<>>
      /\ \A c \in Channels : WireOf(c) /\ LastOf(c)
      /\ Stretches(events)
  BY DEF CaptureInv
<1>2. sent' = sent /\ step' = step /\ events' = events
  BY DEF Join, Close, Leave, backend
<1>3. Stretches(events')
  BY <1>1, <1>2
<1>4. CASE Join(ch)
  <2>1. /\ consumer[ch] = "connecting" /\ consumer' = [consumer EXCEPT ![ch] = "reading"]
        /\ wire' = wire
    BY <1>4 DEF Join
  <2>2. wire[ch] = <<>> /\ \A i \in DOMAIN events : events[i].item.channel # ch
    BY <2>1, <1>1 DEF WireOf
  <2>3. ASSUME NEW c \in Channels PROVE WireOf(c)' /\ LastOf(c)'
    BY <2>1, <2>2, <1>1, <1>2 DEF WireOf, LastOf
  <2> QED
    BY <2>1, <2>3, <1>1, <1>2, <1>3 DEF CaptureInv
<1>5. CASE Close(ch)
  <2>1. /\ consumer' = [consumer EXCEPT ![ch] = "returned"]
        /\ wire' = [wire EXCEPT ![ch] = <<>>]
    BY <1>5 DEF Close
  <2>2. ASSUME NEW c \in Channels PROVE WireOf(c)' /\ LastOf(c)'
    BY <2>1, <1>1, <1>2 DEF WireOf, LastOf
  <2> QED
    BY <2>1, <2>2, <1>1, <1>2, <1>3 DEF CaptureInv
<1>6. CASE Leave(ch)
  <2>1. consumer' = [consumer EXCEPT ![ch] = "returned"] /\ wire' = wire
    BY <1>6 DEF Leave
  <2>2. ASSUME NEW c \in Channels PROVE WireOf(c)' /\ LastOf(c)'
    BY <2>1, <1>1, <1>2 DEF WireOf, LastOf
  <2> QED
    BY <2>1, <2>2, <1>1, <1>2, <1>3 DEF CaptureInv
<1> QED
  BY <1>4, <1>5, <1>6

LEMMA CaptureNext == CaptureInv /\ [Next]_vars => CaptureInv'
<1> SUFFICES ASSUME CaptureInv, [Next]_vars PROVE CaptureInv'
  OBVIOUS
<1> USE DEF Channels
<1>1. CASE SendFrame
  <2>1. step # "written"
    BY <1>1 DEF SendFrame
  <2>2. sent \in [Channels -> Nat]
    BY <2>1 DEF CaptureInv
  <2>3. PICK f \in Frames : Send(Item("telemetry", "frame", NoRun, f))
    BY <1>1 DEF SendFrame
  <2> QED
    BY <2>1, <2>2, <2>3, ItemIs, CaptureSend DEF NoRun, Types
<1>2. CASE SendAnomaly
  <2>1. step # "written" /\ Send(Item("agent_events", "anomaly", NoRun, NoFrame))
    BY <1>2 DEF SendAnomaly
  <2>2. sent \in [Channels -> Nat]
    BY <2>1 DEF CaptureInv
  <2> QED
    BY <2>1, <2>2, ItemIs, CaptureSend DEF NoRun, Types
<1>3. CASE \E r \in Runs : SendRunEvent(r)
  <2>1. PICK r \in Runs : SendRunEvent(r)
    BY <1>3
  <2>2. step # "written" /\ r \in Nat
    BY <2>1, RecordingAssumption DEF SendRunEvent, Runs
  <2>3. PICK type \in Types : Send(Item("agent_events", type, r, NoFrame))
    BY <2>1 DEF SendRunEvent, Types
  <2>4. sent \in [Channels -> Nat]
    BY <2>2 DEF CaptureInv
  <2> QED
    BY <2>2, <2>3, <2>4, ItemIs, CaptureSend
<1>4. CASE \E ch \in Channels : Join(ch) \/ Close(ch) \/ Receive(ch) \/ Leave(ch)
  BY <1>4, CaptureReceive, CaptureConsumer
<1>5. CASE Trigger \/ Started \/ Stop
  <2>1. /\ sent' = sent /\ wire' = wire /\ consumer' = consumer /\ events' = events
        /\ step # "written" /\ step' # "prepared"
    BY <1>5 DEF Trigger, Started, Stop, backend
  <2> QED
    BY <2>1 DEF CaptureInv, WireOf, LastOf
<1>6. CASE Write
  BY <1>6 DEF Write, CaptureInv
<1>7. CASE \/ Begin \/ Yield \/ Finish \/ Reset \/ Deliver \/ Poll \/ Tick \/ Ended
           \/ UNCHANGED vars
  <2>1. /\ sent' = sent /\ wire' = wire /\ consumer' = consumer /\ events' = events
        /\ step' = step
    BY <1>7 DEF Begin, Yield, Finish, Reset, Deliver, Poll, Tick, Ended, backend, capture, vars
  <2> QED
    BY <2>1 DEF CaptureInv, WireOf, LastOf
<1> QED
  BY <1>1, <1>2, <1>3, <1>4, <1>5, <1>6, <1>7 DEF Next

\* Of each channel the recording is an unbroken stretch of what was sent.
THEOREM FaithfulCorrect == Spec => []RecordingFaithful
<1>1. CaptureInv => RecordingFaithful
  BY DEF CaptureInv, RecordingFaithful, Stretches
<1> QED
  BY <1>1, CaptureInit, CaptureNext, PTL DEF Spec

-----------------------------------------------------------------------------
(* Induction.                                                              *)

\* A set of naturals that is not empty has a least element.
LEMMA LeastNat ==
    ASSUME NEW S, S \subseteq Nat, S # {}
    PROVE  \E m \in S : \A x \in S : m <= x
<1>1. PICK m \in S : \A x \in S : <<x, m>> \notin OpToRel(<, Nat)
  BY NatLessThanWellFounded, WFMin
<1>2. ASSUME NEW x \in S, x < m PROVE FALSE
  <2>1. <<x, m>> \in OpToRel(<, Nat)
    BY <1>2 DEF OpToRel
  <2> QED
    BY <1>1, <2>1
<1> QED
  BY <1>2

\* What holds of zero and of i + 1 if of i holds up to any bound.
LEMMA InductionTo ==
    ASSUME NEW n \in Nat, NEW S, 0 \in S,
           \A i \in 0..(n - 1) : i \in S => i + 1 \in S
    PROVE  \A i \in 0..n : i \in S
<1> SUFFICES ASSUME NEW b \in 0..n, b \notin S PROVE FALSE
  OBVIOUS
<1> DEFINE out == {i \in 0..n : i \notin S}
<1>1. out \subseteq Nat /\ out # {}
  OBVIOUS
<1> HIDE DEF out
<1>2. PICK m \in out : \A x \in out : m <= x
  BY <1>1, LeastNat
<1> USE DEF out
<1>3. m \in 0..n /\ m \notin S /\ m # 0
  OBVIOUS
<1>4. m - 1 \in 0..(n - 1) /\ (m - 1) + 1 = m
  BY <1>3
<1>5. m - 1 \notin out
  BY <1>2, <1>4
<1> QED
  BY <1>3, <1>4, <1>5

-----------------------------------------------------------------------------
(* What the panel makes of a recording.                                    *)

\* What one entry does to the panel.
Dispatched(blocks, e) ==
    IF e.item.channel = "agent_events" THEN OnAgentEvent(blocks, e.item) ELSE blocks

LEMMA PanelsAre ==
    ASSUME NEW n \in Nat, n = Len(events)
    PROVE  /\ Panels[0] = << >>
           /\ \A i \in 1..n : Panels[i] = Dispatched(Panels[i - 1], events[i])
<1> DEFINE Is(g, k) == g = [i \in 0..k |-> IF i = 0 THEN << >>
                                           ELSE Dispatched(g[i - 1], events[i])]
           upto == {k \in 0..n : \E g : Is(g, k)}
<1>1. 0 \in upto
  <2> DEFINE h == [i \in 0..0 |-> << >>]
  <2>1. \A i \in 0..0 : h[i] = IF i = 0 THEN << >> ELSE Dispatched(h[i - 1], events[i])
    OBVIOUS
  <2>2. Is(h, 0)
    BY <2>1
  <2> HIDE DEF Is, h
  <2> QED
    BY <2>2
<1>2. ASSUME NEW k \in 0..(n - 1), k \in upto PROVE k + 1 \in upto
  <2>1. PICK g : Is(g, k)
    BY <1>2
  <2> DEFINE h == [i \in 0..(k + 1) |-> IF i <= k THEN g[i]
                                        ELSE Dispatched(g[k], events[i])]
  <2>2. \A i \in 0..(k + 1) : h[i] = IF i = 0 THEN << >> ELSE Dispatched(h[i - 1], events[i])
    <3>1. SUFFICES ASSUME NEW i \in 0..(k + 1)
                   PROVE  h[i] = IF i = 0 THEN << >> ELSE Dispatched(h[i - 1], events[i])
      OBVIOUS
    <3>2. CASE i = 0
      BY <3>2, <2>1
    <3>3. CASE i # 0 /\ i <= k
      BY <3>3, <2>1
    <3>4. CASE i = k + 1
      BY <3>4
    <3> QED
      BY <3>2, <3>3, <3>4
  <2>3. Is(h, k + 1)
    BY <2>2
  <2>4. k + 1 \in 0..n
    OBVIOUS
  <2> HIDE DEF Is, h
  <2> QED
    BY <2>3, <2>4
<1>3. n \in upto
  <2> HIDE DEF upto
  <2> QED
    BY ONLY <1>1, <1>2, n \in Nat, InductionTo
<1> DEFINE f == CHOOSE g : Is(g, Len(events))
<1>4. Is(f, n)
  BY <1>3
<1>5. Panels = f
  BY DEF Panels, Dispatched
<1> HIDE DEF f
<1>6. f[0] = << >> /\ \A i \in 1..n : f[i] = Dispatched(f[i - 1], events[i])
  BY <1>4
<1> QED
  BY <1>5, <1>6

Blocks == [run : Nat, status : {"running", "completed", "failed"},
           toolCalls : {<< >>}, toolOrder : {<< >>}, hypotheses : BOOLEAN,
           diagnosis : BOOLEAN, failReason : BOOLEAN]

\* The newest block of a run.
IsNewest(blocks, i, run) ==
    blocks[i].run = run /\ \A j \in 1..(i - 1) : blocks[j].run # run

\* A block of the items there are.
LEMMA BlockTypes ==
    ASSUME NEW block \in Blocks, NEW e \in Items
    PROVE  /\ OnBlock(block, e) \in Blocks /\ OnBlock(block, e).run = block.run
           /\ block.diagnosis => OnBlock(block, e).diagnosis
           /\ e.type = "agent_run_completed" => OnBlock(block, e).diagnosis
  BY DEF Blocks, Items, Types, OnBlock, RunCompleted, RunFailed

LEMMA LoseType ==
    ASSUME NEW block \in Blocks
    PROVE  /\ Lose(block) \in Blocks /\ Lose(block).run = block.run
           /\ Lose(block).diagnosis = block.diagnosis
  BY DEF Blocks, Lose

LEMMA NewBlockType ==
    ASSUME NEW run \in Nat
    PROVE  NewBlock(run) \in Blocks /\ NewBlock(run).run = run
  BY DEF Blocks, NewBlock

\* The m blocks a start makes of those there were.
Stacked(new, blocks, run, m) ==
    /\ new \in Seq(Blocks) /\ Len(new) = m /\ m > 0 /\ new[1] = NewBlock(run)
    /\ \A i \in 1..(m - 1) : new[i + 1] = Lose(blocks[i])

LEMMA StartDoes ==
    ASSUME NEW blocks \in Seq(Blocks), NEW run \in Nat, NEW n \in Nat, n = Len(blocks),
           NEW m \in Nat, m = (IF n + 1 > MaxShown THEN MaxShown ELSE n + 1)
    PROVE  Stacked(RunStarted(blocks, run), blocks, run, m)
<1>1. m \in 1..(n + 1)
  BY PanelAssumption
<1>2. PICK lost : lost = [i \in DOMAIN blocks |-> Lose(blocks[i])]
  OBVIOUS
<1>3. /\ DOMAIN blocks = 1..n /\ \A i \in 1..n : blocks[i] \in Blocks
  OBVIOUS
<1>4. \A i \in 1..n : lost[i] = Lose(blocks[i]) /\ lost[i] \in Blocks
  BY <1>2, <1>3, LoseType
<1>5. lost \in Seq(Blocks) /\ Len(lost) = n
  <2>1. lost = [i \in 1..n |-> lost[i]]
    BY <1>2, <1>3
  <2> QED
    BY <2>1, <1>4
<1>6. PICK top : top = <<NewBlock(run)>>
  OBVIOUS
<1>7. top \in Seq(Blocks) /\ Len(top) = 1 /\ top[1] = NewBlock(run)
  BY <1>6, NewBlockType
<1>8. PICK all : all = top \o lost
  OBVIOUS
<1>9. /\ all \in Seq(Blocks) /\ Len(all) = n + 1 /\ all[1] = NewBlock(run)
      /\ \A i \in 1..n : all[i + 1] = lost[i]
  <2>1. /\ top \o lost \in Seq(Blocks) /\ Len(top \o lost) = 1 + n
        /\ \A i \in 1..(1 + n) : (top \o lost)[i] = IF i <= 1 THEN top[i] ELSE lost[i - 1]
    <3>1. /\ top \o lost \in Seq(Blocks) /\ Len(top \o lost) = Len(top) + Len(lost)
          /\ \A i \in 1..(Len(top) + Len(lost)) :
                (top \o lost)[i] = IF i <= Len(top) THEN top[i] ELSE lost[i - Len(top)]
      BY ONLY <1>5, <1>7, ConcatProperties
    <3> QED
      BY ONLY <3>1, <1>5, <1>7
  <2>2. all[1] = top[1] /\ \A i \in 1..n : all[i + 1] = lost[i]
    <3>1. 1 \in 1..(1 + n) /\ all[1] = (top \o lost)[1]
      BY ONLY <1>8, n \in Nat
    <3>2. ASSUME NEW i \in 1..n PROVE all[i + 1] = lost[i]
      <4>1. PICK j : j = i + 1 /\ j \in 1..(1 + n) /\ ~(j <= 1) /\ j - 1 = i
        OBVIOUS
      <4> QED
        BY ONLY <4>1, <2>1, <1>8
    <3> QED
      BY ONLY <3>1, <3>2, <2>1
  <2> QED
    BY ONLY <2>1, <2>2, <1>7, <1>8, n \in Nat
<1>10. RunStarted(blocks, run) = SubSeq(all, 1, m)
  BY <1>2, <1>6, <1>8, <1>9 DEF RunStarted
<1>11. /\ SubSeq(all, 1, m) \in Seq(Blocks) /\ Len(SubSeq(all, 1, m)) = m
       /\ \A i \in 1..m : SubSeq(all, 1, m)[i] = all[i]
  BY <1>1, <1>9
<1>12. ASSUME NEW i \in 1..(m - 1) PROVE SubSeq(all, 1, m)[i + 1] = Lose(blocks[i])
  <2>1. i + 1 \in 1..m /\ i \in 1..n
    BY <1>1
  <2> QED
    BY <2>1, <1>4, <1>9, <1>11
<1>13. m > 0 /\ 1 \in 1..m
  BY <1>1
<1> QED
  BY ONLY <1>13, <1>9, <1>10, <1>11, <1>12 DEF Stacked

\* What any other event does.
LEMMA OtherDoes ==
    ASSUME NEW blocks \in Seq(Blocks), NEW e \in Items, e.type # "agent_run_started"
    PROVE  /\ OnAgentEvent(blocks, e) \in Seq(Blocks)
           /\ Len(OnAgentEvent(blocks, e)) = Len(blocks)
           /\ \A i \in 1..Len(blocks) :
                 OnAgentEvent(blocks, e)[i] = IF IsNewest(blocks, i, e.run)
                                                THEN OnBlock(blocks[i], e) ELSE blocks[i]
<1>1. PICK n \in Nat : n = Len(blocks) /\ DOMAIN blocks = 1..n
  OBVIOUS
<1>2. PICK new : new = OnAgentEvent(blocks, e)
  OBVIOUS
<1>3. new = [i \in 1..n |-> IF IsNewest(blocks, i, e.run) THEN OnBlock(blocks[i], e)
                            ELSE blocks[i]]
  BY <1>1, <1>2 DEF OnAgentEvent, IsNewest
<1>4. ASSUME NEW i \in 1..n PROVE new[i] \in Blocks
  <2>1. blocks[i] \in Blocks /\ OnBlock(blocks[i], e) \in Blocks
    BY <1>1, BlockTypes
  <2> QED
    BY <2>1, <1>3
<1>5. new \in Seq(Blocks) /\ Len(new) = n
  BY <1>3, <1>4
<1> QED
  BY <1>1, <1>2, <1>3, <1>5

\* The panel stays a list of blocks.
LEMMA DispatchType ==
    ASSUME NEW blocks \in Seq(Blocks), NEW e \in Entries
    PROVE  Dispatched(blocks, e) \in Seq(Blocks)
<1>1. e.item \in Items /\ e.item.run \in Nat
  BY DEF Entries, Items
<1>2. CASE e.item.type = "agent_run_started"
  <2>1. OnAgentEvent(blocks, e.item) = RunStarted(blocks, e.item.run)
    BY <1>2 DEF OnAgentEvent
  <2>2. PICK n \in Nat : n = Len(blocks)
    OBVIOUS
  <2>3. PICK m \in Nat : m = IF n + 1 > MaxShown THEN MaxShown ELSE n + 1
    BY <2>2, PanelAssumption
  <2>4. RunStarted(blocks, e.item.run) \in Seq(Blocks)
    BY ONLY <1>1, <2>2, <2>3, blocks \in Seq(Blocks), StartDoes DEF Stacked
  <2> QED
    BY <2>1, <2>4 DEF Dispatched
<1>3. CASE e.item.type # "agent_run_started"
  BY <1>1, <1>3, OtherDoes DEF Dispatched
<1> QED
  BY <1>2, <1>3

\* The blocks of s are on top of t.
Covers(s, t) == Len(s) <= Len(t) /\ \A i \in 1..Len(s) : t[i] = s[i]

\* What is below does not matter to an event.
LEMMA DispatchCovers ==
    ASSUME NEW s \in Seq(Blocks), NEW t \in Seq(Blocks), Covers(s, t), NEW e \in Entries
    PROVE  Covers(Dispatched(s, e), Dispatched(t, e))
<1>1. PICK k, l : k = Len(s) /\ l = Len(t)
  OBVIOUS
<1>2. k \in Nat /\ l \in Nat /\ k <= l /\ \A i \in 1..k : t[i] = s[i]
  BY <1>1 DEF Covers
<1>3. PICK item : item = e.item /\ item \in Items /\ item.run \in Nat
  BY DEF Entries, Items
<1>4. CASE item.channel # "agent_events"
  BY <1>3, <1>4 DEF Dispatched
<1>5. CASE item.channel = "agent_events" /\ item.type = "agent_run_started"
  <2>1. PICK x, y : x = RunStarted(s, item.run) /\ y = RunStarted(t, item.run)
    OBVIOUS
  <2>2. Dispatched(s, e) = x /\ Dispatched(t, e) = y
    BY <2>1, <1>3, <1>5 DEF Dispatched, OnAgentEvent
  <2>3. PICK m, h : /\ m = IF k + 1 > MaxShown THEN MaxShown ELSE k + 1
                    /\ h = IF l + 1 > MaxShown THEN MaxShown ELSE l + 1
    OBVIOUS
  <2>4. m \in Nat /\ h \in Nat /\ m <= h /\ m <= k + 1
    BY <2>3, <1>2, PanelAssumption
  <2>5. /\ Len(x) = m /\ m > 0 /\ x[1] = NewBlock(item.run)
        /\ \A i \in 1..(m - 1) : x[i + 1] = Lose(s[i])
    <3>1. PICK r \in Nat, n \in Nat, w \in Nat :
             /\ r = item.run /\ n = k /\ w = m /\ n = Len(s)
             /\ w = IF n + 1 > MaxShown THEN MaxShown ELSE n + 1
      BY <1>1, <1>2, <1>3, <2>3, <2>4
    <3>2. Stacked(RunStarted(s, r), s, r, w)
      BY ONLY <3>1, s \in Seq(Blocks), StartDoes
    <3> QED
      BY ONLY <3>1, <3>2, <2>1 DEF Stacked
  <2>6. /\ Len(y) = h /\ y[1] = NewBlock(item.run)
        /\ \A i \in 1..(h - 1) : y[i + 1] = Lose(t[i])
    <3>1. PICK r \in Nat, n \in Nat, w \in Nat :
             /\ r = item.run /\ n = l /\ w = h /\ n = Len(t)
             /\ w = IF n + 1 > MaxShown THEN MaxShown ELSE n + 1
      BY <1>1, <1>2, <1>3, <2>3, <2>4
    <3>2. Stacked(RunStarted(t, r), t, r, w)
      BY ONLY <3>1, t \in Seq(Blocks), StartDoes
    <3> QED
      BY ONLY <3>1, <3>2, <2>1 DEF Stacked
  <2>7. ASSUME NEW i \in 1..m PROVE y[i] = x[i]
    <3>1. CASE i = 1
      BY <3>1, <2>5, <2>6
    <3>2. CASE i # 1
      <4>1. PICK j : /\ j = i - 1 /\ i = j + 1
                       /\ j \in 1..(m - 1) /\ j \in 1..(h - 1) /\ j \in 1..k
        BY <3>2, <2>4, <1>2
      <4>2. x[i] = Lose(s[j]) /\ y[i] = Lose(t[j]) /\ s[j] = t[j]
        BY <4>1, <2>5, <2>6, <1>2
      <4> QED
        BY <4>2
    <3> QED
      BY <3>1, <3>2
  <2> QED
    BY <2>2, <2>4, <2>5, <2>6, <2>7 DEF Covers
<1>6. CASE item.channel = "agent_events" /\ item.type # "agent_run_started"
  <2>1. PICK x, y : x = OnAgentEvent(s, item) /\ y = OnAgentEvent(t, item)
    OBVIOUS
  <2>2. Dispatched(s, e) = x /\ Dispatched(t, e) = y
    BY <2>1, <1>3, <1>6 DEF Dispatched
  <2>3. /\ Len(x) = k
        /\ \A i \in 1..k :
              x[i] = IF IsNewest(s, i, item.run) THEN OnBlock(s[i], item) ELSE s[i]
    BY <2>1, <1>1, <1>3, <1>6, OtherDoes
  <2>4. /\ Len(y) = l
        /\ \A i \in 1..l :
              y[i] = IF IsNewest(t, i, item.run) THEN OnBlock(t[i], item) ELSE t[i]
    BY <2>1, <1>1, <1>3, <1>6, OtherDoes
  <2>5. ASSUME NEW i \in 1..k PROVE y[i] = x[i]
    <3>1. i \in 1..l /\ t[i] = s[i] /\ \A j \in 1..(i - 1) : t[j] = s[j]
      BY <1>2
    <3>2. IsNewest(t, i, item.run) <=> IsNewest(s, i, item.run)
      BY <3>1 DEF IsNewest
    <3> QED
      BY <3>1, <3>2, <2>3, <2>4
  <2> QED
    BY <2>2, <2>3, <2>4, <2>5, <1>2 DEF Covers
<1> QED
  BY <1>4, <1>5, <1>6

LEMMA PanelsType ==
    ASSUME NEW n \in Nat, n = Len(events), events \in Seq(Entries)
    PROVE  \A i \in 0..n : Panels[i] \in Seq(Blocks)
<1> DEFINE upto == {i \in 0..n : Panels[i] \in Seq(Blocks)}
<1>1. 0 \in upto
  <2>1. PICK s : s = << >> /\ Panels[0] = s
    BY ONLY n \in Nat, n = Len(events), PanelsAre
  <2>2. s \in Seq(Blocks)
    BY <2>1
  <2>3. Panels[0] \in Seq(Blocks)
    BY ONLY <2>1, <2>2
  <2> QED
    BY <2>3
<1>2. ASSUME NEW i \in 0..(n - 1), i \in upto PROVE i + 1 \in upto
  <2>1. i + 1 \in 1..n /\ (i + 1) - 1 = i /\ events[i + 1] \in Entries
    OBVIOUS
  <2>2. Panels[i + 1] = Dispatched(Panels[i], events[i + 1])
    BY <2>1, PanelsAre
  <2>3. Panels[i] \in Seq(Blocks)
    BY <1>2
  <2>4. Panels[i + 1] \in Seq(Blocks)
    BY <2>1, <2>2, <2>3, DispatchType
  <2> QED
    BY <2>1, <2>4
<1> HIDE DEF upto
<1>3. \A i \in 0..n : i \in upto
  BY ONLY <1>1, <1>2, n \in Nat, InductionTo
<1> QED
  BY <1>3 DEF upto

-----------------------------------------------------------------------------
(* A recording that has a result of a run it has the start of.             *)

IsStart(item) == item.channel = "agent_events" /\ item.type = "agent_run_started"
IsResult(item) == item.channel = "agent_events" /\ item.type = "agent_run_completed"

\* Runs start in their order, each once.
Orderly(recorded) ==
    /\ recorded \in Seq(Entries)
    /\ \A i \in 1..Len(recorded) :
          IsStart(recorded[i].item) => recorded[i].item.run \in Runs
    /\ \A i, j \in 1..Len(recorded) :
          i < j /\ IsStart(recorded[i].item) /\ IsStart(recorded[j].item)
              => recorded[i].item.run < recorded[j].item.run

\* No result comes without its start.
Begun(recorded) ==
    \A j \in 1..Len(recorded) : IsResult(recorded[j].item) =>
        \E i \in 1..(j - 1) : /\ IsStart(recorded[i].item)
                              /\ recorded[i].item.run = recorded[j].item.run

\* The panel after k entries: its blocks are of different runs, none beyond
\* those to start; each start and each result there was can be seen.
Shows(k, n, s) ==
    /\ s \in Seq(Blocks)
    /\ \E top \in 0..MaxRuns :
          /\ \A b \in 1..Len(s) : s[b].run >= 1 /\ s[b].run + (b - 1) <= top
          /\ \A i \in (k + 1)..n : IsStart(events[i].item) => top < events[i].item.run
    /\ \A i \in 1..k : IsStart(events[i].item) =>
          \E b \in 1..Len(s) : s[b].run = events[i].item.run
    /\ \A i \in 1..k : IsResult(events[i].item) => \E b \in 1..Len(s) : s[b].diagnosis

LEMMA ShowsNone ==
    ASSUME NEW n \in Nat, n = Len(events), Orderly(events)
    PROVE  Shows(0, n, << >>)
<1>1. PICK s : s = << >>
  OBVIOUS
<1>2. s \in Seq(Blocks) /\ Len(s) = 0
  BY <1>1
<1>3. 0 \in 0..MaxRuns /\ \A i \in 1..n : IsStart(events[i].item) => 0 < events[i].item.run
  BY RecordingAssumption DEF Orderly, Runs
<1>4. Shows(0, n, s)
  BY <1>2, <1>3 DEF Shows
<1> QED
  BY <1>1, <1>4

LEMMA ShowsNext ==
    ASSUME NEW n \in Nat, n = Len(events), Orderly(events), Begun(events),
           NEW k \in 0..(n - 1), NEW s, Shows(k, n, s)
    PROVE  Shows(k + 1, n, Dispatched(s, events[k + 1]))
<1>1. PICK e, item, run : e = events[k + 1] /\ item = e.item /\ run = item.run
  OBVIOUS
<1>2. /\ k + 1 \in 1..n /\ e \in Entries /\ item \in Items /\ run \in Nat
      /\ \A i \in 1..(k + 1) : i \in 1..k \/ i = k + 1
      /\ \A i \in (k + 2)..n : i \in (k + 1)..n
  <2>1. k + 1 \in 1..n /\ events \in Seq(Entries)
    BY DEF Orderly
  <2>2. e \in Entries
    BY <2>1, <1>1
  <2>3. item \in Items /\ run \in Nat
    BY <2>2, <1>1 DEF Entries, Items
  <2> QED
    BY <2>1, <2>2, <2>3
<1>3. PICK l \in Nat : l = Len(s)
  <2>1. s \in Seq(Blocks)
    BY DEF Shows
  <2> QED
    BY <2>1
<1>4. PICK top \in 0..MaxRuns :
         /\ \A b \in 1..l : s[b].run >= 1 /\ s[b].run + (b - 1) <= top
         /\ \A i \in (k + 1)..n : IsStart(events[i].item) => top < events[i].item.run
  BY <1>3 DEF Shows
<1>5. /\ s \in Seq(Blocks) /\ \A b \in 1..l : s[b] \in Blocks /\ s[b].run \in Nat
      /\ \A i \in 1..k : IsStart(events[i].item) =>
            \E b \in 1..l : s[b].run = events[i].item.run
      /\ \A i \in 1..k : IsResult(events[i].item) => \E b \in 1..l : s[b].diagnosis
  <2>1. s \in Seq(Blocks)
    BY DEF Shows
  <2>2. \A b \in 1..l : s[b] \in Blocks
    BY <2>1, <1>3
  <2>3. \A b \in 1..l : s[b].run \in Nat
    BY <2>2 DEF Blocks
  <2>4. /\ \A i \in 1..k : IsStart(events[i].item) =>
              \E b \in 1..l : s[b].run = events[i].item.run
        /\ \A i \in 1..k : IsResult(events[i].item) => \E b \in 1..l : s[b].diagnosis
    BY ONLY <1>3, Shows(k, n, s) DEF Shows
  <2> QED
    BY <2>1, <2>2, <2>3, <2>4
<1>6. PICK t : t = Dispatched(s, e)
  OBVIOUS
<1>7. t \in Seq(Blocks)
  BY <1>2, <1>5, <1>6, DispatchType
<1>8. CASE item.channel # "agent_events"
  <2>1. t = s /\ ~IsStart(item) /\ ~IsResult(item)
    BY <1>1, <1>6, <1>8 DEF Dispatched, IsStart, IsResult
  <2>2. /\ \A i \in 1..(k + 1) : IsStart(events[i].item) =>
              \E b \in 1..l : s[b].run = events[i].item.run
        /\ \A i \in 1..(k + 1) : IsResult(events[i].item) => \E b \in 1..l : s[b].diagnosis
    <3>1. ~IsStart(events[k + 1].item) /\ ~IsResult(events[k + 1].item)
      BY <2>1, <1>1
    <3> QED
      BY ONLY <3>1, <1>2, <1>5
  <2>3. \A i \in (k + 2)..n : IsStart(events[i].item) => top < events[i].item.run
    BY ONLY <1>2, <1>4
  <2>4. (k + 1) + 1 = k + 2
    OBVIOUS
  <2>5. Shows(k + 1, n, s)
    BY ONLY <2>2, <2>3, <2>4, <1>3, <1>4, <1>5 DEF Shows
  <2> QED
    BY <2>1, <2>5, <1>1, <1>6
<1>9. CASE IsStart(item)
  <2>1. t = RunStarted(s, run) /\ ~IsResult(item)
    BY <1>1, <1>6, <1>9 DEF Dispatched, OnAgentEvent, IsStart, IsResult
  <2>2. run \in 1..MaxRuns /\ top < run
    BY <1>1, <1>2, <1>4, <1>9 DEF Orderly, Runs
  <2>3. l <= top
    <3>1. CASE l = 0
      BY <3>1
    <3>2. CASE l # 0
      <4>1. l \in 1..l
        BY <3>2
      <4>2. s[l].run >= 1 /\ s[l].run + (l - 1) <= top /\ s[l].run \in Nat
        BY <4>1, <1>4, <1>5
      <4> QED
        BY <4>2
    <3> QED
      BY <3>1, <3>2
  <2>4. l + 1 \in Nat /\ l + 1 = IF l + 1 > MaxShown THEN MaxShown ELSE l + 1
    BY <2>2, <2>3, RecordingAssumption, PanelAssumption
  <2>5. /\ Len(t) = l + 1 /\ t[1] = NewBlock(run)
        /\ \A i \in 1..((l + 1) - 1) : t[i + 1] = Lose(s[i])
    BY ONLY <1>2, <1>3, <1>5, <2>1, <2>4, StartDoes DEF Stacked
  <2>6. t[1].run = run /\ \A b \in 1..l : /\ t[b + 1].run = s[b].run
                                          /\ t[b + 1].diagnosis = s[b].diagnosis
    <3>1. NewBlock(run).run = run
      BY <1>2, NewBlockType
    <3>2. ASSUME NEW b \in 1..l
          PROVE  t[b + 1].run = s[b].run /\ t[b + 1].diagnosis = s[b].diagnosis
      <4>1. t[b + 1] = Lose(s[b]) /\ s[b] \in Blocks
        BY <2>5, <1>5
      <4> QED
        BY ONLY <4>1, LoseType
    <3> QED
      BY ONLY <3>1, <3>2, <2>5
  <2>7. ASSUME NEW b \in 1..(l + 1) PROVE t[b].run >= 1 /\ t[b].run + (b - 1) <= run
    <3>1. CASE b = 1
      BY <3>1, <2>2, <2>6
    <3>2. CASE b # 1
      <4>1. PICK c : c = b - 1 /\ b = c + 1 /\ c \in 1..l
        BY <3>2
      <4>2. /\ t[b].run = s[c].run /\ s[c].run \in Nat
            /\ s[c].run >= 1 /\ s[c].run + (c - 1) <= top
        <5>1. t[c + 1].run = s[c].run
          BY ONLY <4>1, <2>6
        <5>2. s[c].run \in Nat /\ s[c].run >= 1 /\ s[c].run + (c - 1) <= top
          BY ONLY <4>1, <1>4, <1>5
        <5> QED
          BY ONLY <4>1, <5>1, <5>2
      <4>3. PICK q : q = s[c].run /\ q \in Nat /\ q >= 1 /\ q + (c - 1) <= top /\ t[b].run = q
        BY ONLY <4>2
      <4> QED
        BY <4>1, <4>3, <2>2
    <3> QED
      BY <3>1, <3>2
  <2>8. \A i \in (k + 2)..n : IsStart(events[i].item) => run < events[i].item.run
    BY <1>1, <1>2, <1>9 DEF Orderly
  <2>9. ASSUME NEW i \in 1..(k + 1), IsStart(events[i].item)
        PROVE  \E b \in 1..(l + 1) : t[b].run = events[i].item.run
    <3>1. CASE i = k + 1
      BY <3>1, <2>6, <1>1
    <3>2. CASE i \in 1..k
      <4>1. PICK b \in 1..l : s[b].run = events[i].item.run
        BY <3>2, <2>9, <1>5
      <4>2. b + 1 \in 1..(l + 1) /\ t[b + 1].run = events[i].item.run
        BY <4>1, <2>6
      <4> QED
        BY <4>2
    <3> QED
      BY <3>1, <3>2, <1>2
  <2>10. ASSUME NEW i \in 1..(k + 1), IsResult(events[i].item)
         PROVE  \E b \in 1..(l + 1) : t[b].diagnosis
    <3>1. i \in 1..k
      BY <2>1, <2>10, <1>1, <1>2
    <3>2. PICK b \in 1..l : s[b].diagnosis
      BY <3>1, <2>10, <1>5
    <3>3. b + 1 \in 1..(l + 1) /\ t[b + 1].diagnosis
      BY <3>2, <2>6
    <3> QED
      BY <3>3
  <2>11. run \in 0..MaxRuns /\ (k + 1) + 1 = k + 2
    BY <2>2
  <2>12. Shows(k + 1, n, t)
    BY <2>5, <2>7, <2>8, <2>9, <2>10, <2>11, <1>7 DEF Shows
  <2> QED
    BY <2>12, <1>1, <1>6
<1>10. CASE item.channel = "agent_events" /\ ~IsStart(item)
  <2>1. t = OnAgentEvent(s, item) /\ item.type # "agent_run_started"
    BY <1>1, <1>6, <1>10 DEF Dispatched, IsStart
  <2>2. /\ Len(t) = l
        /\ \A b \in 1..l : t[b] = IF IsNewest(s, b, run) THEN OnBlock(s[b], item) ELSE s[b]
    BY <2>1, <1>1, <1>2, <1>3, <1>5, OtherDoes
  <2>3. ASSUME NEW b \in 1..l
        PROVE  t[b].run = s[b].run /\ (s[b].diagnosis => t[b].diagnosis)
    BY <2>2, <1>2, <1>5, BlockTypes
  <2>4. ASSUME NEW i \in 1..(k + 1), IsStart(events[i].item)
        PROVE  \E b \in 1..l : t[b].run = events[i].item.run
    <3>1. i \in 1..k
      BY <2>4, <1>1, <1>2, <1>10
    <3> QED
      BY <3>1, <2>3, <2>4, <1>5
  <2>5. ASSUME NEW i \in 1..(k + 1), IsResult(events[i].item)
        PROVE  \E b \in 1..l : t[b].diagnosis
    <3>1. CASE i \in 1..k
      BY <3>1, <2>3, <2>5, <1>5
    <3>2. CASE i = k + 1
      <4>1. PICK j \in 1..k : IsStart(events[j].item) /\ events[j].item.run = run
        BY <3>2, <2>5, <1>1, <1>2 DEF Begun
      <4>2. PICK c \in 1..l : s[c].run = run
        BY <4>1, <1>5
      <4> DEFINE same == {b \in 1..l : s[b].run = run}
      <4>3. same \subseteq Nat /\ same # {}
        BY <4>2
      <4>4. PICK b \in same : \A x \in same : b <= x
        <5> HIDE DEF same
        <5> QED
          BY <4>3, LeastNat
      <4>5. b \in 1..l /\ s[b].run = run
        BY <4>4
      <4>6. \A x \in 1..(b - 1) : s[x].run # run
        BY <4>4, <4>5
      <4>7. IsNewest(s, b, run)
        BY <4>5, <4>6 DEF IsNewest
      <4>8. item.type = "agent_run_completed"
        BY <3>2, <2>5, <1>1 DEF IsResult
      <4>9. t[b].diagnosis
        BY <4>5, <4>7, <4>8, <2>2, <1>2, <1>5, BlockTypes
      <4> QED
        BY <4>5, <4>9
    <3> QED
      BY <3>1, <3>2, <1>2
  <2>6. \A b \in 1..l : t[b].run >= 1 /\ t[b].run + (b - 1) <= top
    BY <2>3, <1>4
  <2>7. \A i \in (k + 2)..n : IsStart(events[i].item) => top < events[i].item.run
    BY <1>2, <1>4
  <2>8. (k + 1) + 1 = k + 2
    OBVIOUS
  <2>9. Shows(k + 1, n, t)
    BY <2>2, <2>4, <2>5, <2>6, <2>7, <2>8, <1>7 DEF Shows
  <2> QED
    BY <2>9, <1>1, <1>6
<1> QED
  BY <1>8, <1>9, <1>10

\* The panel ends with the card of a result.
LEMMA CardShown ==
    ASSUME NEW n \in Nat, n = Len(events), Orderly(events), Begun(events),
           NEW j \in 1..n, IsResult(events[j].item)
    PROVE  \E b \in DOMAIN Expected : HasCard(Expected[b])
<1> DEFINE upto == {i \in 0..n : Shows(i, n, Panels[i])}
<1>1. 0 \in upto
  <2>1. Shows(0, n, << >>) /\ Panels[0] = << >>
    BY ShowsNone, PanelsAre
  <2> QED
    BY <2>1
<1>2. ASSUME NEW i \in 0..(n - 1), i \in upto PROVE i + 1 \in upto
  <2>1. i + 1 \in 1..n /\ (i + 1) - 1 = i
    OBVIOUS
  <2>2. Panels[i + 1] = Dispatched(Panels[i], events[i + 1])
    BY <2>1, PanelsAre
  <2>3. Shows(i, n, Panels[i])
    BY <1>2
  <2>4. Shows(i + 1, n, Panels[i + 1])
    BY <2>2, <2>3, ShowsNext
  <2> QED
    BY <2>1, <2>4
<1> HIDE DEF upto
<1>3. \A i \in 0..n : i \in upto
  BY ONLY <1>1, <1>2, n \in Nat, InductionTo
<1>4. PICK s : s = Expected /\ Shows(n, n, s)
  BY <1>3 DEF upto, Expected
<1>5. s \in Seq(Blocks) /\ \E b \in 1..Len(s) : s[b].diagnosis
  BY <1>4 DEF Shows
<1> QED
  BY <1>4, <1>5 DEF HasCard

-----------------------------------------------------------------------------
(* What is recorded of the runs.                                           *)

StartOf(item, r) == IsStart(item) /\ item.run = r

\* The start of r is recorded, or on its way.
Kept(recorded, r) == \E i \in 1..Len(recorded) : StartOf(recorded[i].item, r)
Coming(w, r) == \E i \in 1..Len(w) : StartOf(w[i], r)

\* Runs start in their order, and their starts come and are recorded in it.
RunsInv(w, recorded, living) ==
    /\ living \in [Runs -> {"new", "running", "over"}]
    /\ \A r \in Runs : living[r] # "new" => \A q \in 1..(r - 1) : living[q] # "new"
    /\ w \in Seq(Items) /\ Orderly(recorded)
    /\ \A i \in 1..Len(w) : IsStart(w[i]) => w[i].run \in Runs /\ living[w[i].run] # "new"
    /\ \A i \in 1..Len(recorded) :
          IsStart(recorded[i].item) => living[recorded[i].item.run] # "new"
    /\ \A i, j \in 1..Len(w) :
          i < j /\ IsStart(w[i]) /\ IsStart(w[j]) => w[i].run < w[j].run
    /\ \A i \in 1..Len(recorded), j \in 1..Len(w) :
          IsStart(recorded[i].item) /\ IsStart(w[j]) => recorded[i].item.run < w[j].run

\* A result is recorded, or comes, after its start.
ResultsInv(w, recorded) ==
    /\ \A j \in 1..Len(w) : IsResult(w[j]) =>
          Kept(recorded, w[j].run) \/ \E i \in 1..(j - 1) : StartOf(w[i], w[j].run)
    /\ Begun(recorded)

\* v is w with x behind it, or what is left of w.
Extended(v, w, x) ==
    /\ Len(v) = Len(w) + 1 /\ Len(w) \in Nat
    /\ \A i \in 1..Len(w) : v[i] = w[i]
    /\ v[Len(w) + 1] = x
Rest(v, w) ==
    /\ Len(w) = Len(v) + 1 /\ Len(v) \in Nat
    /\ \A i \in 1..Len(v) : v[i] = w[i + 1]

LEMMA RunsAppend ==
    ASSUME NEW w, NEW recorded, NEW living, RunsInv(w, recorded, living),
           NEW item, NEW v \in Seq(Items), Extended(v, w, item),
           IsStart(item) =>
              /\ item.run \in Runs /\ living[item.run] # "new"
              /\ \A i \in 1..Len(w) : IsStart(w[i]) => w[i].run < item.run
              /\ \A i \in 1..Len(recorded) :
                    IsStart(recorded[i].item) => recorded[i].item.run < item.run
    PROVE  RunsInv(v, recorded, living)
<1>1. PICK n : n = Len(w)
  OBVIOUS
<1>2. /\ n \in Nat /\ Len(v) = n + 1 /\ \A i \in 1..n : v[i] = w[i]
      /\ v[n + 1] = item
  BY <1>1 DEF Extended
<1>3. \A i \in 1..(n + 1) : i \in 1..n \/ i = n + 1
  BY <1>2
<1>4. \A i \in 1..(n + 1) : IsStart(v[i]) => v[i].run \in Runs /\ living[v[i].run] # "new"
  BY ONLY <1>1, <1>2, <1>3, RunsInv(w, recorded, living),
          IsStart(item) => item.run \in Runs /\ living[item.run] # "new" DEF RunsInv
<1>5. ASSUME NEW i \in 1..(n + 1), NEW j \in 1..(n + 1), i < j, IsStart(v[i]), IsStart(v[j])
      PROVE  v[i].run < v[j].run
  <2>1. i \in 1..n /\ v[i] = w[i]
    BY <1>2, <1>5
  <2>2. CASE j = n + 1
    BY <2>1, <2>2, <1>1, <1>2, <1>5
  <2>3. CASE j \in 1..n
    BY <2>1, <2>3, <1>1, <1>2, <1>5 DEF RunsInv
  <2> QED
    BY <2>2, <2>3, <1>3
<1>6. ASSUME NEW i \in 1..Len(recorded), NEW j \in 1..(n + 1),
             IsStart(recorded[i].item), IsStart(v[j])
      PROVE  recorded[i].item.run < v[j].run
  <2>1. CASE j = n + 1
    BY <2>1, <1>2, <1>6
  <2>2. CASE j \in 1..n
    BY <2>2, <1>1, <1>2, <1>6 DEF RunsInv
  <2> QED
    BY <2>1, <2>2, <1>3
<1> QED
  BY ONLY <1>2, <1>4, <1>5, <1>6, RunsInv(w, recorded, living), v \in Seq(Items) DEF RunsInv

LEMMA RunsRest ==
    ASSUME NEW w, NEW recorded, NEW living, RunsInv(w, recorded, living),
           NEW v \in Seq(Items), Rest(v, w)
    PROVE  RunsInv(v, recorded, living)
<1>1. PICK n : n = Len(v)
  OBVIOUS
<1>2. /\ n \in Nat /\ Len(w) = n + 1
      /\ \A i \in 1..n : i + 1 \in 1..(n + 1) /\ v[i] = w[i + 1]
      /\ \A i, j \in 1..n : i < j => i + 1 < j + 1
  BY <1>1 DEF Rest
<1>3. \A i \in 1..n : IsStart(v[i]) => v[i].run \in Runs /\ living[v[i].run] # "new"
  BY <1>2 DEF RunsInv
<1>4. \A i, j \in 1..n : i < j /\ IsStart(v[i]) /\ IsStart(v[j]) => v[i].run < v[j].run
  BY <1>2 DEF RunsInv
<1>5. \A i \in 1..Len(recorded), j \in 1..n :
         IsStart(recorded[i].item) /\ IsStart(v[j]) => recorded[i].item.run < v[j].run
  BY <1>2 DEF RunsInv
<1> QED
  BY ONLY <1>1, <1>3, <1>4, <1>5, RunsInv(w, recorded, living), v \in Seq(Items) DEF RunsInv

\* An entry is recorded: a start only if it is later than those recorded and
\* earlier than those that come.
LEMMA RunsRecord ==
    ASSUME NEW w, NEW recorded, NEW living, RunsInv(w, recorded, living),
           NEW entry, NEW more \in Seq(Entries), Extended(more, recorded, entry),
           IsStart(entry.item) =>
              /\ entry.item.run \in Runs /\ living[entry.item.run] # "new"
              /\ \A i \in 1..Len(recorded) :
                    IsStart(recorded[i].item) => recorded[i].item.run < entry.item.run
              /\ \A i \in 1..Len(w) : IsStart(w[i]) => entry.item.run < w[i].run
    PROVE  RunsInv(w, more, living)
<1>1. PICK n, item : n = Len(recorded) /\ item = entry.item
  OBVIOUS
<1>2. /\ n \in Nat /\ Len(more) = n + 1 /\ \A i \in 1..n : more[i].item = recorded[i].item
      /\ more[n + 1].item = item
  BY <1>1 DEF Extended
<1>3. \A i \in 1..(n + 1) : i \in 1..n \/ i = n + 1
  BY <1>2
<1>4. ASSUME NEW i \in 1..(n + 1), IsStart(more[i].item)
      PROVE  more[i].item.run \in Runs /\ living[more[i].item.run] # "new"
  <2>1. CASE i = n + 1
    BY <2>1, <1>1, <1>2, <1>4
  <2>2. CASE i \in 1..n
    BY <2>2, <1>1, <1>2, <1>4 DEF RunsInv, Orderly
  <2> QED
    BY <2>1, <2>2, <1>3
<1>5. ASSUME NEW i \in 1..(n + 1), NEW j \in 1..(n + 1), i < j,
             IsStart(more[i].item), IsStart(more[j].item)
      PROVE  more[i].item.run < more[j].item.run
  <2>1. i \in 1..n /\ more[i].item = recorded[i].item
    BY <1>2, <1>5
  <2>2. CASE j = n + 1
    BY <2>1, <2>2, <1>1, <1>2, <1>5
  <2>3. CASE j \in 1..n
    BY <2>1, <2>3, <1>1, <1>2, <1>5 DEF RunsInv, Orderly
  <2> QED
    BY <2>2, <2>3, <1>3
<1>6. ASSUME NEW i \in 1..(n + 1), NEW j \in 1..Len(w), IsStart(more[i].item), IsStart(w[j])
      PROVE  more[i].item.run < w[j].run
  <2>1. CASE i = n + 1
    BY <2>1, <1>1, <1>2, <1>6
  <2>2. CASE i \in 1..n
    BY <2>2, <1>1, <1>2, <1>6 DEF RunsInv
  <2> QED
    BY <2>1, <2>2, <1>3
<1>7. Orderly(more)
  BY ONLY <1>2, <1>4, <1>5, more \in Seq(Entries) DEF Orderly
<1> QED
  BY ONLY <1>2, <1>4, <1>6, <1>7, RunsInv(w, recorded, living) DEF RunsInv

\* A run starts, the earlier ones having started, or is over.
LEMMA RunsAdvance ==
    ASSUME NEW w, NEW recorded, NEW living, RunsInv(w, recorded, living),
           NEW later \in [Runs -> {"new", "running", "over"}],
           \A q \in Runs : living[q] # "new" => later[q] # "new",
           NEW r \in Runs, \A q \in Runs : q # r /\ later[q] # "new" => living[q] # "new",
           \A q \in 1..(r - 1) : living[q] # "new"
    PROVE  RunsInv(w, recorded, later)
<1>1. ASSUME NEW p \in Runs, later[p] # "new", NEW q \in 1..(p - 1) PROVE later[q] # "new"
  <2>1. q \in Runs
    BY RecordingAssumption DEF Runs
  <2>2. living[q] # "new"
    BY <1>1, <2>1 DEF RunsInv
  <2> QED
    BY <2>1, <2>2
<1>2. \A i \in 1..Len(recorded) : IsStart(recorded[i].item) => recorded[i].item.run \in Runs
  BY DEF RunsInv, Orderly
<1> QED
  BY <1>1, <1>2 DEF RunsInv

LEMMA ResultsAppend ==
    ASSUME NEW w, NEW recorded, ResultsInv(w, recorded), NEW item, NEW v,
           Extended(v, w, item),
           IsResult(item) => Kept(recorded, item.run) \/ Coming(w, item.run)
    PROVE  ResultsInv(v, recorded)
<1>1. PICK n : n = Len(w)
  OBVIOUS
<1>2. /\ n \in Nat /\ Len(v) = n + 1 /\ \A i \in 1..n : v[i] = w[i]
      /\ v[n + 1] = item
  BY <1>1 DEF Extended
<1>3. ASSUME NEW j \in 1..(n + 1), IsResult(v[j]), ~Kept(recorded, v[j].run)
      PROVE  \E i \in 1..(j - 1) : StartOf(v[i], v[j].run)
  <2>1. CASE j = n + 1
    <3>1. PICK i \in 1..n : StartOf(w[i], item.run)
      BY <2>1, <1>1, <1>2, <1>3 DEF Coming
    <3> QED
      BY <3>1, <2>1, <1>2
  <2>2. CASE j \in 1..n
    <3>1. PICK i \in 1..(j - 1) : StartOf(w[i], w[j].run)
      BY <2>2, <1>1, <1>2, <1>3 DEF ResultsInv
    <3>2. v[i] = w[i] /\ v[j] = w[j]
      BY <2>2, <1>2
    <3> QED
      BY <3>1, <3>2
  <2> QED
    BY <2>1, <2>2, <1>2
<1> QED
  BY ONLY <1>2, <1>3, ResultsInv(w, recorded) DEF ResultsInv

\* What is recorded stays so.
LEMMA KeptExtended ==
    ASSUME NEW recorded, NEW entry, NEW more, Extended(more, recorded, entry),
           NEW r, Kept(recorded, r)
    PROVE  Kept(more, r)
  BY DEF Extended, Kept

LEMMA ResultsRecord ==
    ASSUME NEW w, NEW recorded, ResultsInv(w, recorded), NEW entry, NEW more,
           Extended(more, recorded, entry),
           IsResult(entry.item) => Kept(recorded, entry.item.run)
    PROVE  ResultsInv(w, more)
<1>1. PICK n, item : n = Len(recorded) /\ item = entry.item
  OBVIOUS
<1>2. /\ n \in Nat /\ Len(more) = n + 1 /\ \A i \in 1..n : more[i].item = recorded[i].item
      /\ more[n + 1].item = item
  BY <1>1 DEF Extended
<1>3. ASSUME NEW j \in 1..(n + 1), IsResult(more[j].item)
      PROVE  \E i \in 1..(j - 1) : /\ IsStart(more[i].item)
                                   /\ more[i].item.run = more[j].item.run
  <2>1. CASE j = n + 1
    <3>1. PICK i \in 1..n : StartOf(recorded[i].item, item.run)
      BY <2>1, <1>1, <1>2, <1>3 DEF Kept
    <3> QED
      BY <3>1, <2>1, <1>2 DEF StartOf
  <2>2. CASE j \in 1..n
    <3>1. PICK i \in 1..(j - 1) : /\ IsStart(recorded[i].item)
                                  /\ recorded[i].item.run = recorded[j].item.run
      BY <2>2, <1>1, <1>2, <1>3 DEF ResultsInv, Begun
    <3>2. more[i].item = recorded[i].item /\ more[j].item = recorded[j].item
      BY <2>2, <1>2
    <3> QED
      BY <3>1, <3>2
  <2> QED
    BY <2>1, <2>2, <1>2
<1>4. Begun(more)
  BY ONLY <1>2, <1>3 DEF Begun
<1>5. \A r : Kept(recorded, r) => Kept(more, r)
  BY KeptExtended
<1> QED
  BY ONLY <1>4, <1>5, ResultsInv(w, recorded) DEF ResultsInv

\* The first one that comes is recorded.
LEMMA TakeRuns ==
    ASSUME NEW w \in Seq(Items), NEW recorded, NEW living, RunsInv(w, recorded, living),
           NEW v \in Seq(Items), Rest(v, w), NEW entry, entry.item = w[1],
           NEW more \in Seq(Entries), Extended(more, recorded, entry)
    PROVE  RunsInv(v, more, living)
<1>1. RunsInv(v, recorded, living)
  BY RunsRest
<1>2. PICK n : /\ n \in Nat /\ Len(v) = n /\ Len(w) = n + 1 /\ 1 \in 1..(n + 1)
               /\ \A i \in 1..n : i + 1 \in 1..(n + 1) /\ v[i] = w[i + 1] /\ 1 < i + 1
  BY DEF Rest
<1>3. PICK item : item = entry.item /\ item = w[1]
  OBVIOUS
<1>4. ASSUME IsStart(item)
      PROVE  /\ item.run \in Runs /\ living[item.run] # "new"
             /\ \A i \in 1..Len(recorded) :
                   IsStart(recorded[i].item) => recorded[i].item.run < item.run
             /\ \A i \in 1..n : IsStart(v[i]) => item.run < v[i].run
  BY <1>2, <1>3, <1>4 DEF RunsInv
<1> QED
  BY <1>1, <1>2, <1>3, <1>4, RunsRecord

LEMMA TakeResults ==
    ASSUME NEW w \in Seq(Items), NEW recorded, ResultsInv(w, recorded),
           NEW v, Rest(v, w), NEW entry, entry.item = w[1],
           NEW more, Extended(more, recorded, entry)
    PROVE  ResultsInv(v, more)
<1>1. PICK n : /\ n \in Nat /\ Len(v) = n /\ Len(w) = n + 1 /\ 1 \in 1..(n + 1)
               /\ \A i \in 1..n : i + 1 \in 1..(n + 1) /\ v[i] = w[i + 1]
  BY DEF Rest
<1>2. PICK item : item = entry.item /\ item = w[1]
  OBVIOUS
<1>3. IsResult(item) => Kept(recorded, item.run)
  BY <1>1, <1>2 DEF ResultsInv
<1>4. ResultsInv(w, more)
  BY <1>2, <1>3, ResultsRecord
<1>5. ASSUME StartOf(item, item.run) PROVE Kept(more, item.run)
  BY <1>2, <1>5 DEF Kept, Extended
<1>6. ASSUME NEW j \in 1..n, IsResult(v[j]), ~Kept(more, v[j].run)
      PROVE  \E i \in 1..(j - 1) : StartOf(v[i], v[j].run)
  <2>1. PICK m : m = j + 1 /\ m \in 1..(n + 1) /\ v[j] = w[m]
    BY <1>1
  <2>2. PICK i \in 1..(m - 1) : StartOf(w[i], w[m].run)
    BY <2>1, <1>1, <1>4, <1>6 DEF ResultsInv
  <2>3. i # 1
    <3>1. ASSUME i = 1 PROVE FALSE
      <4>1. item.run = v[j].run /\ StartOf(item, item.run)
        BY <3>1, <2>1, <2>2, <1>2 DEF StartOf
      <4> QED
        BY <4>1, <1>5, <1>6
    <3> QED
      BY <3>1
  <2>4. PICK l : l = i - 1 /\ l \in 1..(j - 1) /\ l \in 1..n /\ v[l] = w[i]
    BY <2>1, <2>2, <2>3, <1>1
  <2> QED
    BY <2>1, <2>2, <2>4
<1> QED
  BY ONLY <1>1, <1>4, <1>6 DEF ResultsInv

\* What the recording holds of the runs, and what is still to come.
Agent == "agent_events"

EventsInv ==
    /\ Orderly(events)
    /\ clean => Begun(events) /\ step # "prepared"
    /\ step = "written" => \A ch \in Channels : consumer[ch] = "returned"
    /\ step # "written" => RunsInv(wire[Agent], events, alive)
    /\ step # "written" /\ clean =>
          /\ ResultsInv(wire[Agent], events)
          /\ consumer[Agent] # "connecting"
          /\ consumer[Agent] = "reading" =>
                \A r \in Runs :
                    alive[r] = "running" => Kept(events, r) \/ Coming(wire[Agent], r)

LEMMA NothingBegun ==
    ASSUME NEW w, NEW recorded, w = << >>, recorded = << >>
    PROVE  ResultsInv(w, recorded) /\ Orderly(recorded)
<1>1. Len(w) = 0 /\ Len(recorded) = 0
  OBVIOUS
<1>2. recorded \in Seq(Entries)
  OBVIOUS
<1> QED
  BY <1>1, <1>2 DEF ResultsInv, Begun, Orderly

LEMMA EventsInit == Init => EventsInv
<1> SUFFICES ASSUME Init PROVE EventsInv
  OBVIOUS
<1>1. PICK w : w = wire[Agent] /\ w = << >>
  BY DEF Init, Agent, Channels
<1>2. Len(w) = 0 /\ w \in Seq(Items)
  BY <1>1
<1>3. PICK e : e = events /\ e = << >>
  BY DEF Init
<1>4. Len(e) = 0 /\ Orderly(e)
  BY <1>1, <1>3, NothingBegun
<1>5. RunsInv(w, e, alive)
  BY <1>2, <1>4 DEF RunsInv, Init
<1> QED
  BY <1>1, <1>3, <1>4, <1>5 DEF EventsInv, Init

\* What the backend sends on the channel is behind what comes.
LEMMA SendExtends ==
    ASSUME NEW item \in Items, item.channel = Agent, Send(item),
           wire \in [Channels -> Seq(Items)]
    PROVE  /\ UNCHANGED <<consumer, step, events, clean>>
           /\ wire'[Agent] \in Seq(Items)
           /\ IF consumer[Agent] = "reading" THEN Extended(wire'[Agent], wire[Agent], item)
              ELSE wire'[Agent] = wire[Agent]
<1>1. UNCHANGED <<consumer, step, events, clean>>
  BY DEF Send
<1>2. wire' = IF consumer[Agent] = "reading"
                THEN [wire EXCEPT ![Agent] = Append(@, item)] ELSE wire
  BY DEF Send
<1>3. Agent \in Channels
  BY DEF Agent, Channels
<1>4. PICK w \in Seq(Items) : w = wire[Agent]
  BY <1>3
<1>5. CASE consumer[Agent] = "reading"
  <2>1. PICK v : v = wire'[Agent] /\ v = Append(w, item)
    BY <1>2, <1>3, <1>4, <1>5
  <2>2. v \in Seq(Items) /\ Extended(v, w, item)
    BY <2>1 DEF Extended
  <2> QED
    BY <2>1, <2>2, <1>1, <1>4, <1>5
<1>6. CASE consumer[Agent] # "reading"
  BY <1>1, <1>2, <1>4, <1>6
<1> QED
  BY <1>5, <1>6

\* The first that comes is taken.
LEMMA TailRest ==
    ASSUME NEW w \in Seq(Items), w # << >>, NEW v, v = Tail(w)
    PROVE  v \in Seq(Items) /\ Rest(v, w) /\ Head(w) = w[1] /\ Head(w) \in Items
<1>1. PICK n : n = Len(w) /\ n \in Nat \ {0} /\ DOMAIN w = 1..n
  OBVIOUS
<1>2. v \in Seq(Items) /\ Len(v) = n - 1 /\ \A i \in 1..(n - 1) : v[i] = w[i + 1]
  BY <1>1
<1>3. PICK m : m = n - 1 /\ m \in Nat /\ n = m + 1
  BY <1>1
<1>4. Rest(v, w)
  BY ONLY <1>1, <1>2, <1>3 DEF Rest
<1>5. Head(w) = w[1] /\ w[1] \in Items
  BY <1>1
<1> QED
  BY <1>2, <1>4, <1>5

\* An entry is appended to the recording.
LEMMA RecordExtends ==
    ASSUME NEW recorded \in Seq(Entries), NEW entry \in Entries,
           NEW more, more = Append(recorded, entry)
    PROVE  more \in Seq(Entries) /\ Extended(more, recorded, entry)
  BY DEF Extended

LEMMA EventsSendOther ==
    ASSUME EventsInv, CaptureInv, step # "written",
           NEW item \in Items, Send(item), alive' = alive,
           ~IsStart(item) /\ ~IsResult(item)
    PROVE  EventsInv'
<1>1. wire \in [Channels -> Seq(Items)]
  BY DEF CaptureInv
<1>2. PICK w, v : w = wire[Agent] /\ v = wire'[Agent]
  OBVIOUS
<1>3. RunsInv(w, events, alive)
  BY <1>2 DEF EventsInv
<1>4. UNCHANGED <<consumer, step, events, clean, alive>>
  BY DEF Send
<1>5. CASE item.channel # Agent
  <2>1. v = w
    BY <1>1, <1>2, <1>5, SendDoes DEF Agent, Channels, Items
  <2> QED
    BY <2>1, <1>2, <1>4 DEF EventsInv
<1>6. CASE item.channel = Agent
  <2>1. v \in Seq(Items) /\ (v = w \/ Extended(v, w, item))
    BY <1>1, <1>2, <1>6, SendExtends
  <2>2. RunsInv(v, events, alive)
    BY <2>1, <1>3, RunsAppend
  <2>3. ASSUME clean PROVE ResultsInv(v, events)
    <3>1. ResultsInv(w, events)
      BY <2>3, <1>2 DEF EventsInv
    <3> QED
      BY <3>1, <2>1, ResultsAppend
  <2>4. ASSUME NEW r, Coming(w, r) PROVE Coming(v, r)
    BY <2>1, <2>4 DEF Coming, Extended
  <2> QED
    BY <2>2, <2>3, <2>4, <1>2, <1>4 DEF EventsInv
<1> QED
  BY <1>5, <1>6

LEMMA EventsRun ==
    ASSUME EventsInv, CaptureInv, NEW r \in Runs, SendRunEvent(r)
    PROVE  EventsInv'
<1>1. /\ step # "written" /\ r \in Nat /\ wire \in [Channels -> Seq(Items)]
      /\ sent \in [Channels -> Nat]
  BY RecordingAssumption DEF SendRunEvent, CaptureInv, Runs
<1>2. PICK type \in {"agent_run_started", "agent_run_completed", "agent_run_failed"} :
         /\ IF type = "agent_run_started"
              THEN alive[r] = "new" /\ \A q \in 1..(r - 1) : alive[q] # "new"
              ELSE alive[r] = "running"
         /\ alive' = [alive EXCEPT ![r] = IF type = "agent_run_started"
                                            THEN "running" ELSE "over"]
         /\ Send(Item("agent_events", type, r, NoFrame))
  BY DEF SendRunEvent
<1>3. PICK item : item = Item("agent_events", type, r, NoFrame)
  OBVIOUS
<1>4. /\ item \in Items /\ item.channel = Agent /\ item.type = type /\ item.run = r
      /\ Send(item)
  BY <1>1, <1>2, <1>3 DEF Item, Items, Agent, Channels, Types
<1>5. PICK w, v : w = wire[Agent] /\ v = wire'[Agent]
  OBVIOUS
<1>6. /\ UNCHANGED <<consumer, step, events, clean>> /\ v \in Seq(Items)
      /\ IF consumer[Agent] = "reading" THEN Extended(v, w, item) ELSE v = w
  BY <1>1, <1>4, <1>5, SendExtends
<1>7. RunsInv(w, events, alive)
  BY <1>1, <1>5 DEF EventsInv
<1>8. PICK later : later = alive'
  OBVIOUS
<1>9. /\ later \in [Runs -> {"new", "running", "over"}] /\ later[r] # "new"
      /\ \A q \in Runs : q # r => later[q] = alive[q]
      /\ alive[r] # "new" \/ type = "agent_run_started"
  <2>1. alive \in [Runs -> {"new", "running", "over"}]
    BY <1>7 DEF RunsInv
  <2> QED
    BY <2>1, <1>2, <1>8
<1>10. \A q \in 1..(r - 1) : alive[q] # "new"
  <2>1. CASE type = "agent_run_started"
    BY <2>1, <1>2
  <2>2. CASE type # "agent_run_started"
    BY <2>2, <1>2, <1>7 DEF RunsInv
  <2> QED
    BY <2>1, <2>2
<1>11. RunsInv(w, events, later)
  BY <1>7, <1>9, <1>10, RunsAdvance
<1>12. ASSUME IsStart(item)
       PROVE  /\ \A i \in 1..Len(w) : IsStart(w[i]) => w[i].run < r
              /\ \A i \in 1..Len(events) : IsStart(events[i].item) => events[i].item.run < r
  <2>1. type = "agent_run_started" /\ alive[r] = "new"
    BY <1>12, <1>2, <1>4 DEF IsStart
  <2>2. ASSUME NEW q \in Runs, alive[q] # "new" PROVE q < r
    <3>1. \A p \in 1..(q - 1) : alive[p] # "new"
      BY <2>2, <1>7 DEF RunsInv
    <3>2. q \in Nat /\ r \in Nat /\ r >= 1 /\ q # r
      BY <2>1, <2>2, RecordingAssumption DEF Runs
    <3> QED
      BY <3>1, <3>2, <2>1
  <2>3. \A i \in 1..Len(w) : IsStart(w[i]) => w[i].run \in Runs /\ alive[w[i].run] # "new"
    BY <1>7 DEF RunsInv
  <2>4. \A i \in 1..Len(events) : IsStart(events[i].item) =>
           events[i].item.run \in Runs /\ alive[events[i].item.run] # "new"
    BY <1>7 DEF RunsInv, Orderly
  <2> QED
    BY <2>2, <2>3, <2>4
<1>13. RunsInv(v, events, later)
  <2>1. CASE v = w
    BY <2>1, <1>11
  <2>2. CASE Extended(v, w, item)
    BY <2>2, <1>4, <1>6, <1>9, <1>11, <1>12, RunsAppend
  <2> QED
    BY <2>1, <2>2, <1>6
<1>14. ASSUME clean
       PROVE  /\ ResultsInv(v, events)
              /\ consumer[Agent] = "reading" =>
                    \A q \in Runs : later[q] = "running" => Kept(events, q) \/ Coming(v, q)
  <2>1. /\ ResultsInv(w, events)
        /\ consumer[Agent] = "reading" =>
              \A q \in Runs : alive[q] = "running" => Kept(events, q) \/ Coming(w, q)
    BY <1>14, <1>1, <1>5 DEF EventsInv
  <2>2. CASE consumer[Agent] # "reading"
    BY <2>1, <2>2, <1>6
  <2>3. CASE consumer[Agent] = "reading"
    <3>1. Extended(v, w, item)
      BY <2>3, <1>6
    <3>2. ASSUME IsResult(item) PROVE Kept(events, r) \/ Coming(w, r)
      BY <3>2, <2>1, <2>3, <1>2, <1>4 DEF IsResult
    <3>3. ResultsInv(v, events)
      BY <3>1, <3>2, <2>1, <1>4, ResultsAppend
    <3>4. ASSUME NEW q, Coming(w, q) PROVE Coming(v, q)
      BY <3>1, <3>4 DEF Coming, Extended
    <3>5. ASSUME later[r] = "running" PROVE Coming(v, r)
      <4>1. IsStart(item)
        BY <3>5, <1>2, <1>4, <1>7, <1>8 DEF IsStart, Agent, RunsInv
      <4>2. Len(v) \in 1..Len(v) /\ v[Len(v)] = item
        BY <3>1 DEF Extended
      <4> QED
        BY <4>1, <4>2, <1>4 DEF Coming, StartOf
    <3>6. ASSUME NEW q \in Runs, later[q] = "running" PROVE Kept(events, q) \/ Coming(v, q)
      BY <3>4, <3>5, <3>6, <2>1, <2>3, <1>9
    <3> QED
      BY <3>3, <3>6
  <2> QED
    BY <2>2, <2>3
<1> QED
  BY <1>5, <1>6, <1>8, <1>13, <1>14, <1>1 DEF EventsInv

LEMMA EventsReceive ==
    ASSUME EventsInv, CaptureInv, NEW ch \in Channels, Receive(ch)
    PROVE  EventsInv'
<1>1. /\ consumer[ch] = "reading" /\ wire[ch] # << >>
      /\ wire' = [wire EXCEPT ![ch] = Tail(@)]
      /\ events' = IF step = "prepared" THEN events
                   ELSE Append(events, [item |-> Head(wire[ch]), t |-> 0])
      /\ consumer' = IF step = "stopped" THEN [consumer EXCEPT ![ch] = "returned"]
                     ELSE consumer
      /\ step' = step /\ clean' = clean /\ alive' = alive
  BY DEF Receive, Record, backend
<1>2. step # "written"
  BY <1>1 DEF EventsInv
<1>3. /\ wire \in [Channels -> Seq(Items)] /\ events \in Seq(Entries)
      /\ consumer \in [Channels -> {"connecting", "reading", "returned"}]
      /\ WireOf(ch) /\ Agent \in Channels
  BY <1>2 DEF CaptureInv, Agent, Channels
<1>4. PICK w, v, x, y :
         /\ w = wire[Agent] /\ v = wire'[Agent] /\ x = wire[ch] /\ y = wire'[ch]
         /\ w \in Seq(Items) /\ v \in Seq(Items)
  <2>1. wire' \in [Channels -> Seq(Items)]
    BY <1>1, <1>3
  <2> QED
    BY <2>1, <1>3
<1>5. /\ x \in Seq(Items) /\ y \in Seq(Items) /\ Rest(y, x) /\ Head(x) = x[1]
      /\ Head(x) \in Items
  <2>1. x \in Seq(Items) /\ x # << >> /\ y = Tail(x)
    BY <1>1, <1>3, <1>4
  <2> QED
    BY ONLY <2>1, TailRest
<1>6. PICK item : item = x[1] /\ item = Head(x) /\ item \in Items /\ item.channel = ch
  <2>1. 1 \in 1..Len(x)
    BY <1>5 DEF Rest
  <2>2. x[1].channel = ch
    BY <2>1, <1>1, <1>3, <1>4 DEF WireOf
  <2> QED
    BY <2>2, <1>5
<1>7. PICK entry : entry = [item |-> item, t |-> 0]
  OBVIOUS
<1>8. entry \in Entries /\ entry.item = item
  BY <1>6, <1>7 DEF Entries
<1>9. RunsInv(w, events, alive)
  BY <1>2, <1>4 DEF EventsInv
<1>10. CASE step = "prepared"
  <2>1. ~clean /\ events' = events
    BY <1>1, <1>10 DEF EventsInv
  <2>2. v = w \/ Rest(v, w)
    <3>1. CASE ch = Agent
      BY <3>1, <1>4, <1>5
    <3>2. CASE ch # Agent
      BY <3>2, <1>1, <1>3, <1>4
    <3> QED
      BY <3>1, <3>2
  <2>3. RunsInv(v, events, alive)
    <3>1. v \in Seq(Items)
      BY <1>4
    <3>2. CASE v = w
      BY <3>2, <1>9
    <3>3. CASE Rest(v, w)
      BY ONLY <3>1, <3>3, <1>9, RunsRest
    <3> QED
      BY <2>2, <3>2, <3>3
  <2> QED
    BY <2>1, <2>3, <1>1, <1>4, <1>10 DEF EventsInv
<1>11. CASE step # "prepared"
  <2>1. PICK more : more = events' /\ more = Append(events, entry)
    BY <1>1, <1>4, <1>6, <1>7, <1>11
  <2>2. more \in Seq(Entries) /\ Extended(more, events, entry)
    BY <2>1, <1>3, <1>8, RecordExtends
  <2>3. clean => /\ ResultsInv(w, events)
                 /\ consumer[Agent] # "connecting"
                 /\ consumer[Agent] = "reading" =>
                       \A r \in Runs : alive[r] = "running" => Kept(events, r) \/ Coming(w, r)
    BY <1>2, <1>4 DEF EventsInv
  <2>4. consumer'[Agent] = consumer[Agent] \/ consumer'[Agent] = "returned"
    BY <1>1, <1>3
  <2>5. RunsInv(v, more, alive)
    <3>1. CASE ch = Agent
      BY <3>1, <2>2, <1>4, <1>5, <1>6, <1>8, <1>9, TakeRuns
    <3>2. CASE ch # Agent
      <4>1. v = w /\ ~IsStart(item)
        BY <3>2, <1>1, <1>3, <1>4, <1>6 DEF IsStart, Agent
      <4> QED
        BY <4>1, <2>2, <1>8, <1>9, RunsRecord
    <3> QED
      BY <3>1, <3>2
  <2>6. clean => ResultsInv(v, more)
    <3>1. CASE ch = Agent
      BY <3>1, <2>2, <2>3, <1>4, <1>5, <1>6, <1>8, TakeResults
    <3>2. CASE ch # Agent
      <4>1. v = w /\ ~IsResult(item)
        BY <3>2, <1>1, <1>3, <1>4, <1>6 DEF IsResult, Agent
      <4> QED
        BY <4>1, <2>2, <2>3, <1>8, ResultsRecord
    <3> QED
      BY <3>1, <3>2
  <2>7. ASSUME NEW r, Kept(events, r) \/ Coming(w, r) PROVE Kept(more, r) \/ Coming(v, r)
    <3>1. CASE Kept(events, r)
      BY <3>1, <2>2, KeptExtended
    <3>2. CASE Coming(w, r) /\ ch # Agent
      BY <3>2, <1>1, <1>3, <1>4
    <3>3. CASE Coming(w, r) /\ ch = Agent
      <4>1. PICK i \in 1..Len(w) : StartOf(w[i], r)
        BY <3>3 DEF Coming
      <4>2. Rest(v, w) /\ w[1] = item
        BY <3>3, <1>4, <1>5, <1>6
      <4>3. CASE i = 1
        <5>1. StartOf(entry.item, r)
          BY <4>1, <4>2, <4>3, <1>8
        <5> QED
          BY <5>1, <2>2 DEF Kept, Extended
      <4>4. CASE i # 1
        <5>1. PICK n : n = Len(v) /\ n \in Nat /\ Len(w) = n + 1
                       /\ \A k \in 1..n : v[k] = w[k + 1]
          BY <4>2 DEF Rest
        <5>2. PICK k : k = i - 1 /\ k \in 1..n /\ i = k + 1
          BY <5>1, <4>1, <4>4
        <5> QED
          BY <5>1, <5>2, <4>1 DEF Coming
      <4> QED
        BY <4>3, <4>4
    <3> QED
      BY <2>7, <3>1, <3>2, <3>3
  <2>8. Orderly(more) /\ (clean => Begun(more))
    BY <2>5, <2>6 DEF RunsInv, ResultsInv
  <2> QED
    BY <2>1, <2>3, <2>4, <2>5, <2>6, <2>7, <2>8, <1>1, <1>2, <1>4, <1>11 DEF EventsInv
<1> QED
  BY <1>10, <1>11

LEMMA EventsConsumer ==
    ASSUME EventsInv, CaptureInv, NEW ch \in Channels, Join(ch) \/ Close(ch) \/ Leave(ch)
    PROVE  EventsInv'
<1>1. step # "written"
  BY DEF Join, Close, Leave, EventsInv
<1>2. /\ wire \in [Channels -> Seq(Items)] /\ Agent \in Channels
      /\ consumer \in [Channels -> {"connecting", "reading", "returned"}]
  BY <1>1 DEF CaptureInv, Agent, Channels
<1>3. step' = step /\ events' = events /\ clean' = clean /\ alive' = alive
  BY DEF Join, Close, Leave, backend
<1>4. PICK w, v : w = wire[Agent] /\ v = wire'[Agent]
  OBVIOUS
<1>5. RunsInv(w, events, alive) /\ (clean => ResultsInv(w, events))
  BY <1>1, <1>4 DEF EventsInv
<1>6. v = w \/ (v = << >> /\ consumer'[Agent] = "returned")
  BY <1>2, <1>4 DEF Join, Close, Leave
<1>7. RunsInv(v, events, alive) /\ (clean => ResultsInv(v, events))
  <2>1. CASE v = w
    BY <2>1, <1>5
  <2>2. CASE v = << >>
    <3>1. v \in Seq(Items) /\ Len(v) = 0
      BY <2>2
    <3>2. RunsInv(v, events, alive)
      BY ONLY <3>1, <1>5 DEF RunsInv
    <3>3. clean => ResultsInv(v, events)
      BY ONLY <3>1, <1>5 DEF ResultsInv
    <3> QED
      BY <3>2, <3>3
  <2> QED
    BY <2>1, <2>2, <1>6
<1>8. clean => /\ consumer'[Agent] # "connecting"
               /\ consumer'[Agent] = "reading" => consumer[Agent] = "reading"
  BY <1>1, <1>2 DEF Join, Close, Leave, EventsInv
<1> QED
  BY <1>1, <1>3, <1>4, <1>6, <1>7, <1>8 DEF EventsInv

LEMMA EventsTrigger == ASSUME EventsInv, CaptureInv, Trigger PROVE EventsInv'
<1>1. /\ step = "prepared" /\ step' = "triggered"
      /\ clean' <=> /\ \A ch \in Channels : consumer[ch] = "reading"
                    /\ \A r \in Runs : alive[r] # "running"
                    /\ wire["agent_events"] = << >>
      /\ alive' = alive /\ wire' = wire /\ consumer' = consumer /\ events' = events
  BY DEF Trigger, backend
<1>2. PICK w, e : w = wire[Agent] /\ e = events /\ e = << >>
  BY <1>1 DEF CaptureInv
<1>3. RunsInv(w, e, alive) /\ Orderly(e)
  BY <1>1, <1>2 DEF EventsInv
<1>4. clean' => ResultsInv(w, e)
  <2>1. clean' => w = << >>
    BY <1>1, <1>2 DEF Agent
  <2> QED
    BY <2>1, <1>2, NothingBegun
<1>5. Begun(e)
  BY <1>2, NothingBegun DEF ResultsInv
<1>6. clean' => consumer[Agent] # "connecting" /\ \A r \in Runs : alive[r] # "running"
  BY <1>1 DEF Agent, Channels
<1> QED
  BY <1>1, <1>2, <1>3, <1>4, <1>5, <1>6 DEF EventsInv

LEMMA EventsStarted == ASSUME EventsInv, Started PROVE EventsInv'
<1>1. /\ step = "triggered" /\ step' = "capturing"
      /\ alive' = [r \in Runs |-> IF alive[r] = "running" THEN "over" ELSE alive[r]]
      /\ clean' = clean /\ wire' = wire /\ consumer' = consumer /\ events' = events
  BY DEF Started
<1>2. PICK w, later : w = wire[Agent] /\ later = alive'
  OBVIOUS
<1>3. RunsInv(w, events, alive)
  BY <1>1, <1>2 DEF EventsInv
<1>4. /\ later \in [Runs -> {"new", "running", "over"}]
      /\ \A r \in Runs : (later[r] # "new" <=> alive[r] # "new") /\ later[r] # "running"
  BY <1>1, <1>2, <1>3 DEF RunsInv
<1>5. RunsInv(w, events, later)
  <2>1. ASSUME NEW p \in Runs, later[p] # "new", NEW q \in 1..(p - 1) PROVE later[q] # "new"
    <3>1. q \in Runs
      BY RecordingAssumption DEF Runs
    <3> QED
      BY <3>1, <2>1, <1>3, <1>4 DEF RunsInv
  <2>2. \A i \in 1..Len(events) : IsStart(events[i].item) => events[i].item.run \in Runs
    BY <1>3 DEF RunsInv, Orderly
  <2> QED
    BY <2>1, <2>2, <1>3, <1>4 DEF RunsInv
<1> QED
  BY <1>1, <1>2, <1>4, <1>5 DEF EventsInv

\* The file is what was recorded, but for numbers and times.
LEMMA EventsWrite == ASSUME EventsInv, Write PROVE EventsInv'
<1>1. PICK last \in Pauses :
         events' = [i \in DOMAIN events |->
                       [events[i] EXCEPT !.item.n = 0, !.t = IF i <= last THEN 1 ELSE 1 + Gap]]
  BY DEF Write
<1>2. /\ step' = "written" /\ clean' = clean /\ consumer' = consumer /\ step # "prepared"
      /\ \A ch \in Channels : consumer[ch] = "returned"
  BY DEF Write
<1>3. PICK n, e, f : /\ e = events /\ f = events' /\ n = Len(e) /\ n \in Nat
                     /\ e \in Seq(Entries) /\ DOMAIN e = 1..n
  BY DEF EventsInv, Orderly
<1>4. f = [i \in 1..n |-> [e[i] EXCEPT !.item.n = 0, !.t = IF i <= last THEN 1 ELSE 1 + Gap]]
  BY <1>1, <1>3
<1>5. ASSUME NEW i \in 1..n
      PROVE  /\ f[i] \in Entries /\ f[i].item.channel = e[i].item.channel
             /\ f[i].item.type = e[i].item.type /\ f[i].item.run = e[i].item.run
  <2>1. PICK x, g : /\ x = e[i] /\ x \in Entries
                    /\ g \in Nat /\ g = IF i <= last THEN 1 ELSE 1 + Gap
    BY <1>3, RecordingAssumption
  <2>2. f[i] = [x EXCEPT !.item.n = 0, !.t = g]
    BY <2>1, <1>4
  <2>3. [x EXCEPT !.item.n = 0, !.t = g] = [item |-> [x.item EXCEPT !.n = 0], t |-> g]
    <3>1. PICK a, u : a \in Items /\ x = [item |-> a, t |-> u]
      BY <2>1 DEF Entries
    <3>2. x.item = a /\ [x EXCEPT !.item.n = 0] = [item |-> [a EXCEPT !.n = 0], t |-> u]
      BY ONLY <3>1
    <3>3. PICK b : b = [a EXCEPT !.n = 0]
      OBVIOUS
    <3>4. PICK z : z = [x EXCEPT !.item.n = 0] /\ z = [item |-> b, t |-> u]
      BY ONLY <3>2, <3>3
    <3>5. [x EXCEPT !.item.n = 0, !.t = g] = [z EXCEPT !.t = g]
      BY ONLY <3>4
    <3>6. [z EXCEPT !.t = g] = [item |-> b, t |-> g]
      <4>1. z = [item |-> b, t |-> u]
        BY ONLY <3>4
      <4> QED
        BY ONLY <4>1
    <3>7. [x.item EXCEPT !.n = 0] = b
      BY ONLY <3>2, <3>3
    <3> QED
      BY ONLY <3>5, <3>6, <3>7
  <2>4. PICK y : y = [x.item EXCEPT !.n = 0]
    OBVIOUS
  <2>5. /\ y \in Items /\ y.channel = x.item.channel /\ y.type = x.item.type
        /\ y.run = x.item.run
    BY <2>1, <2>4 DEF Entries, Items
  <2>6. f[i] = [item |-> y, t |-> g]
    BY <2>2, <2>3, <2>4
  <2> QED
    BY <2>1, <2>5, <2>6 DEF Entries
<1>6. f \in Seq(Entries) /\ Len(f) = n
  <2>1. f = [i \in 1..n |-> f[i]]
    BY ONLY <1>4
  <2>2. \A i \in 1..n : f[i] \in Entries
    BY <1>5
  <2> QED
    BY ONLY <2>1, <2>2, <1>3
<1>7. \A i \in 1..n : /\ f[i].item.run = e[i].item.run
                      /\ IsStart(f[i].item) <=> IsStart(e[i].item)
                      /\ IsResult(f[i].item) <=> IsResult(e[i].item)
  BY <1>5 DEF IsStart, IsResult
<1>8. Orderly(f)
  <2>1. Orderly(e)
    BY <1>3 DEF EventsInv
  <2> QED
    BY ONLY <2>1, <1>3, <1>6, <1>7 DEF Orderly
<1>9. clean => Begun(f)
  <2>1. SUFFICES ASSUME clean, NEW j \in 1..n, IsResult(f[j].item)
                 PROVE  \E i \in 1..(j - 1) : /\ IsStart(f[i].item)
                                              /\ f[i].item.run = f[j].item.run
    BY <1>6 DEF Begun
  <2>2. Begun(e)
    BY <2>1, <1>3 DEF EventsInv
  <2>3. PICK i \in 1..(j - 1) : IsStart(e[i].item) /\ e[i].item.run = e[j].item.run
    BY <2>1, <2>2, <1>3, <1>7 DEF Begun
  <2>4. i \in 1..n
    BY <1>3
  <2> QED
    BY <2>3, <2>4, <1>7
<1> QED
  BY <1>2, <1>3, <1>8, <1>9 DEF EventsInv

LEMMA EventsNext == EventsInv /\ CaptureInv /\ [Next]_vars => EventsInv'
<1> SUFFICES ASSUME EventsInv, CaptureInv, [Next]_vars PROVE EventsInv'
  OBVIOUS
<1>1. CASE SendFrame
  <2>1. step # "written" /\ alive' = alive /\ sent \in [Channels -> Nat]
    BY <1>1 DEF SendFrame, CaptureInv
  <2>2. PICK f \in Frames : Send(Item("telemetry", "frame", NoRun, f))
    BY <1>1 DEF SendFrame
  <2>3. PICK item : item = Item("telemetry", "frame", NoRun, f)
    OBVIOUS
  <2>4. item \in Items /\ ~IsStart(item) /\ ~IsResult(item)
    BY <2>1, <2>3 DEF Item, Items, IsStart, IsResult, NoRun, Types, Channels
  <2> QED
    BY <2>1, <2>2, <2>3, <2>4, EventsSendOther
<1>2. CASE SendAnomaly
  <2>1. /\ step # "written" /\ alive' = alive /\ sent \in [Channels -> Nat]
        /\ Send(Item("agent_events", "anomaly", NoRun, NoFrame))
    BY <1>2 DEF SendAnomaly, CaptureInv
  <2>2. PICK item : item = Item("agent_events", "anomaly", NoRun, NoFrame)
    OBVIOUS
  <2>3. item \in Items /\ ~IsStart(item) /\ ~IsResult(item)
    BY <2>1, <2>2 DEF Item, Items, IsStart, IsResult, NoRun, Types, Channels
  <2> QED
    BY <2>1, <2>2, <2>3, EventsSendOther
<1>3. CASE \E r \in Runs : SendRunEvent(r)
  BY <1>3, EventsRun
<1>4. CASE \E ch \in Channels : Join(ch) \/ Close(ch) \/ Receive(ch) \/ Leave(ch)
  BY <1>4, EventsReceive, EventsConsumer
<1>5. CASE Trigger
  BY <1>5, EventsTrigger
<1>6. CASE Started
  BY <1>6, EventsStarted
<1>7. CASE Stop
  BY <1>7 DEF Stop, EventsInv, backend
<1>8. CASE Write
  BY <1>8, EventsWrite
<1>9. CASE \/ Begin \/ Yield \/ Finish \/ Reset \/ Deliver \/ Poll \/ Tick \/ Ended
           \/ UNCHANGED vars
  <2>1. UNCHANGED <<alive, wire, consumer, step, events, clean>>
    BY <1>9 DEF Begin, Yield, Finish, Reset, Deliver, Poll, Tick, Ended, backend, capture, vars
  <2> QED
    BY <2>1 DEF EventsInv
<1> QED
  BY <1>1, <1>2, <1>3, <1>4, <1>5, <1>6, <1>7, <1>8, <1>9 DEF Next

-----------------------------------------------------------------------------
(* The playback.                                                           *)

Underway == [seq : 0..Len(events), age : 0..MaxDelay]

PlayType ==
    /\ play \in {"ready", "replaying", "complete"} /\ plays \in Nat
    /\ position \in 0..Len(events) /\ now \in Nat /\ lastEmit \in Nat /\ lastEmit <= now
    /\ transit \in Seq(Underway) /\ pollIn \in 0..PollPeriod
    /\ box \in 0..Len(events) /\ lastVal \in 0..Len(events)
    /\ runs \in Seq(Blocks)
    /\ play # "replaying" => position = 0 /\ now = 0 /\ lastEmit = 0
    /\ play # "ready" => plays >= 1

\* A value is on its way, in the box but not seen, or seen by the poll; there
\* is time for that before the next one.
OnItsWay(p) ==
    /\ Len(transit) = 1 /\ transit[1].seq = p /\ box = lastVal /\ box # p
    /\ play = "replaying" => now - lastEmit = transit[1].age
    /\ Covers(Panels[p - 1], runs)
InTheBox(p) ==
    /\ Len(transit) = 0 /\ box = p /\ lastVal # p
    /\ play = "replaying" => (now - lastEmit) + pollIn <= MaxDelay + PollPeriod
    /\ Covers(Panels[p - 1], runs)
Seen(p) ==
    /\ Len(transit) = 0 /\ box = p /\ lastVal = p
    /\ Covers(Panels[p], runs)

\* What became of the last value yielded; the first one must not look old.
Stage(p) ==
    IF p = 0 THEN Len(transit) = 0 /\ box = lastVal /\ box # 1
    ELSE OnItsWay(p) \/ InTheBox(p) \/ Seen(p)

\* A recording of one event is not told from itself.
Told == Len(events) # 1 \/ plays = 1

PlayInv ==
    IF step # "written"
      THEN /\ play = "ready" /\ plays = 0 /\ position = 0 /\ now = 0 /\ lastEmit = 0
           /\ transit = << >> /\ box = NoValue /\ lastVal = NoValue /\ pollIn = 0
           /\ runs = << >>
      ELSE /\ PlayType
           /\ play = "ready" =>
                 IF Len(transit) = 0 THEN box = NoValue
                 ELSE transit[Len(transit)].seq = NoValue
           /\ Told /\ play = "replaying" => Stage(position)
           /\ Told /\ play = "complete" => Stage(Len(events))

LEMMA PlayInit == Init => PlayInv
  BY DEF Init, PlayInv

LEMMA PanelsSame == events' = events => Panels' = Panels
  BY DEF Panels

\* A sequence is empty if its length is zero.
LEMMA EmptyIs ==
    ASSUME NEW S, NEW s \in Seq(S)
    PROVE  /\ Len(s) \in Nat /\ (s = << >> <=> Len(s) = 0)
           /\ \A i \in 1..Len(s) : s[i] \in S
  OBVIOUS

\* The capture does not touch the playback.
LEMMA PlayBefore ==
    ASSUME PlayInv, step # "written", demo' = demo, browser' = browser,
           step' = "written" => Len(events') \in Nat
    PROVE  PlayInv'
<1>1. /\ play' = "ready" /\ plays' = 0 /\ position' = 0 /\ now' = 0 /\ lastEmit' = 0
      /\ transit' = << >> /\ box' = NoValue /\ lastVal' = NoValue /\ pollIn' = 0
      /\ runs' = << >>
  BY DEF PlayInv, demo, browser
<1>2. CASE step' # "written"
  BY <1>1, <1>2 DEF PlayInv
<1>3. CASE step' = "written"
  <2>1. PICK s, r, n : /\ s = transit' /\ s = << >> /\ r = runs' /\ r = << >>
                       /\ n = Len(events') /\ n \in Nat
    BY <1>1, <1>3
  <2>2. s \in Seq([seq : 0..n, age : 0..MaxDelay]) /\ Len(s) = 0 /\ r \in Seq(Blocks)
    BY <2>1
  <2>3. PlayType'
    BY <1>1, <2>1, <2>2, RecordingAssumption DEF PlayType, Underway, NoValue
  <2> QED
    BY <1>1, <1>3, <2>1, <2>2, <2>3 DEF PlayInv
<1> QED
  BY <1>2, <1>3

\* What holds while the demo is there.
LEMMA PlayFacts ==
    ASSUME EventsInv, PlayInv, step = "written"
    PROVE  /\ events \in Seq(Entries) /\ Len(events) \in Nat
           /\ PlayType /\ Len(transit) \in Nat /\ (transit = << >> <=> Len(transit) = 0)
           /\ \A i \in 1..Len(transit) : transit[i] \in Underway
<1>1. PlayType /\ events \in Seq(Entries)
  BY DEF PlayInv, EventsInv, Orderly
<1>2. transit \in Seq(Underway)
  BY <1>1 DEF PlayType
<1> QED
  BY <1>1, <1>2, EmptyIs

LEMMA PlayBegin == ASSUME EventsInv, PlayInv, Begin PROVE PlayInv'
<1>1. /\ step = "written" /\ play # "replaying" /\ transit = << >> /\ box = lastVal
      /\ play' = "replaying" /\ plays' = plays + 1
      /\ UNCHANGED <<step, events, position, now, lastEmit>>
      /\ UNCHANGED <<transit, box, lastVal, pollIn, runs>>
  BY DEF Begin, capture, browser
<1>2. PlayType /\ Len(transit) = 0 /\ events \in Seq(Entries) /\ Len(events) \in Nat
  BY <1>1, PlayFacts
<1>3. PlayType'
  BY <1>1, <1>2 DEF PlayType, Underway
<1>4. position = 0
  BY <1>1, <1>2 DEF PlayType
<1>5. Told' => box # 1
  <2>1. CASE play = "ready"
    BY <2>1, <1>1, <1>2 DEF PlayInv, NoValue
  <2>2. CASE play = "complete" /\ Told'
    <3>1. plays' # 1 /\ Len(events) # 1
      BY <2>2, <1>1, <1>2 DEF PlayType, Told
    <3>2. Stage(Len(events))
      BY <3>1, <2>2, <1>1 DEF PlayInv, Told
    <3> QED
      <4>1. PICK m : m = Len(events) /\ m # 1 /\ Stage(m)
        BY <3>1, <3>2
      <4>2. ~OnItsWay(m) /\ ~InTheBox(m)
        BY ONLY <1>1, <1>2 DEF OnItsWay, InTheBox
      <4>3. Seen(m) => box = m
        BY DEF Seen
      <4> QED
        BY ONLY <4>1, <4>2, <4>3 DEF Stage
  <2> QED
    BY <2>1, <2>2, <1>1, <1>2 DEF PlayType
<1> QED
  BY <1>1, <1>2, <1>3, <1>4, <1>5 DEF PlayInv, Stage

\* The value before has been seen when the next one is yielded.
LEMMA YieldsAfter ==
    ASSUME PlayType, events \in Seq(Entries), Due, position > 0, Stage(position),
           Len(transit) = 1 => transit[1].age \in 0..MaxDelay
    PROVE  Seen(position)
<1>1. play = "replaying" /\ position \in 1..(Len(events) - 1) /\ now >= Target
  BY DEF Due, PlayType
<1>2. PICK c \in Int : c = events[position + 1].t - events[1].t
  <2>1. position + 1 \in 1..Len(events) /\ 1 \in 1..Len(events)
    BY <1>1
  <2>2. events[position + 1] \in Entries /\ events[1] \in Entries
    BY <2>1
  <2> QED
    BY <2>2 DEF Entries
<1>3. Target = IF lastEmit + MinGap > c THEN lastEmit + MinGap ELSE c
  BY <1>2 DEF Target
<1>4. now - lastEmit >= MinGap
  BY <1>1, <1>3, RecordingAssumption DEF PlayType
<1>5. ~OnItsWay(position)
  BY <1>1, <1>4, RecordingAssumption DEF OnItsWay, PlayType
<1>6. ~InTheBox(position)
  BY <1>1, <1>4, RecordingAssumption DEF InTheBox, PlayType
<1> QED
  BY <1>5, <1>6 DEF Stage

LEMMA CoversNothing == ASSUME NEW s, s = << >>, NEW t \in Seq(Blocks) PROVE Covers(s, t)
<1>1. Len(s) = 0 /\ Len(t) \in Nat
  OBVIOUS
<1> QED
  BY <1>1 DEF Covers

LEMMA PlayYield == ASSUME EventsInv, PlayInv, step = "written", Yield PROVE PlayInv'
<1>1. /\ Due /\ position' = position + 1 /\ lastEmit' = now
      /\ transit' = Append(transit, [seq |-> position + 1, age |-> 0])
      /\ UNCHANGED <<step, events, play, plays, now, box, lastVal, pollIn, runs>>
  BY DEF Yield, capture
<1>2. /\ PlayType /\ events \in Seq(Entries) /\ Len(transit) \in Nat
      /\ \A i \in 1..Len(transit) : transit[i] \in Underway
  BY PlayFacts
<1>3. PICK n : n = Len(events) /\ n \in Nat
  BY <1>2
<1>4. play = "replaying" /\ position \in 0..(n - 1)
  BY <1>1, <1>2, <1>3 DEF Due, PlayType
<1>5. PICK p : p = position + 1 /\ p \in 1..n /\ p - 1 = position /\ p # 0
  BY <1>4, <1>3
<1>6. PICK x : x = [seq |-> p, age |-> 0]
  OBVIOUS
<1>7. x \in [seq : 0..n, age : 0..MaxDelay] /\ x.seq = p /\ x.age = 0
  BY <1>5, <1>6, RecordingAssumption
<1>8. PICK s, u : /\ s = transit /\ u = transit' /\ u = Append(s, x)
                  /\ s \in Seq([seq : 0..n, age : 0..MaxDelay])
  BY <1>1, <1>2, <1>3, <1>5, <1>6 DEF PlayType, Underway
<1>9. /\ u \in Seq([seq : 0..n, age : 0..MaxDelay]) /\ Len(u) = Len(s) + 1
      /\ Len(s) = 0 => u[1] = x
  BY <1>7, <1>8
<1>10. PlayType'
  BY <1>1, <1>2, <1>3, <1>4, <1>5, <1>8, <1>9 DEF PlayType, Underway
<1>11. ASSUME Told
       PROVE  Len(transit) = 0 /\ box = lastVal /\ box # p /\ Covers(Panels[p - 1], runs)
  <2>1. Stage(position)
    BY <1>4, <1>11 DEF PlayInv
  <2>2. CASE position = 0
    <3>1. Panels[0] = << >>
      BY ONLY <1>3, PanelsAre
    <3>2. Covers(Panels[0], runs)
      BY <3>1, <1>2, CoversNothing DEF PlayType
    <3> QED
      BY <3>2, <2>1, <2>2, <1>5 DEF Stage
  <2>3. CASE position > 0
    <3>1. Len(transit) = 1 => transit[1].age \in 0..MaxDelay
      BY <1>2 DEF Underway
    <3>2. Seen(position)
      BY <3>1, <2>1, <2>3, <1>1, <1>2, YieldsAfter
    <3> QED
      BY <3>2, <1>4, <1>5 DEF Seen
  <2> QED
    BY <2>2, <2>3, <1>4
<1>12. Told => Stage(p)'
  <2>1. SUFFICES ASSUME Told PROVE OnItsWay(p)'
    BY <1>5 DEF Stage
  <2>2. Panels' = Panels
    BY <1>1, PanelsSame
  <2>3. /\ Len(transit') = 1 /\ transit'[1].seq = p /\ transit'[1].age = 0
        /\ now' - lastEmit' = 0
    BY <2>1, <1>1, <1>2, <1>7, <1>8, <1>9, <1>11 DEF PlayType
  <2> QED
    BY <2>1, <2>2, <2>3, <1>1, <1>11 DEF OnItsWay
<1>13. Told' <=> Told
  BY <1>1 DEF Told
<1> QED
  BY <1>1, <1>4, <1>5, <1>10, <1>12, <1>13 DEF PlayInv

LEMMA PlayEnds == ASSUME EventsInv, PlayInv, step = "written", Finish \/ Reset PROVE PlayInv'
<1>1. /\ play # "ready" /\ position' = 0 /\ now' = 0 /\ lastEmit' = 0
      /\ UNCHANGED <<step, events, plays, box, lastVal, pollIn, runs>>
  BY DEF Finish, Reset, GeneratorGone, capture, browser
<1>2. PlayType /\ events \in Seq(Entries) /\ Len(events) \in Nat
  BY PlayFacts
<1>3. Panels' = Panels /\ (Told' <=> Told)
  BY <1>1, PanelsSame DEF Told
<1>4. CASE Finish
  <2>1. /\ play = "replaying" /\ position = Len(events) /\ play' = "complete"
        /\ transit' = transit
    BY <1>4 DEF Finish, browser
  <2>2. PlayType'
    BY <2>1, <1>1, <1>2 DEF PlayType, Underway
  <2>3. Told => Stage(Len(events))'
    <3>1. SUFFICES ASSUME Told PROVE Stage(Len(events))'
      OBVIOUS
    <3>2. Stage(Len(events))
      BY <3>1, <2>1 DEF PlayInv
    <3> QED
      BY <3>2, <2>1, <1>1, <1>3 DEF Stage, OnItsWay, InTheBox, Seen
  <2> QED
    BY <2>1, <2>2, <2>3, <1>1, <1>3 DEF PlayInv
<1>5. CASE Reset
  <2>1. play' = "ready" /\ transit' = Append(transit, [seq |-> NoValue, age |-> 0])
    BY <1>5 DEF Reset
  <2>2. PICK x, n : x = [seq |-> NoValue, age |-> 0] /\ n = Len(events)
    OBVIOUS
  <2>3. x \in [seq : 0..n, age : 0..MaxDelay] /\ x.seq = NoValue
    BY <2>2, <1>2, RecordingAssumption DEF NoValue
  <2>4. PICK s, u : /\ s = transit /\ u = transit' /\ u = Append(s, x)
                    /\ s \in Seq([seq : 0..n, age : 0..MaxDelay])
    BY <2>1, <2>2, <1>2 DEF PlayType, Underway
  <2>5. /\ u \in Seq([seq : 0..n, age : 0..MaxDelay]) /\ Len(u) = Len(s) + 1 /\ Len(s) \in Nat
        /\ u[Len(u)] = x
    BY <2>3, <2>4
  <2>6. PlayType'
    BY <2>1, <2>2, <2>4, <2>5, <1>1, <1>2 DEF PlayType, Underway
  <2>7. Len(transit') # 0 /\ transit'[Len(transit')].seq = NoValue
    BY <2>3, <2>4, <2>5
  <2> QED
    BY <2>1, <2>6, <2>7, <1>1 DEF PlayInv
<1> QED
  BY <1>4, <1>5

LEMMA PlayDeliver == ASSUME EventsInv, PlayInv, step = "written", Deliver PROVE PlayInv'
<1>1. /\ transit # << >> /\ box' = Head(transit).seq /\ transit' = Tail(transit)
      /\ UNCHANGED <<step, events, play, plays, position, now, lastEmit>>
      /\ UNCHANGED <<lastVal, pollIn, runs>>
  BY DEF Deliver, capture, demo
<1>2. /\ PlayType /\ events \in Seq(Entries) /\ Len(events) \in Nat /\ Len(transit) \in Nat
      /\ Len(transit) # 0 /\ \A i \in 1..Len(transit) : transit[i] \in Underway
  BY <1>1, PlayFacts
<1>3. PICK s, u, n : /\ s = transit /\ u = transit' /\ u = Tail(s) /\ n = Len(s)
                     /\ s \in Seq(Underway)
  BY <1>1, <1>2 DEF PlayType
<1>4. /\ n \in Nat \ {0} /\ u \in Seq(Underway) /\ Len(u) = n - 1 /\ Head(s) = s[1]
      /\ \A i \in 1..(n - 1) : u[i] = s[i + 1]
  BY <1>2, <1>3
<1>5. box' = s[1].seq /\ s[1].seq \in 0..Len(events) /\ s[1].age \in 0..MaxDelay
  BY <1>1, <1>2, <1>3, <1>4 DEF Underway
<1>6. PlayType'
  BY <1>1, <1>2, <1>3, <1>4, <1>5 DEF PlayType, Underway
<1>7. Panels' = Panels /\ (Told' <=> Told)
  BY <1>1, PanelsSame DEF Told
<1>8. play = "ready" => IF Len(transit') = 0 THEN box' = NoValue
                        ELSE transit'[Len(transit')].seq = NoValue
  <2>1. SUFFICES ASSUME play = "ready"
                 PROVE  IF n - 1 = 0 THEN box' = NoValue ELSE u[n - 1].seq = NoValue
    BY <1>3, <1>4
  <2>2. s[n].seq = NoValue
    BY <2>1, <1>2, <1>3 DEF PlayInv
  <2>3. CASE n - 1 = 0
    BY <2>2, <2>3, <1>4, <1>5
  <2>4. CASE n - 1 # 0
    <3>1. n - 1 \in 1..(n - 1) /\ (n - 1) + 1 = n
      BY <2>4, <1>4
    <3>2. u[n - 1] = s[n]
      BY <3>1, <1>4
    <3> QED
      BY <3>2, <2>2, <2>4
  <2> QED
    BY <2>3, <2>4
<1>9. ASSUME NEW p \in Nat, Stage(p) PROVE Stage(p)'
  <2>1. OnItsWay(p) /\ p # 0
    BY <1>9, <1>2 DEF Stage, InTheBox, Seen
  <2>2. Len(transit') = 0 /\ box' = p /\ lastVal' # p
    BY <2>1, <1>1, <1>3, <1>4, <1>5 DEF OnItsWay
  <2>3. play' = "replaying" => (now' - lastEmit') + pollIn' <= MaxDelay + PollPeriod
    <3>1. now - lastEmit \in Int /\ pollIn \in 0..PollPeriod
      BY <1>2 DEF PlayType
    <3>2. play = "replaying" => now - lastEmit = s[1].age
      BY <2>1, <1>3 DEF OnItsWay
    <3> QED
      BY <3>1, <3>2, <1>1, <1>5, RecordingAssumption
  <2>4. InTheBox(p)'
    BY <2>1, <2>2, <2>3, <1>1, <1>7 DEF InTheBox, OnItsWay
  <2> QED
    BY <2>1, <2>4 DEF Stage
<1>10. position \in Nat
  BY <1>2 DEF PlayType
<1> QED
  BY <1>1, <1>2, <1>6, <1>7, <1>8, <1>9, <1>10 DEF PlayInv

LEMMA PlayPoll == ASSUME EventsInv, PlayInv, step = "written", Poll PROVE PlayInv'
<1>1. /\ pollIn' = PollPeriod /\ lastVal' = box
      /\ runs' = IF box # lastVal /\ box # NoValue /\ events[box].item.channel = "agent_events"
                   THEN OnAgentEvent(runs, events[box].item) ELSE runs
      /\ UNCHANGED <<step, events, play, plays, position, now, lastEmit, transit, box>>
  BY DEF Poll, capture, demo
<1>2. /\ PlayType /\ events \in Seq(Entries) /\ Len(events) \in Nat
  BY PlayFacts
<1>3. runs' = IF box # lastVal /\ box # 0 THEN Dispatched(runs, events[box]) ELSE runs
  BY <1>1 DEF Dispatched, NoValue
<1>4. runs' \in Seq(Blocks)
  <2>1. runs \in Seq(Blocks)
    BY <1>2 DEF PlayType
  <2>2. box # 0 => events[box] \in Entries
    BY <1>2 DEF PlayType
  <2> QED
    BY <2>1, <2>2, <1>3, DispatchType
<1>5. PlayType'
  BY <1>1, <1>2, <1>4, RecordingAssumption DEF PlayType, Underway
<1>6. Panels' = Panels /\ (Told' <=> Told)
  BY <1>1, PanelsSame DEF Told
<1>7. ASSUME NEW p \in 0..Len(events), Stage(p) PROVE Stage(p)'
  <2>1. CASE p = 0
    BY <2>1, <1>1, <1>7 DEF Stage
  <2>2. CASE OnItsWay(p) /\ p # 0
    <3>1. runs' = runs
      BY <2>2, <1>3 DEF OnItsWay
    <3>2. OnItsWay(p)'
      BY <3>1, <2>2, <1>1, <1>6 DEF OnItsWay
    <3> QED
      BY <3>2, <2>2 DEF Stage
  <2>3. CASE InTheBox(p) /\ p # 0
    <3>1. runs' = Dispatched(runs, events[p]) /\ Covers(Panels[p - 1], runs)
      BY <2>3, <1>3 DEF InTheBox
    <3>2. PICK n : n = Len(events) /\ n \in Nat /\ p \in 1..n /\ p - 1 \in 0..n
      BY <2>3, <1>2
    <3>3. Panels[p - 1] \in Seq(Blocks) /\ runs \in Seq(Blocks) /\ events[p] \in Entries
      BY <3>2, <1>2, PanelsType DEF PlayType
    <3>4. Panels[p] = Dispatched(Panels[p - 1], events[p])
      BY ONLY <3>2, PanelsAre
    <3>5. Covers(Dispatched(Panels[p - 1], events[p]), Dispatched(runs, events[p]))
      BY ONLY <3>1, <3>3, DispatchCovers
    <3>6. Covers(Panels[p], runs')
      BY ONLY <3>1, <3>4, <3>5
    <3>7. Seen(p)'
      BY <3>6, <2>3, <1>1, <1>6 DEF Seen, InTheBox
    <3> QED
      BY <3>7, <2>3 DEF Stage
  <2>4. CASE Seen(p) /\ p # 0
    <3>1. runs' = runs
      BY <2>4, <1>3 DEF Seen
    <3>2. Seen(p)'
      BY <3>1, <2>4, <1>1, <1>6 DEF Seen
    <3> QED
      BY <3>2, <2>4 DEF Stage
  <2> QED
    BY <2>1, <2>2, <2>3, <2>4, <1>7 DEF Stage
<1>8. position \in 0..Len(events) /\ Len(events) \in 0..Len(events)
  BY <1>2 DEF PlayType
<1> QED
  BY <1>1, <1>5, <1>6, <1>7, <1>8 DEF PlayInv

LEMMA PlayTick == ASSUME EventsInv, PlayInv, step = "written", Tick PROVE PlayInv'
<1>1. /\ pollIn > 0 /\ \A i \in DOMAIN transit : transit[i].age < MaxDelay
      /\ now' = IF play = "replaying" THEN now + 1 ELSE now
      /\ pollIn' = pollIn - 1
      /\ transit' = [i \in DOMAIN transit |-> [transit[i] EXCEPT !.age = @ + 1]]
      /\ UNCHANGED <<step, events, play, plays, position, lastEmit, box, lastVal, runs>>
  BY DEF Tick, capture
<1>2. /\ PlayType /\ events \in Seq(Entries) /\ Len(events) \in Nat
      /\ \A i \in 1..Len(transit) : transit[i] \in Underway
  BY PlayFacts
<1>3. PICK s, u, n, m : /\ s = transit /\ u = transit' /\ n = Len(s) /\ n \in Nat
                        /\ DOMAIN s = 1..n /\ m = Len(events) /\ m \in Nat
  <2>1. PICK s \in Seq(Underway) : s = transit
    BY <1>2 DEF PlayType
  <2>2. Len(s) \in Nat /\ DOMAIN s = 1..Len(s)
    OBVIOUS
  <2> QED
    BY <2>1, <2>2, <1>2
<1>4. u = [i \in 1..n |-> [s[i] EXCEPT !.age = @ + 1]]
  BY <1>1, <1>3
<1>5. ASSUME NEW i \in 1..n
      PROVE  /\ u[i] \in [seq : 0..m, age : 0..MaxDelay] /\ u[i].seq = s[i].seq
             /\ u[i].age = s[i].age + 1
  <2>1. PICK x : x = s[i] /\ x \in [seq : 0..m, age : 0..MaxDelay] /\ x.age < MaxDelay
    BY <1>1, <1>2, <1>3 DEF Underway
  <2>2. u[i] = [x EXCEPT !.age = x.age + 1]
    BY <2>1, <1>4
  <2> QED
    BY <2>1, <2>2, RecordingAssumption
<1>6. u \in Seq([seq : 0..m, age : 0..MaxDelay]) /\ Len(u) = n
  <2>1. u = [i \in 1..n |-> u[i]]
    BY ONLY <1>4
  <2>2. \A i \in 1..n : u[i] \in [seq : 0..m, age : 0..MaxDelay]
    BY <1>5
  <2> QED
    BY ONLY <2>1, <2>2, <1>3
<1>7. PlayType'
  <2>1. transit' \in Seq(Underway')
    BY <1>1, <1>3, <1>6 DEF Underway
  <2>2. now' \in Nat /\ lastEmit' <= now' /\ pollIn' \in 0..PollPeriod
    <3>1. /\ now \in Nat /\ lastEmit \in Nat /\ lastEmit <= now
          /\ pollIn \in 0..PollPeriod /\ PollPeriod \in Nat
      BY <1>2, RecordingAssumption DEF PlayType
    <3>2. /\ pollIn > 0 /\ pollIn' = pollIn - 1 /\ lastEmit' = lastEmit
          /\ now' = now \/ now' = now + 1
      BY <1>1
    <3> QED
      BY ONLY <3>1, <3>2
  <2> QED
    BY <2>1, <2>2, <1>1, <1>2 DEF PlayType
<1>8. Panels' = Panels /\ (Told' <=> Told)
  BY <1>1, PanelsSame DEF Told
<1>9. /\ Len(transit') = Len(transit)
      /\ \A i \in 1..Len(transit) : /\ transit'[i].seq = transit[i].seq
                                    /\ transit'[i].age = transit[i].age + 1
  BY <1>3, <1>5, <1>6
<1>10. play = "ready" => IF Len(transit') = 0 THEN box' = NoValue
                         ELSE transit'[Len(transit')].seq = NoValue
  <2>1. SUFFICES ASSUME play = "ready", n # 0 PROVE transit'[n].seq = NoValue
    BY <1>1, <1>3, <1>9 DEF PlayInv
  <2>2. n \in 1..n
    BY <2>1, <1>3
  <2> QED
    BY <2>1, <2>2, <1>3, <1>9 DEF PlayInv
<1>11. ASSUME NEW p \in Nat, Stage(p) PROVE Stage(p)'
  <2>1. CASE p = 0
    BY <2>1, <1>1, <1>9, <1>11 DEF Stage
  <2>2. CASE OnItsWay(p) /\ p # 0
    <3>1. 1 \in 1..Len(transit) /\ transit[1].age \in Nat
      BY <2>2, <1>2 DEF OnItsWay, Underway
    <3>2. transit'[1].seq = p /\ transit'[1].age = transit[1].age + 1 /\ Len(transit') = 1
      BY <3>1, <2>2, <1>9 DEF OnItsWay
    <3>3. play' = "replaying" => now' - lastEmit' = transit'[1].age
      BY <3>1, <3>2, <2>2, <1>1, <1>2 DEF OnItsWay, PlayType
    <3>4. OnItsWay(p)'
      BY <3>2, <3>3, <2>2, <1>1, <1>8 DEF OnItsWay
    <3> QED
      BY <3>4, <2>2 DEF Stage
  <2>3. CASE InTheBox(p) /\ p # 0
    <3>1. play' = "replaying" => (now' - lastEmit') + pollIn' <= MaxDelay + PollPeriod
      <4>1. now \in Nat /\ lastEmit \in Nat /\ pollIn \in Nat
        BY <1>2, RecordingAssumption DEF PlayType
      <4>2. /\ play = "replaying" => (now - lastEmit) + pollIn <= MaxDelay + PollPeriod
            /\ play' = play /\ lastEmit' = lastEmit /\ pollIn' = pollIn - 1
            /\ play = "replaying" => now' = now + 1
        BY <2>3, <1>1 DEF InTheBox
      <4> QED
        BY ONLY <4>1, <4>2
    <3>2. InTheBox(p)'
      BY <3>1, <2>3, <1>1, <1>8, <1>9 DEF InTheBox
    <3> QED
      BY <3>2, <2>3 DEF Stage
  <2>4. CASE Seen(p) /\ p # 0
    <3>1. Seen(p)'
      BY <2>4, <1>1, <1>8, <1>9 DEF Seen
    <3> QED
      BY <3>1, <2>4 DEF Stage
  <2> QED
    BY <2>1, <2>2, <2>3, <2>4, <1>11 DEF Stage
<1>12. position \in Nat
  BY <1>2 DEF PlayType
<1> QED
  BY <1>1, <1>2, <1>7, <1>8, <1>10, <1>11, <1>12 DEF PlayInv

LEMMA PlayNext ==
    EventsInv /\ CaptureInv /\ EventsInv' /\ PlayInv /\ [Next]_vars => PlayInv'
<1> SUFFICES ASSUME EventsInv, CaptureInv, EventsInv', PlayInv, [Next]_vars PROVE PlayInv'
  OBVIOUS
<1>1. CASE \/ SendFrame \/ SendAnomaly \/ \E r \in Runs : SendRunEvent(r)
           \/ \E ch \in Channels : Join(ch) \/ Close(ch) \/ Receive(ch) \/ Leave(ch)
           \/ Trigger \/ Started \/ Stop \/ Write
  <2>1. step # "written" /\ demo' = demo /\ browser' = browser
    BY <1>1 DEF SendFrame, SendAnomaly, SendRunEvent, Send, Join, Close, Receive, Leave,
                Trigger, Started, Stop, Write, EventsInv
  <2>2. Len(events') \in Nat
    <3>1. PICK e : e = events' /\ e \in Seq(Entries)
      BY DEF EventsInv, Orderly
    <3> QED
      BY <3>1
  <2> QED
    BY <2>1, <2>2, PlayBefore
<1>2. CASE Begin
  BY <1>2, PlayBegin
<1>3. CASE Yield \/ Finish \/ Reset \/ Deliver \/ Poll \/ Tick
  <2>1. step = "written"
    BY <1>3, RecordingAssumption DEF Yield, Due, Finish, Reset, Deliver, Poll, Tick, PlayInv
  <2> QED
    BY <2>1, <1>3, PlayYield, PlayEnds, PlayDeliver, PlayPoll, PlayTick
<1>4. CASE Ended \/ UNCHANGED vars
  <2>1. /\ UNCHANGED <<step, events, play, plays, position, now, lastEmit>>
        /\ UNCHANGED <<transit, box, lastVal, pollIn, runs>>
    BY <1>4 DEF Ended, vars, capture, demo, browser
  <2>2. Panels' = Panels
    BY <2>1, PanelsSame
  <2> QED
    BY <2>1, <2>2
       DEF PlayInv, PlayType, Underway, Told, Stage, OnItsWay, InTheBox, Seen
<1> QED
  BY <1>1, <1>2, <1>3, <1>4 DEF Next

-----------------------------------------------------------------------------
(* What it comes to.                                                       *)

LEMMA CoversPrefix ==
    ASSUME NEW s \in Seq(Blocks), NEW t \in Seq(Blocks), Covers(s, t)
    PROVE  IsPrefix(s, t)
<1>1. PICK n, m : n = Len(s) /\ m = Len(t) /\ n \in Nat /\ m \in Nat
  BY EmptyIs
<1>2. n <= m /\ \A i \in 1..n : t[i] = s[i]
  BY <1>1 DEF Covers
<1>3. PICK x, y : x = SubSeq(s, 1, n) /\ y = SubSeq(t, 1, n)
  OBVIOUS
<1>4. /\ x = [i \in 1..n |-> s[i]] /\ y = [i \in 1..n |-> t[i]]
  BY <1>1, <1>2, <1>3
<1>5. x = y
  BY ONLY <1>2, <1>4
<1> QED
  BY <1>1, <1>2, <1>3, <1>5 DEF IsPrefix

\* No check fails: a result is recorded.
LEMMA AnalyzedResult ==
    ASSUME NEW n \in Nat, n = Len(events), events \in Seq(Entries), Analyze = 0
    PROVE  \E j \in 1..n : IsResult(events[j].item)
<1> DEFINE checks == {"pre-onset", "window", "pressure", "valve", "damp", "started",
                      "completed"}
<1>1. FailedChecks \subseteq checks
  BY DEF FailedChecks
<1>2. IsFiniteSet(checks)
  <2>1. /\ IsFiniteSet({})
        /\ \A S, x : IsFiniteSet(S) => IsFiniteSet(S \cup {x})
    BY FS_EmptySet, FS_AddElement
  <2>2. checks = ((((((({} \cup {"pre-onset"}) \cup {"window"}) \cup {"pressure"})
                   \cup {"valve"}) \cup {"damp"}) \cup {"started"}) \cup {"completed"})
    OBVIOUS
  <2> HIDE DEF checks
  <2> QED
    BY <2>1, <2>2
<1> HIDE DEF checks
<1>3. IsFiniteSet(FailedChecks)
  BY <1>1, <1>2, FS_Subset
<1>4. Cardinality(FailedChecks) = 0
  BY DEF Analyze
<1>5. FailedChecks = {}
  BY <1>3, <1>4, FS_EmptySet
<1>6. HasAgentEvent("agent_run_started")
  BY <1>5 DEF FailedChecks
<1>7. HasAgentEvent("agent_run_completed")
  BY <1>5, <1>6 DEF FailedChecks
<1>8. PICK e \in AgentItems : e.item.type = "agent_run_completed"
  BY <1>7 DEF HasAgentEvent
<1>9. e \in ToSet(events) /\ IsResult(e.item)
  BY <1>8 DEF AgentItems, IsResult
<1>10. PICK j \in DOMAIN events : e = events[j]
  BY <1>9 DEF ToSet
<1> QED
  BY <1>9, <1>10

LEMMA PlaybackShows == EventsInv /\ PlayInv => PlaybackShowsRecording
<1> SUFFICES ASSUME EventsInv, PlayInv, play = "complete", transit = << >>, box = lastVal
             PROVE  /\ Told => IsPrefix(Expected, runs)
                    /\ clean /\ Analyze = 0 => \E i \in DOMAIN Expected : HasCard(Expected[i])
  BY DEF PlaybackShowsRecording, Told
<1>1. step = "written"
  BY DEF PlayInv
<1>2. PICK n : n = Len(events) /\ n \in Nat
  BY <1>1, PlayFacts
<1>3. events \in Seq(Entries) /\ PlayType /\ Len(transit) = 0
  BY <1>1, PlayFacts
<1>4. ASSUME Told PROVE IsPrefix(Expected, runs)
  <2>1. Stage(n)
    BY <1>1, <1>2, <1>4 DEF PlayInv
  <2>2. Panels[0] = << >> /\ Panels[n] \in Seq(Blocks) /\ runs \in Seq(Blocks)
    <3>1. n \in 0..n
      BY <1>2
    <3> QED
      BY <3>1, <1>2, <1>3, PanelsAre, PanelsType DEF PlayType
  <2>3. Covers(Panels[n], runs)
    <3>1. CASE n = 0
      BY <3>1, <2>2, CoversNothing
    <3>2. CASE n # 0
      BY <3>2, <2>1, <1>3 DEF Stage, OnItsWay, InTheBox, Seen
    <3> QED
      BY <3>1, <3>2
  <2> QED
    BY <2>2, <2>3, <1>2, CoversPrefix DEF Expected
<1>5. ASSUME clean, Analyze = 0
      PROVE  \E i \in DOMAIN Expected : HasCard(Expected[i])
  <2>1. Orderly(events) /\ Begun(events)
    BY <1>5 DEF EventsInv
  <2>2. PICK j \in 1..n : IsResult(events[j].item)
    BY <1>2, <1>3, <1>5, AnalyzedResult
  <2> QED
    BY <2>1, <2>2, <1>2, CardShown
<1> QED
  BY <1>4, <1>5

\* A complete playback has shown the recording, and the analysis vouches for
\* its diagnosis.
THEOREM PlaybackCorrect == Spec => []PlaybackShowsRecording
<1>1. Init => CaptureInv /\ EventsInv /\ PlayInv
  BY CaptureInit, EventsInit, PlayInit
<1>2. CaptureInv /\ EventsInv /\ PlayInv /\ [Next]_vars
         => CaptureInv' /\ EventsInv' /\ PlayInv'
  BY CaptureNext, EventsNext, PlayNext
<1> QED
  BY <1>1, <1>2, PlaybackShows, PTL DEF Spec
=============================================================================
