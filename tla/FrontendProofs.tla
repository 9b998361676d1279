--------------------------- MODULE FrontendProofs ---------------------------
(***************************************************************************)
(* Theorems about Frontend, for any number of runs, calls and faults.      *)
(*                                                                         *)
(* The argument has three parts, each an inductive invariant that rests on *)
(* the ones before it: what the events of a run look like (LogInv), where  *)
(* they are on the way to the page (WayInv), and what the panel has made   *)
(* of those that arrived (PanelInv).                                       *)
(***************************************************************************)
EXTENDS Frontend, TLAPS, FiniteSetTheorems, SequenceTheorems

-----------------------------------------------------------------------------
(* Types.                                                                  *)

ToolTypes == {"tool_call_started", "tool_call_completed"}
LastTypes == {"agent_run_completed", "agent_run_failed"}
RunTypes  == {"agent_run_started", "hypothesis_ladder_updated"}
                 \cup ToolTypes \cup LastTypes

Event == [type : RunTypes, of : Calls \cup {NoCall}]

Items == [type : RunTypes \cup {"none", "frame", "anomaly"},
          run : Runs \cup {NoRun}, of : Calls \cup Sensors \cup {NoCall},
          n : Nat]

Block == [run : Runs, status : {"running", "completed", "failed"},
          toolCalls : UNION {[S -> {"open", "done"}] : S \in SUBSET Calls},
          toolOrder : Seq(Calls), hypotheses : BOOLEAN, diagnosis : BOOLEAN,
          failReason : BOOLEAN]

TypeInv ==
    /\ emitted \in [Runs -> Seq(Event)]
    /\ sent \in Nat /\ clock \in Nat /\ taken \in [Runs -> Nat]
    /\ wire \in Seq(Items) /\ queue \in Seq(Items) /\ box \in Items
    /\ runs \in Seq(Block)

-----------------------------------------------------------------------------
(* The events of a run.                                                    *)

\* A run begins with its start and ends with its last event.
LogInv ==
    \A r \in Runs : \A i \in DOMAIN emitted[r] :
        /\ emitted[r][i].type = "agent_run_started" <=> i = 1
        /\ emitted[r][i].type \in LastTypes => i = Len(emitted[r])
        /\ emitted[r][i].type \in ToolTypes => emitted[r][i].of \in Calls
        /\ emitted[r][i].type \in LastTypes \cup {"agent_run_started"} =>
               emitted[r][i].of = NoCall

\* What an emission adds to the events of its run.
Emission(r, e) ==
    /\ e \in Event
    /\ emitted' = [emitted EXCEPT ![r] = Append(@, e)]
    /\ emitted[r] = <<>> <=> e.type = "agent_run_started"
    /\ emitted[r] # <<>> => emitted[r][Len(emitted[r])].type \notin LastTypes
    /\ e.type \in ToolTypes => e.of \in Calls
    /\ e.type \in LastTypes \cup {"agent_run_started"} => e.of = NoCall
    /\ Broadcast(Item(e.type, r, e.of, Len(emitted[r]) + 1))

LEMMA EmitFacts ==
    ASSUME TypeInv, NEW r \in Runs, Emit(r)
    PROVE  \E e \in Event : Emission(r, e)
<1>1. PICK type \in RunTypes, of \in Calls \cup {NoCall} :
          /\ type \in ToolTypes => of \in Calls
          /\ type \in LastTypes \cup {"agent_run_started"} => of = NoCall
          /\ Of(r)!Follows([type |-> type, of |-> of])
          /\ emitted' = [emitted EXCEPT
                 ![r] = Append(@, [type |-> type, of |-> of])]
          /\ Broadcast(Item(type, r, of, Len(emitted[r]) + 1))
  BY Zenon DEF Emit, RunTypes, ToolTypes, LastTypes
<1> DEFINE e == [type |-> type, of |-> of]
<1>2. e \in Event /\ e.type = type /\ e.of = of
  BY <1>1 DEF Event
<1>3. Of(r)!Follows(e)
  BY <1>1
<1>4. /\ emitted[r] = <<>> <=> type = "agent_run_started"
      /\ emitted[r] # <<>> => emitted[r][Len(emitted[r])].type \notin LastTypes
  <2> HIDE DEF e
  <2>1. \/ e.type = "agent_run_started" /\ emitted[r] = <<>>
        \/ /\ e.type # "agent_run_started" /\ emitted[r] # <<>>
           /\ \/ Of(r)!BetweenCalls \/ Of(r)!InCall \/ Of(r)!Concluding
              \/ Of(r)!TypeOf(Of(r)!Last) = "tool_call_started"
    BY <1>3, Zenon DEF Of!Follows
  <2> QED
    BY <1>2, <2>1, SMT
       DEF Of!InCall, Of!Concluding, Of!BetweenCalls, Of!TypeOf, Of!Last, LastTypes
<1>5. Emission(r, e)
  BY <1>1, <1>2, <1>4 DEF Emission
<1> QED
  BY <1>2, <1>5

LEMMA EmissionTypes ==
    ASSUME TypeInv, NEW r \in Runs, NEW e \in Event, Emission(r, e)
    PROVE  /\ emitted' \in [Runs -> Seq(Event)]
           /\ Len(emitted'[r]) = Len(emitted[r]) + 1
           /\ emitted'[r][Len(emitted[r]) + 1] = e
           /\ \A q \in Runs : q # r => emitted'[q] = emitted[q]
           /\ \A q \in Runs : /\ Len(emitted[q]) <= Len(emitted'[q])
                             /\ \A i \in DOMAIN emitted[q] :
                                   /\ i \in DOMAIN emitted'[q]
                                   /\ emitted'[q][i] = emitted[q][i]
<1>1. emitted[r] \in Seq(Event)
  BY DEF TypeInv
<1>2. /\ emitted'[r] = Append(emitted[r], e)
      /\ \A q \in Runs : q # r => emitted'[q] = emitted[q]
      /\ emitted' \in [Runs -> Seq(Event)]
  BY <1>1 DEF TypeInv, Emission
<1>3. /\ Len(emitted'[r]) = Len(emitted[r]) + 1
      /\ emitted'[r][Len(emitted[r]) + 1] = e
      /\ \A i \in DOMAIN emitted[r] :
            i \in DOMAIN emitted'[r] /\ emitted'[r][i] = emitted[r][i]
  BY <1>1, <1>2
<1>4. \A q \in Runs : Len(emitted[q]) \in Nat
  BY DEF TypeInv
<1> QED
  BY <1>2, <1>3, <1>4

LEMMA EmissionLog ==
    ASSUME TypeInv, LogInv, NEW r \in Runs, NEW e \in Event, Emission(r, e)
    PROVE  LogInv'
<1> USE DEF LogInv
<1> SUFFICES ASSUME NEW q \in Runs, NEW i \in DOMAIN emitted'[q]
             PROVE  /\ emitted'[q][i].type = "agent_run_started" <=> i = 1
                    /\ emitted'[q][i].type \in LastTypes => i = Len(emitted'[q])
                    /\ emitted'[q][i].type \in ToolTypes => emitted'[q][i].of \in Calls
                    /\ emitted'[q][i].type \in LastTypes \cup {"agent_run_started"} =>
                           emitted'[q][i].of = NoCall
  OBVIOUS
<1>1. emitted[r] \in Seq(Event) /\ emitted'[r] \in Seq(Event)
  BY EmissionTypes DEF TypeInv
<1>2. CASE q # r
  BY <1>2, EmissionTypes
<1>3. CASE q = r /\ i = Len(emitted[r]) + 1
  BY <1>1, <1>3, EmissionTypes DEF Emission
<1>4. CASE q = r /\ i \in DOMAIN emitted[r]
  <2>1. emitted[r][i].type \notin LastTypes
    BY <1>1, <1>4 DEF Emission
  <2>2. \A j \in 1..i : emitted'[r][j] = emitted[r][j]
    BY <1>1, <1>4, EmissionTypes
  <2> QED
    BY SMTT(30), <1>1, <1>4, <2>1, <2>2
<1> QED
  BY <1>1, <1>2, <1>3, <1>4, EmissionTypes

-----------------------------------------------------------------------------
(* The way.                                                                *)

Before(x, y) ==
    /\ x.run \in Runs /\ x.run = y.run => x.n < y.n
    /\ x.type = "frame" /\ y.type = "frame" => x.n < y.n

\* An item is an event its run has emitted, or a frame, that the page has
\* not seen and that is newer than all it has seen.
Fresh(x) ==
    /\ x.type \in RunTypes <=> x.run \in Runs
    /\ x.run \in Runs => /\ x.n \in DOMAIN emitted[x.run]
                         /\ emitted[x.run][x.n] = [type |-> x.type, of |-> x.of]
                         /\ taken[x.run] < x.n
    /\ x.type = "frame" => clock < x.n /\ x.n <= sent

\* The box comes before the queue and the queue before the wire, on which
\* there are no frames.
WayInv ==
    /\ Fresh(box)
    /\ \A i \in DOMAIN queue : Fresh(queue[i])
    /\ \A i \in DOMAIN wire : Fresh(wire[i]) /\ wire[i].type # "frame"
    /\ \A i \in DOMAIN queue : Before(box, queue[i])
    /\ \A i \in DOMAIN wire : Before(box, wire[i])
    /\ \A i, j \in DOMAIN queue : i < j => Before(queue[i], queue[j])
    /\ \A i \in DOMAIN queue, j \in DOMAIN wire : Before(queue[i], wire[j])
    /\ \A i, j \in DOMAIN wire : i < j => Before(wire[i], wire[j])
    /\ \A r \in Runs : taken[r] <= Len(emitted[r])
    /\ clock <= sent

\* The runs and the pipeline only add to what they have emitted.
Grows ==
    /\ emitted' \in [Runs -> Seq(Event)]
    /\ \A q \in Runs : /\ Len(emitted[q]) <= Len(emitted'[q])
                      /\ \A i \in DOMAIN emitted[q] :
                            /\ i \in DOMAIN emitted'[q]
                            /\ emitted'[q][i] = emitted[q][i]
    /\ sent' \in Nat /\ sent <= sent'

LEMMA FreshStays ==
    ASSUME TypeInv, Grows, taken' = taken, clock' = clock
    PROVE  \A x \in Items : Fresh(x) => Fresh(x)'
<1> SUFFICES ASSUME NEW x \in Items, Fresh(x) PROVE Fresh(x)'
  OBVIOUS
<1>1. x.n \in Nat /\ sent \in Nat /\ clock \in Nat
  BY DEF TypeInv, Items
<1> QED
  BY <1>1 DEF Fresh, Grows

\* A broadcast puts an item behind the others.
LEMMA BroadcastWay ==
    ASSUME TypeInv, WayInv, Grows, NEW x \in Items, Broadcast(x), Fresh(x)',
           taken' = taken, clock' = clock, queue' = queue, box' = box,
           x.type # "frame",
           \A y \in Items : Fresh(y) => Before(y, x)
    PROVE  WayInv' /\ wire' \in Seq(Items)
<1>1. /\ wire \in Seq(Items) /\ queue \in Seq(Items) /\ box \in Items
      /\ \A q \in Runs : taken[q] \in Nat /\ Len(emitted[q]) \in Nat
      /\ clock \in Nat /\ sent \in Nat
  BY DEF TypeInv
<1>2. wire' = wire \/ wire' = Append(wire, x)
  BY DEF Broadcast
<1>3. wire' \in Seq(Items)
  BY <1>1, <1>2
<1>4. \A i \in DOMAIN wire' :
         \/ i \in DOMAIN wire /\ wire'[i] = wire[i]
         \/ i = Len(wire) + 1 /\ wire'[i] = x
  BY <1>1, <1>2
<1>5. Fresh(box)' /\ \A i \in DOMAIN queue' : Fresh(queue[i])'
  BY <1>1, FreshStays DEF WayInv, Fresh
<1>6. \A i \in DOMAIN wire' : Fresh(wire[i])' /\ wire'[i].type # "frame"
  <2> SUFFICES ASSUME NEW i \in DOMAIN wire'
               PROVE  Fresh(wire[i])' /\ wire'[i].type # "frame"
    OBVIOUS
  <2>1. CASE i \in DOMAIN wire /\ wire'[i] = wire[i]
    BY <1>1, <2>1, FreshStays DEF WayInv, Fresh
  <2>2. CASE wire'[i] = x
    BY <2>2 DEF Fresh
  <2> QED
    BY <1>4, <2>1, <2>2
<1>7. /\ \A i \in DOMAIN wire' : Before(box, wire'[i])
      /\ \A i \in DOMAIN queue, j \in DOMAIN wire' : Before(queue[i], wire'[j])
  BY <1>1, <1>4 DEF WayInv
<1>8. \A i, j \in DOMAIN wire' : i < j => Before(wire'[i], wire'[j])
  BY <1>1, <1>3, <1>4 DEF WayInv
<1>9. (\A q \in Runs : taken'[q] <= Len(emitted'[q])) /\ clock' <= sent'
  BY <1>1 DEF WayInv, Grows
<1> QED
  BY <1>3, <1>5, <1>6, <1>7, <1>8, <1>9 DEF WayInv, Before

LEMMA EmitGrows ==
    ASSUME TypeInv, NEW r \in Runs, NEW e \in Event, Emission(r, e), sent' = sent
    PROVE  Grows
  BY EmissionTypes DEF TypeInv, Grows

LEMMA EmitWay ==
    ASSUME TypeInv, WayInv, NEW r \in Runs, Emit(r)
    PROVE  WayInv' /\ wire' \in Seq(Items)
<1>1. PICK e \in Event : Emission(r, e)
  BY EmitFacts
<1>2. /\ sent' = sent /\ taken' = taken /\ clock' = clock /\ queue' = queue
      /\ box' = box
  BY DEF Emit, server, page
<1>3. emitted[r] \in Seq(Event) /\ taken[r] \in Nat
  BY DEF TypeInv
<1>4. PICK x \in Items : /\ x = Item(e.type, r, e.of, Len(emitted[r]) + 1)
                        /\ x.type = e.type /\ x.of = e.of /\ x.run = r
                        /\ x.n = Len(emitted[r]) + 1
  <2> DEFINE y == Item(e.type, r, e.of, Len(emitted[r]) + 1)
  <2>1. /\ y = Item(e.type, r, e.of, Len(emitted[r]) + 1)
        /\ y \in Items /\ y.type = e.type /\ y.of = e.of /\ y.run = r
        /\ y.n = Len(emitted[r]) + 1
    BY <1>3 DEF Items, Item, Event
  <2> HIDE DEF y
  <2> QED
    BY <2>1
<1>5. x.type \in RunTypes /\ e = [type |-> x.type, of |-> x.of]
  BY <1>4 DEF Event
<1>6. Broadcast(x)
  BY <1>1, <1>4 DEF Emission
<1>7. x.type # "frame"
  BY <1>5 DEF RunTypes, ToolTypes, LastTypes
<1>8. \A y \in Items : Fresh(y) => Before(y, x)
  BY <1>3, <1>4, <1>7 DEF Fresh, Before
<1>9. Grows
  BY <1>1, <1>2, EmitGrows
<1>10. Fresh(x)'
  <2>1. Len(emitted'[r]) = Len(emitted[r]) + 1 /\ emitted'[r][x.n] = e
    BY <1>1, <1>4, EmissionTypes
  <2>2. emitted'[r] \in Seq(Event)
    BY <1>9 DEF Grows
  <2>3. x.n \in DOMAIN emitted'[r] /\ taken[r] < x.n
    BY <1>3, <1>4, <2>1, <2>2 DEF WayInv
  <2> QED
    BY <1>2, <1>4, <1>5, <1>7, <2>1, <2>3 DEF Fresh
<1> QED
  BY <1>2, <1>4, <1>6, <1>7, <1>8, <1>9, <1>10, BroadcastWay

LEMMA EmitAnomalyWay ==
    ASSUME TypeInv, WayInv, EmitAnomaly
    PROVE  WayInv' /\ wire' \in Seq(Items)
<1>1. PICK s \in Sensors : Broadcast(Item("anomaly", NoRun, s, 0))
  BY DEF EmitAnomaly
<1>2. /\ sent \in Nat /\ sent' = sent /\ emitted' = emitted
      /\ taken' = taken /\ clock' = clock /\ queue' = queue /\ box' = box
  BY DEF TypeInv, EmitAnomaly, sources, server, page
<1>3. PICK x \in Items : /\ x = Item("anomaly", NoRun, s, 0)
                        /\ x.type = "anomaly" /\ x.run = NoRun
  <2> DEFINE y == Item("anomaly", NoRun, s, 0)
  <2>1. /\ y = Item("anomaly", NoRun, s, 0)
        /\ y \in Items /\ y.type = "anomaly" /\ y.run = NoRun
    BY <1>2 DEF Items, Item
  <2> HIDE DEF y
  <2> QED
    BY <2>1
<1>4. NoRun \notin Runs /\ x.type \notin RunTypes
  BY <1>3 DEF NoRun, Runs, RunTypes, ToolTypes, LastTypes
<1>5. Grows
  BY <1>2 DEF TypeInv, Grows
<1>6. Fresh(x)'
  BY <1>3, <1>4 DEF Fresh
<1>7. \A y \in Items : Fresh(y) => Before(y, x)
  BY <1>3, <1>4 DEF Before
<1>8. Broadcast(x) /\ x.type # "frame"
  BY <1>1, <1>3
<1> QED
  BY <1>2, <1>5, <1>6, <1>7, <1>8, BroadcastWay

\* A frame is newer than the other frames and is put behind them.
LEMMA EmitFrameWay ==
    ASSUME TypeInv, WayInv, EmitFrame
    PROVE  WayInv' /\ queue' \in Seq(Items)
<1>1. /\ wire \in Seq(Items) /\ queue \in Seq(Items) /\ box \in Items
      /\ clock \in Nat /\ sent \in Nat
  BY DEF TypeInv
<1>2. /\ emitted' = emitted /\ sent' = sent + 1 /\ wire' = wire /\ box' = box
      /\ taken' = taken /\ clock' = clock
  BY DEF EmitFrame, network, page, history
<1>3. PICK x \in Items : /\ x = Item("frame", NoRun, NoCall, sent + 1)
                        /\ x.type = "frame" /\ x.run = NoRun /\ x.n = sent + 1
  <2> DEFINE y == Item("frame", NoRun, NoCall, sent + 1)
  <2>1. /\ y = Item("frame", NoRun, NoCall, sent + 1)
        /\ y \in Items /\ y.type = "frame" /\ y.run = NoRun /\ y.n = sent + 1
    BY <1>1 DEF Items, Item
  <2> HIDE DEF y
  <2> QED
    BY <2>1
<1>4. queue' = Append(queue, x)
  BY <1>3 DEF EmitFrame
<1>5. /\ queue' \in Seq(Items)
      /\ \A i \in DOMAIN queue' :
            \/ i \in DOMAIN queue /\ queue'[i] = queue[i]
            \/ i = Len(queue) + 1 /\ queue'[i] = x
  BY <1>1, <1>4
<1>6. NoRun \notin Runs /\ x.type \notin RunTypes
  BY <1>3 DEF NoRun, Runs, RunTypes, ToolTypes, LastTypes
<1>7. Grows
  BY <1>1, <1>2 DEF TypeInv, Grows
<1>8. /\ Fresh(box)'
      /\ \A i \in DOMAIN wire' : Fresh(wire[i])' /\ wire'[i].type # "frame"
  BY <1>1, <1>2, <1>7, FreshStays DEF WayInv, Fresh
<1>9. Fresh(x)'
  BY <1>1, <1>2, <1>3, <1>6 DEF Fresh, WayInv
<1>10. \A i \in DOMAIN queue' : Fresh(queue[i])'
  <2> SUFFICES ASSUME NEW i \in DOMAIN queue' PROVE Fresh(queue[i])'
    OBVIOUS
  <2>1. CASE i \in DOMAIN queue /\ queue'[i] = queue[i]
    BY <1>1, <1>2, <1>7, <2>1, FreshStays DEF WayInv, Fresh
  <2>2. CASE queue'[i] = x
    BY <1>9, <2>2 DEF Fresh
  <2> QED
    BY <1>5, <2>1, <2>2
<1>11. \A y \in Items : Fresh(y) => Before(y, x)
  BY <1>1, <1>3, <1>6 DEF Fresh, Before, Items
<1>12. /\ \A i \in DOMAIN queue' : Before(box, queue'[i])
       /\ \A i, j \in DOMAIN queue' : i < j => Before(queue'[i], queue'[j])
  BY SMTT(30), <1>1, <1>5, <1>11 DEF WayInv
<1>13. \A i \in DOMAIN queue', j \in DOMAIN wire : Before(queue'[i], wire[j])
  <2>1. \A j \in DOMAIN wire : Before(x, wire[j])
    BY <1>3, <1>6 DEF Before, WayInv
  <2> QED
    BY <1>5, <2>1 DEF WayInv
<1>14. /\ \A i \in DOMAIN wire : Before(box, wire[i])
       /\ \A i, j \in DOMAIN wire : i < j => Before(wire[i], wire[j])
       /\ \A q \in Runs : taken[q] <= Len(emitted[q])
       /\ clock <= sent'
  BY <1>1, <1>2 DEF WayInv
<1> QED
  BY <1>2, <1>5, <1>8, <1>10, <1>12, <1>13, <1>14 DEF WayInv, Before

\* The box is empty, or what was in it is forgotten.
LEMMA EmptyBox ==
    /\ NoItem \in Items /\ NoItem.type = "none" /\ NoItem.run \notin Runs
    /\ NoItem.type \notin RunTypes
  BY DEF NoItem, Item, Items, NoRun, Runs, RunTypes, ToolTypes, LastTypes

LEMMA ReceiveWay ==
    ASSUME TypeInv, WayInv, Receive
    PROVE  WayInv' /\ queue' \in Seq(Items) /\ wire' \in Seq(Items)
<1>1. /\ wire \in Seq(Items) /\ queue \in Seq(Items) /\ box \in Items
      /\ wire # <<>>
  BY DEF TypeInv, Receive
<1>2. /\ emitted' = emitted /\ sent' = sent /\ box' = box
      /\ taken' = taken /\ clock' = clock
      /\ queue' = Append(queue, Head(wire)) /\ wire' = Tail(wire)
  BY DEF Receive, Put, sources, page, history
<1>3. /\ wire' \in Seq(Items) /\ Len(wire') = Len(wire) - 1
      /\ \A i \in DOMAIN wire' : i + 1 \in DOMAIN wire /\ wire'[i] = wire[i + 1]
  BY <1>1, <1>2
<1>4. /\ queue' \in Seq(Items) /\ 1 \in DOMAIN wire
      /\ \A i \in DOMAIN queue' :
            \/ i \in DOMAIN queue /\ queue'[i] = queue[i]
            \/ i = Len(queue) + 1 /\ queue'[i] = wire[1]
  BY <1>1, <1>2
<1>5. /\ \A i \in DOMAIN queue' : Fresh(queue'[i]) /\ Before(box, queue'[i])
      /\ \A i \in DOMAIN wire' : /\ Fresh(wire'[i]) /\ Before(box, wire'[i])
                                /\ wire'[i].type # "frame"
  BY <1>3, <1>4 DEF WayInv
<1>6. \A i, j \in DOMAIN queue' : i < j => Before(queue'[i], queue'[j])
  BY <1>1, <1>4 DEF WayInv
<1>7. \A i \in DOMAIN queue', j \in DOMAIN wire' : Before(queue'[i], wire'[j])
  <2>1. \A j \in DOMAIN wire' : 1 < j + 1
    BY <1>3
  <2> QED
    BY <1>3, <1>4, <2>1 DEF WayInv
<1>8. \A i, j \in DOMAIN wire' : i < j => Before(wire'[i], wire'[j])
  BY <1>3 DEF WayInv
<1> QED
  BY ZenonT(40), <1>2, <1>3, <1>4, <1>5, <1>6, <1>7, <1>8 DEF WayInv, Before, Fresh

LEMMA YieldWay ==
    ASSUME TypeInv, WayInv, Yield
    PROVE  WayInv' /\ queue' \in Seq(Items) /\ box' \in Items
<1>1. /\ wire \in Seq(Items) /\ queue \in Seq(Items) /\ queue # <<>>
  BY DEF TypeInv, Yield
<1>2. /\ emitted' = emitted /\ sent' = sent /\ wire' = wire
      /\ taken' = taken /\ clock' = clock
      /\ box' = queue[1] /\ queue' = Tail(queue)
  BY <1>1 DEF Yield, sources, network, page
<1>3. /\ queue' \in Seq(Items) /\ 1 \in DOMAIN queue
      /\ \A i \in DOMAIN queue' :
            i + 1 \in DOMAIN queue /\ 1 < i + 1 /\ queue'[i] = queue[i + 1]
  BY <1>1, <1>2
<1>4. /\ Fresh(box')
      /\ \A i \in DOMAIN queue' : Fresh(queue'[i]) /\ Before(box', queue'[i])
      /\ \A i \in DOMAIN wire : Before(box', wire[i])
  BY <1>2, <1>3 DEF WayInv
<1>5. /\ \A i, j \in DOMAIN queue' : i < j => Before(queue'[i], queue'[j])
      /\ \A i \in DOMAIN queue', j \in DOMAIN wire : Before(queue'[i], wire[j])
  BY <1>3 DEF WayInv
<1>6. box' \in Items
  BY <1>1, <1>2
<1> QED
  BY <1>2, <1>3, <1>4, <1>5, <1>6 DEF WayInv, Before, Fresh

\* What the poll dispatches comes before all that is left.
LEMMA PollWay ==
    ASSUME TypeInv, WayInv, Poll
    PROVE  WayInv' /\ box' \in Items /\ taken' \in [Runs -> Nat] /\ clock' \in Nat
<1>1. /\ wire \in Seq(Items) /\ queue \in Seq(Items) /\ box \in Items
      /\ clock \in Nat /\ sent \in Nat /\ taken \in [Runs -> Nat]
      /\ box.n \in Nat /\ \A q \in Runs : Len(emitted[q]) \in Nat
  BY DEF TypeInv, Items
<1>2. /\ emitted' = emitted /\ sent' = sent /\ wire' = wire /\ queue' = queue
      /\ box' = NoItem
  BY DEF Poll, Seen, sources, network
<1>3. CASE box.type = "frame"
  <2>1. clock' = box.n /\ taken' = taken
    BY <1>3 DEF Poll
  <2>2. \A y \in Items : Fresh(y) /\ Before(box, y) => Fresh(y)'
    BY <1>1, <1>2, <1>3, <2>1 DEF Fresh, Before
  <2>3. /\ \A i \in DOMAIN queue : Fresh(queue[i])' /\ queue'[i] = queue[i]
        /\ \A i \in DOMAIN wire : Fresh(wire[i])' /\ wire'[i] = wire[i]
    BY <1>1, <1>2, <2>2 DEF WayInv, Fresh
  <2>4. clock' <= sent'
    BY <1>2, <1>3, <2>1 DEF WayInv, Fresh
  <2>5. Fresh(box)'
    BY <1>2, EmptyBox DEF Fresh
  <2> QED
    BY <1>1, <1>2, <2>1, <2>3, <2>4, <2>5, EmptyBox DEF WayInv, Before
<1>4. CASE box.type # "frame"
  <2>1. /\ clock' = clock
        /\ taken' = IF box.run \in Runs THEN [taken EXCEPT ![box.run] = box.n]
                    ELSE taken
    BY <1>4 DEF Poll
  <2>2. taken' \in [Runs -> Nat]
    BY <1>1, <2>1
  <2>3. \A y \in Items : Fresh(y) /\ Before(box, y) => Fresh(y)'
    BY <1>1, <1>2, <2>1 DEF Fresh, Before
  <2>4. /\ \A i \in DOMAIN queue : Fresh(queue[i])' /\ queue'[i] = queue[i]
        /\ \A i \in DOMAIN wire : Fresh(wire[i])' /\ wire'[i] = wire[i]
    BY <1>1, <1>2, <2>3 DEF WayInv, Fresh
  <2>5. \A q \in Runs : taken'[q] <= Len(emitted'[q])
    <3>1. box.run \in Runs => box.n <= Len(emitted[box.run])
      <4> SUFFICES ASSUME box.run \in Runs PROVE box.n <= Len(emitted[box.run])
        OBVIOUS
      <4>1. emitted[box.run] \in Seq(Event)
        BY DEF TypeInv
      <4> QED
        BY <4>1 DEF WayInv, Fresh
    <3> QED
      BY <1>1, <1>2, <2>1, <3>1 DEF WayInv
  <2>6. Fresh(box)'
    BY <1>2, EmptyBox DEF Fresh
  <2> QED
    BY <1>1, <1>2, <2>1, <2>2, <2>4, <2>5, <2>6, EmptyBox DEF WayInv, Before
<1> QED
  BY <1>3, <1>4

\* Less on the way, and all else as it was or, on a new page, at its start.
LEMMA LostWay ==
    ASSUME TypeInv, WayInv, Break \/ Reload
    PROVE  /\ WayInv' /\ wire' = <<>> /\ queue' \in Seq(Items) /\ box' \in Items
           /\ clock' \in Nat
<1>1. /\ emitted' = emitted /\ sent' = sent /\ taken' = taken /\ wire' = <<>>
      /\ DOMAIN wire' = {}
  BY DEF Break, Reload, sources
<1>2. queue \in Seq(Items) /\ box \in Items /\ clock \in Nat /\ sent \in Nat
  BY DEF TypeInv
<1>3. CASE Break
  <2>1. queue' = queue /\ box' = box /\ clock' = clock
    BY <1>3 DEF Break, server, page
  <2> QED
    BY <1>1, <1>2, <2>1 DEF WayInv, Before, Fresh
<1>4. CASE Reload
  <2>1. queue' = <<>> /\ DOMAIN queue' = {} /\ box' = NoItem /\ clock' = 0
    BY <1>4 DEF Reload
  <2>2. Fresh(box)'
    BY <2>1, EmptyBox DEF Fresh
  <2>3. queue' \in Seq(Items) /\ box' \in Items /\ clock' \in Nat /\ clock' <= sent'
    BY <1>1, <1>2, <2>1, EmptyBox
  <2> QED
    BY <1>1, <2>1, <2>2, <2>3 DEF WayInv
<1> QED
  BY <1>3, <1>4

-----------------------------------------------------------------------------
(* The panel.                                                              *)

\* Event e is among the first n of a log.
Told(log, n, e) == \E k \in 1..n : k \in DOMAIN log /\ log[k] = e

\* The log of a block is a set of calls, each listed once.
WellListed(b) ==
    /\ IsFiniteSet(DOMAIN b.toolCalls)
    /\ Cardinality(DOMAIN b.toolCalls) = Len(b.toolOrder)
    /\ \A k \in DOMAIN b.toolOrder : b.toolOrder[k] \in DOMAIN b.toolCalls

\* A block tells what the page was told, the first n events of its run.
Faithful(b, log, n) ==
    /\ Told(log, n, [type |-> "agent_run_started", of |-> NoCall])
    /\ b.diagnosis <=> b.status = "completed"
    /\ b.diagnosis =>
           Told(log, n, [type |-> "agent_run_completed", of |-> NoCall])
    /\ b.failReason =>
           /\ b.status = "failed"
           /\ Told(log, n, [type |-> "agent_run_failed", of |-> NoCall])
    /\ \A c \in DOMAIN b.toolCalls :
           IF b.toolCalls[c] = "done"
             THEN Told(log, n, [type |-> "tool_call_completed", of |-> c])
             ELSE Told(log, n, [type |-> "tool_call_started", of |-> c])
    /\ WellListed(b)

PanelInv ==
    /\ Len(runs) <= MaxShown
    /\ \A i \in DOMAIN runs :
           Faithful(runs[i], emitted[runs[i].run], taken[runs[i].run])
    /\ \A i \in DOMAIN runs : runs[i].status = "running" => i = 1
    /\ \A i, j \in DOMAIN runs : runs[i].run = runs[j].run => i = j

FrontendInv == TypeInv /\ LogInv /\ WayInv /\ PanelInv

LEMMA ToldMore ==
    ASSUME NEW log, NEW longer, NEW n \in Nat, NEW m \in Nat, n <= m,
           \A i \in DOMAIN log : i \in DOMAIN longer /\ longer[i] = log[i]
    PROVE  /\ \A e : Told(log, n, e) => Told(longer, m, e)
           /\ \A b : Faithful(b, log, n) => Faithful(b, longer, m)
<1>1. \A e : Told(log, n, e) => Told(longer, m, e)
  BY DEF Told
<1> QED
  BY <1>1 DEF Faithful

LEMMA NewBlockFacts ==
    ASSUME NEW r \in Runs
    PROVE  /\ NewBlock(r) \in Block /\ NewBlock(r).run = r
           /\ NewBlock(r).status = "running"
           /\ NewBlock(r).diagnosis = FALSE /\ NewBlock(r).failReason = FALSE
           /\ DOMAIN NewBlock(r).toolCalls = {} /\ WellListed(NewBlock(r))
<1> DEFINE b == NewBlock(r)
<1>1. /\ b.run = r /\ b.status = "running" /\ b.diagnosis = FALSE
      /\ b.failReason = FALSE /\ b.toolCalls = <<>> /\ b.toolOrder = <<>>
  BY DEF NewBlock
<1>2. DOMAIN <<>> = {} /\ Len(<<>>) = 0
  OBVIOUS
<1>3. <<>> \in [{} -> {"open", "done"}]
  OBVIOUS
<1>4. <<>> \in UNION {[S -> {"open", "done"}] : S \in SUBSET Calls}
  BY <1>3
<1>5. b \in Block
  BY <1>4 DEF NewBlock, Block
<1>6. WellListed(b)
  BY <1>1, <1>2, FS_EmptySet DEF WellListed
<1> QED
  BY <1>1, <1>2, <1>5, <1>6

LEMMA LoseFacts ==
    ASSUME NEW b \in Block
    PROVE  /\ Lose(b) \in Block /\ Lose(b).run = b.run
           /\ Lose(b).status =
                  IF b.status = "running" THEN "failed" ELSE b.status
           /\ Lose(b).diagnosis = b.diagnosis
           /\ Lose(b).failReason = b.failReason
           /\ Lose(b).toolCalls = b.toolCalls
           /\ Lose(b).toolOrder = b.toolOrder
  BY DEF Lose, Block

\* Block d is b but for call c, which it lists in state st.
Listed(b, c, st, d) ==
    /\ d \in Block /\ d.run = b.run /\ d.status = b.status
    /\ d.diagnosis = b.diagnosis /\ d.failReason = b.failReason
    /\ DOMAIN d.toolCalls = DOMAIN b.toolCalls \cup {c}
    /\ \A x \in DOMAIN d.toolCalls :
          d.toolCalls[x] = IF x = c THEN st ELSE b.toolCalls[x]
    /\ WellListed(d)

\* The update of a block by a tool event.
LEMMA CallFacts ==
    ASSUME NEW b \in Block, WellListed(b), NEW c \in Calls,
           NEW st \in {"open", "done"}, NEW d,
           d = [b EXCEPT !.toolOrder = ListOnce(b, c),
                         !.toolCalls = Recorded(@, c, st)]
    PROVE  Listed(b, c, st, d)
<1>1. PICK S \in SUBSET Calls : b.toolCalls \in [S -> {"open", "done"}]
  BY DEF Block
<1>2. b.toolOrder \in Seq(Calls)
  BY DEF Block
<1> DEFINE more == Recorded(b.toolCalls, c, st)
           order == ListOnce(b, c)
<1>3. /\ more \in [S \cup {c} -> {"open", "done"}]
      /\ DOMAIN more = DOMAIN b.toolCalls \cup {c}
      /\ \A x \in DOMAIN more : more[x] = IF x = c THEN st ELSE b.toolCalls[x]
  BY <1>1 DEF Recorded
<1>4. order \in Seq(Calls)
  BY <1>2 DEF ListOnce
<1>5. /\ d.toolCalls = more /\ d.toolOrder = order /\ d.run = b.run
      /\ d.status = b.status /\ d.diagnosis = b.diagnosis
      /\ d.failReason = b.failReason
  BY DEF Block
<1>6. more \in UNION {[T -> {"open", "done"}] : T \in SUBSET Calls}
  BY <1>3
<1>7. d \in Block
  <2> HIDE DEF more, order
  <2> QED
    BY <1>4, <1>5, <1>6 DEF Block
<1>8. /\ IsFiniteSet(DOMAIN b.toolCalls \cup {c})
      /\ Cardinality(DOMAIN b.toolCalls \cup {c}) =
            IF c \in DOMAIN b.toolCalls THEN Cardinality(DOMAIN b.toolCalls)
            ELSE Cardinality(DOMAIN b.toolCalls) + 1
  BY ZenonT(40), FS_AddElement DEF WellListed
<1>9. Len(order) = IF c \in DOMAIN b.toolCalls THEN Len(b.toolOrder)
                   ELSE Len(b.toolOrder) + 1
  BY <1>2 DEF ListOnce
<1>10. \A k \in DOMAIN order : order[k] \in DOMAIN b.toolCalls \cup {c}
  BY <1>2 DEF ListOnce, WellListed
<1>11. WellListed(d)
  <2> HIDE DEF more, order
  <2> QED
    BY <1>3, <1>5, <1>8, <1>9, <1>10 DEF WellListed
<1> QED
  BY <1>3, <1>5, <1>7, <1>11 DEF Listed

\* What the block of a run may still be told: after the last event nothing,
\* and after the result of a call its start only if the id is used again.
LEMMA NothingAfter ==
    ASSUME TypeInv, LogInv, NEW r \in Runs, NEW m \in DOMAIN emitted[r],
           NEW n \in Nat, n < m, NEW e, Told(emitted[r], n, e)
    PROVE  /\ e.type \notin LastTypes
           /\ emitted[r][m].type # "agent_run_started"
           /\ emitted[r][m] = [type |-> "tool_call_started", of |-> e.of] =>
                  Reused(r, e.of)
<1>1. emitted[r] \in Seq(Event)
  BY DEF TypeInv
<1>2. PICK k \in 1..n : k \in DOMAIN emitted[r] /\ emitted[r][k] = e
  BY DEF Told
<1>3. k \in 1..(m - 1) /\ m \in 1..Len(emitted[r])
  BY <1>1, <1>2
<1> QED
  BY <1>2, <1>3 DEF LogInv, Reused

\* No verdict is taken back, and no result but by another call with its id.
Stands(b, d) ==
    /\ b.diagnosis \/ b.failReason => /\ d.status = b.status
                                    /\ d.diagnosis = b.diagnosis
                                    /\ d.failReason = b.failReason
    /\ \A c \in DOMAIN b.toolCalls :
          b.toolCalls[c] = "done" => d.toolCalls[c] = "done" \/ Reused(b.run, c)

\* A block d has come from a block b of the same run.
Evolved(b, d) ==
    /\ d \in Block /\ d.run = b.run /\ Stands(b, d)
    /\ d.status = "running" => b.status = "running"

LEMMA OnBlockCases ==
    ASSUME NEW b, NEW e
    PROVE  /\ e.type = "tool_call_started" => OnBlock(b, e) = ToolCallStarted(b, e.of)
           /\ e.type = "tool_call_completed" => OnBlock(b, e) = ToolCallCompleted(b, e.of)
           /\ e.type = "hypothesis_ladder_updated" =>
                 OnBlock(b, e) = [b EXCEPT !.hypotheses = TRUE]
           /\ e.type = "agent_run_completed" => OnBlock(b, e) = RunCompleted(b)
           /\ e.type = "agent_run_failed" => OnBlock(b, e) = RunFailed(b)
  BY Zenon DEF OnBlock

LEMMA BlockStep ==
    ASSUME TypeInv, LogInv, NEW x \in Items, x.run \in Runs, x.type \in RunTypes,
           x.type # "agent_run_started",
           x.n \in DOMAIN emitted[x.run],
           emitted[x.run][x.n] = [type |-> x.type, of |-> x.of],
           NEW n \in Nat, n < x.n,
           NEW b \in Block, b.run = x.run, Faithful(b, emitted[x.run], n),
           NEW d, d = OnBlock(b, x)
    PROVE  Evolved(b, d) /\ Faithful(d, emitted[x.run], x.n)
<1> DEFINE log == emitted[x.run]
           S(e) == Told(log, n, e)
           T(e) == Told(log, x.n, e)
<1>1. x.n \in Nat /\ x.n >= 1
  <2>1. emitted[x.run] \in Seq(Event)
    BY DEF TypeInv
  <2> QED
    BY <2>1
<1>2. /\ T([type |-> x.type, of |-> x.of])
      /\ \A e : S(e) => T(e)
      /\ Faithful(b, log, x.n)
  <2>1. T([type |-> x.type, of |-> x.of])
    BY <1>1 DEF Told
  <2> QED
    BY <1>1, <2>1, ToldMore
<1>3. b.diagnosis = FALSE /\ b.failReason = FALSE /\ b.status # "completed"
  <2>1. ASSUME NEW e, S(e) PROVE e.type \notin LastTypes
    BY <2>1, NothingAfter
  <2>2. /\ ~S([type |-> "agent_run_completed", of |-> NoCall])
        /\ ~S([type |-> "agent_run_failed", of |-> NoCall])
    BY <2>1 DEF LastTypes
  <2> QED
    BY <2>2 DEF Faithful, Block
<1>4. x.type \in ToolTypes => x.of \in Calls
  BY DEF LogInv
<1>5. x.type \in LastTypes => x.of = NoCall
  BY DEF LogInv
<1> HIDE DEF log, S, T
<1>6. CASE x.type = "tool_call_started"
  <2>1. d = [b EXCEPT !.toolOrder = ListOnce(b, x.of),
                      !.toolCalls = Recorded(@, x.of, "open")]
    BY <1>6, OnBlockCases DEF ToolCallStarted
  <2>2. Listed(b, x.of, "open", d)
    <3>1. WellListed(b) /\ x.of \in Calls
      BY <1>4, <1>6 DEF ToolTypes, Faithful
    <3> QED
      BY <2>1, <3>1, CallFacts
  <2>3. S([type |-> "tool_call_completed", of |-> x.of]) => Reused(x.run, x.of)
    BY <1>6, NothingAfter DEF S, log
  <2>4. x.of \in DOMAIN b.toolCalls /\ b.toolCalls[x.of] = "done" => Reused(b.run, x.of)
    BY <2>3 DEF Faithful, S, log
  <2>5. Evolved(b, d)
    BY <1>3, <2>2, <2>4 DEF Evolved, Stands, Listed
  <2>6. \A c \in DOMAIN d.toolCalls :
           IF d.toolCalls[c] = "done"
             THEN T([type |-> "tool_call_completed", of |-> c])
             ELSE T([type |-> "tool_call_started", of |-> c])
    BY <1>2, <1>6, <2>2 DEF Faithful, T, Listed
  <2>7. Faithful(d, log, x.n)
    BY <1>2, <1>3, <2>2, <2>6 DEF Faithful, T, Listed
  <2> QED
    BY <2>5, <2>7 DEF log
<1>7. CASE x.type = "tool_call_completed"
  <2>1. d = [b EXCEPT !.toolOrder = ListOnce(b, x.of),
                      !.toolCalls = Recorded(@, x.of, "done")]
    BY <1>7, OnBlockCases DEF ToolCallCompleted
  <2>2. Listed(b, x.of, "done", d)
    <3>1. WellListed(b) /\ x.of \in Calls
      BY <1>4, <1>7 DEF ToolTypes, Faithful
    <3> QED
      BY <2>1, <3>1, CallFacts
  <2>3. Evolved(b, d)
    BY <1>3, <2>2 DEF Evolved, Stands, Listed
  <2>4. \A c \in DOMAIN d.toolCalls :
           IF d.toolCalls[c] = "done"
             THEN T([type |-> "tool_call_completed", of |-> c])
             ELSE T([type |-> "tool_call_started", of |-> c])
    BY <1>2, <1>7, <2>2 DEF Faithful, T, Listed
  <2>5. Faithful(d, log, x.n)
    BY <1>2, <1>3, <2>2, <2>4 DEF Faithful, T, Listed
  <2> QED
    BY <2>3, <2>5 DEF log
<1>8. CASE x.type = "hypothesis_ladder_updated"
  <2>1. d = [b EXCEPT !.hypotheses = TRUE]
    BY <1>8, OnBlockCases
  <2>2. /\ d \in Block /\ d.run = b.run /\ d.status = b.status
        /\ d.diagnosis = b.diagnosis /\ d.failReason = b.failReason
        /\ d.toolCalls = b.toolCalls /\ d.toolOrder = b.toolOrder
    BY <2>1 DEF Block
  <2> QED
    BY <1>2, <2>2 DEF Evolved, Stands, Faithful, WellListed, log
<1>9. CASE x.type = "agent_run_completed"
  <2>1. d = RunCompleted(b)
    BY <1>9, OnBlockCases
  <2>2. /\ d \in Block /\ d.run = b.run /\ d.status = "completed"
        /\ d.diagnosis = TRUE /\ d.failReason = b.failReason
        /\ d.toolCalls = b.toolCalls /\ d.toolOrder = b.toolOrder
    BY <2>1 DEF Block, RunCompleted
  <2>3. T([type |-> "agent_run_completed", of |-> NoCall])
    BY <1>2, <1>5, <1>9 DEF LastTypes
  <2> QED
    BY <1>2, <1>3, <2>2, <2>3 DEF Evolved, Stands, Faithful, WellListed, T, log
<1>10. CASE x.type = "agent_run_failed"
  <2>1. d = RunFailed(b)
    BY <1>10, OnBlockCases
  <2>2. /\ d \in Block /\ d.run = b.run /\ d.status = "failed"
        /\ d.diagnosis = b.diagnosis /\ d.failReason = TRUE
        /\ d.toolCalls = b.toolCalls /\ d.toolOrder = b.toolOrder
    BY <2>1 DEF Block, RunFailed
  <2>3. T([type |-> "agent_run_failed", of |-> NoCall])
    BY <1>2, <1>5, <1>10 DEF LastTypes
  <2> QED
    BY <1>2, <1>3, <2>2, <2>3 DEF Evolved, Stands, Faithful, WellListed, T, log
<1> QED
  BY <1>6, <1>7, <1>8, <1>9, <1>10 DEF RunTypes, ToolTypes, LastTypes

-----------------------------------------------------------------------------
(* The list of blocks.                                                     *)

LEMMA RunStartedFacts ==
    ASSUME NEW blocks \in Seq(Block), NEW r \in Runs
    PROVE  LET after == RunStarted(blocks, r)
           IN  /\ after \in Seq(Block) /\ Len(after) <= MaxShown
               /\ \A j \in DOMAIN after :
                     \/ j = 1 /\ after[j] = NewBlock(r)
                     \/ /\ j > 1 /\ j - 1 \in DOMAIN blocks
                        /\ after[j] = Lose(blocks[j - 1])
<1> DEFINE lost == [i \in DOMAIN blocks |-> Lose(blocks[i])]
           stacked == <<NewBlock(r)>> \o lost
           m == IF Len(stacked) > MaxShown THEN MaxShown ELSE Len(stacked)
           after == RunStarted(blocks, r)
<1>1. after = SubSeq(stacked, 1, m)
  BY Zenon DEF RunStarted
<1>2. lost \in Seq(Block) /\ Len(lost) = Len(blocks) /\ DOMAIN lost = DOMAIN blocks
  <2>1. \A i \in DOMAIN blocks : Lose(blocks[i]) \in Block
    BY LoseFacts
  <2> QED
    BY <2>1
<1>3. <<NewBlock(r)>> \in Seq(Block) /\ Len(<<NewBlock(r)>>) = 1
  <2>1. \A b \in Block : <<b>> \in Seq(Block) /\ Len(<<b>>) = 1
    OBVIOUS
  <2> QED
    BY <2>1, NewBlockFacts
<1> HIDE DEF lost
<1>4. /\ stacked \in Seq(Block) /\ Len(stacked) = Len(blocks) + 1
      /\ stacked[1] = NewBlock(r)
      /\ \A i \in 2..Len(stacked) : stacked[i] = lost[i - 1]
  BY <1>2, <1>3
<1> HIDE DEF stacked
<1>5. m \in Nat /\ m >= 1 /\ m <= MaxShown /\ m <= Len(stacked)
  BY <1>4, PanelAssumption
<1> HIDE DEF m
<1>6. \A i \in 1..m : stacked[i] \in Block
  BY <1>4, <1>5
<1>7. /\ after \in Seq(Block) /\ Len(after) = m
      /\ \A i \in 1..m : after[i] = stacked[i]
  BY <1>1, <1>5, <1>6, SubSeqProperties
<1> HIDE DEF after
<1>8. \A j \in DOMAIN after :
         \/ j = 1 /\ after[j] = NewBlock(r)
         \/ /\ j > 1 /\ j - 1 \in DOMAIN blocks
            /\ after[j] = Lose(blocks[j - 1])
  <2> SUFFICES ASSUME NEW j \in DOMAIN after
               PROVE  \/ j = 1 /\ after[j] = NewBlock(r)
                      \/ /\ j > 1 /\ j - 1 \in DOMAIN blocks
                         /\ after[j] = Lose(blocks[j - 1])
    OBVIOUS
  <2>1. j \in 1..m
    BY <1>5, <1>7
  <2>2. CASE j = 1
    BY <1>4, <1>7, <2>1, <2>2
  <2>3. CASE j # 1
    <3>1. j \in 2..Len(stacked) /\ j - 1 \in DOMAIN blocks
      BY <1>4, <1>5, <2>1, <2>3
    <3>2. after[j] = lost[j - 1]
      BY <1>4, <1>7, <2>1, <3>1
    <3> QED
      BY <2>1, <2>3, <3>1, <3>2 DEF lost
  <2> QED
    BY <2>2, <2>3
<1> QED
  BY <1>5, <1>7, <1>8 DEF after

\* The block of a run, when there is only one, is updated and no other.
LEMMA OnAgentEventFacts ==
    ASSUME NEW blocks \in Seq(Block), NEW x, x.type # "agent_run_started",
           \A i, j \in DOMAIN blocks : blocks[i].run = blocks[j].run => i = j
    PROVE  LET after == OnAgentEvent(blocks, x)
           IN  /\ DOMAIN after = DOMAIN blocks
               /\ after = [i \in 1..Len(blocks) |-> after[i]]
               /\ \A i \in DOMAIN blocks :
                     after[i] = IF blocks[i].run = x.run THEN OnBlock(blocks[i], x)
                                ELSE blocks[i]
<1> DEFINE after == OnAgentEvent(blocks, x)
           first(i) == /\ blocks[i].run = x.run
                       /\ \A j \in 1..(i - 1) : blocks[j].run # x.run
<1>1. after = [i \in DOMAIN blocks |->
                  IF first(i) THEN OnBlock(blocks[i], x) ELSE blocks[i]]
  BY Zenon DEF OnAgentEvent
<1>2. \A i \in DOMAIN blocks : first(i) <=> blocks[i].run = x.run
  OBVIOUS
<1> HIDE DEF after, first
<1>3. DOMAIN blocks = 1..Len(blocks)
  OBVIOUS
<1>4. /\ DOMAIN after = DOMAIN blocks
      /\ after = [i \in 1..Len(blocks) |-> after[i]]
  BY <1>1, <1>3
<1>5. \A i \in DOMAIN blocks :
         after[i] = IF blocks[i].run = x.run THEN OnBlock(blocks[i], x)
                    ELSE blocks[i]
  BY <1>1, <1>2
<1> QED
  BY <1>4, <1>5 DEF after

-----------------------------------------------------------------------------
(* The steps of the panel.                                                 *)

\* Every block shown after a step is new or has come from one of its run.
BlocksStand ==
    \A i \in DOMAIN runs, j \in DOMAIN runs' :
        runs'[j].run = runs[i].run => Stands(runs[i], runs'[j])

PanelStep == runs' \in Seq(Block) /\ PanelInv' /\ BlocksStand

LEMMA BlocksShown ==
    ASSUME runs \in Seq(Block)
    PROVE  \A i \in DOMAIN runs : runs[i].run \in Runs /\ runs[i] \in Block
<1>1. \A i \in DOMAIN runs : runs[i] \in Block
  OBVIOUS
<1>2. \A b \in Block : b.run \in Runs
  BY DEF Block
<1> QED
  BY <1>1, <1>2

\* Blocks that stay as they are stay faithful while runs emit.
LEMMA PanelStays ==
    ASSUME FrontendInv, Grows, runs' = runs, taken' = taken
    PROVE  PanelStep
<1> USE DEF FrontendInv
<1>1. \A i \in DOMAIN runs : runs[i].run \in Runs /\ runs[i] \in Block
  BY BlocksShown DEF TypeInv
<1>2. \A i \in DOMAIN runs :
         Faithful(runs[i], emitted'[runs[i].run], taken[runs[i].run])
  <2> SUFFICES ASSUME NEW i \in DOMAIN runs
               PROVE  Faithful(runs[i], emitted'[runs[i].run], taken[runs[i].run])
    OBVIOUS
  <2>1. PICK r \in Runs : r = runs[i].run
    BY <1>1
  <2>2. taken[r] \in Nat /\ taken[r] <= taken[r]
    BY DEF TypeInv
  <2>3. \A k \in DOMAIN emitted[r] :
           k \in DOMAIN emitted'[r] /\ emitted'[r][k] = emitted[r][k]
    BY DEF Grows
  <2>4. Faithful(runs[i], emitted[r], taken[r])
    BY <2>1 DEF PanelInv
  <2> QED
    BY <2>1, <2>2, <2>3, <2>4, ToldMore
<1>3. BlocksStand
  BY DEF BlocksStand, Stands, PanelInv
<1> QED
  BY <1>2, <1>3 DEF PanelStep, PanelInv, TypeInv

\* A run starts: it has no block yet, for its start is its first event.
LEMMA PanelStart ==
    ASSUME FrontendInv, Poll, box.type = "agent_run_started"
    PROVE  PanelStep
<1> USE DEF FrontendInv
<1> DEFINE r == box.run
<1>1. /\ r \in Runs /\ box.n \in DOMAIN emitted[r] /\ taken[r] < box.n
      /\ emitted[r][box.n] = [type |-> "agent_run_started", of |-> NoCall]
      /\ box.n = 1 /\ taken[r] = 0
  <2>1. /\ r \in Runs /\ box.n \in DOMAIN emitted[r] /\ taken[r] < box.n
        /\ emitted[r][box.n] = [type |-> box.type, of |-> box.of]
    BY DEF WayInv, Fresh, RunTypes
  <2>2. box.n = 1 /\ box.of = NoCall
    BY <2>1 DEF LogInv
  <2>3. taken[r] \in Nat
    BY <2>1 DEF TypeInv
  <2> QED
    BY <2>1, <2>2, <2>3
<1>2. /\ emitted' = emitted /\ runs' = RunStarted(runs, r)
      /\ taken' = [taken EXCEPT ![r] = 1]
  BY <1>1 DEF Poll, OnAgentEvent, sources
<1>3. /\ runs \in Seq(Block) /\ \A i \in DOMAIN runs : runs[i] \in Block
      /\ \A i \in DOMAIN runs : runs[i].run \in Runs
  BY BlocksShown DEF TypeInv
<1>4. /\ runs' \in Seq(Block) /\ Len(runs') <= MaxShown
      /\ \A j \in DOMAIN runs' :
            \/ j = 1 /\ runs'[j] = NewBlock(r)
            \/ j > 1 /\ j - 1 \in DOMAIN runs /\ runs'[j] = Lose(runs[j - 1])
  BY <1>1, <1>2, <1>3, RunStartedFacts
<1>5. \A i \in DOMAIN runs : runs[i].run # r
  BY <1>1 DEF PanelInv, Faithful, Told
<1>6. NewBlock(r).run = r /\ Faithful(NewBlock(r), emitted[r], 1)
  <2>1. Told(emitted[r], 1, [type |-> "agent_run_started", of |-> NoCall])
    BY <1>1 DEF Told
  <2> QED
    BY <1>1, <2>1, NewBlockFacts DEF Faithful
<1>7. \A i \in DOMAIN runs :
         /\ Lose(runs[i]).run = runs[i].run /\ Lose(runs[i]).status # "running"
         /\ Faithful(Lose(runs[i]), emitted[runs[i].run], taken[runs[i].run])
         /\ Stands(runs[i], Lose(runs[i]))
  <2> SUFFICES ASSUME NEW i \in DOMAIN runs
               PROVE  /\ Lose(runs[i]).run = runs[i].run
                      /\ Lose(runs[i]).status # "running"
                      /\ Faithful(Lose(runs[i]), emitted[runs[i].run],
                                  taken[runs[i].run])
                      /\ Stands(runs[i], Lose(runs[i]))
    OBVIOUS
  <2>1. Faithful(runs[i], emitted[runs[i].run], taken[runs[i].run])
    BY DEF PanelInv
  <2> QED
    BY <1>3, <2>1, LoseFacts DEF Faithful, WellListed, Stands
<1>8. \A j \in DOMAIN runs' :
         Faithful(runs'[j], emitted'[runs'[j].run], taken'[runs'[j].run])
  <2> SUFFICES ASSUME NEW j \in DOMAIN runs'
               PROVE  Faithful(runs'[j], emitted'[runs'[j].run], taken'[runs'[j].run])
    OBVIOUS
  <2>1. CASE j = 1 /\ runs'[j] = NewBlock(r)
    <3>1. taken'[r] = 1
      BY <1>1, <1>2 DEF TypeInv
    <3> QED
      BY <1>2, <1>6, <2>1, <3>1
  <2>2. CASE j > 1 /\ j - 1 \in DOMAIN runs /\ runs'[j] = Lose(runs[j - 1])
    <3>1. taken'[runs[j - 1].run] = taken[runs[j - 1].run]
      BY <1>2, <1>3, <1>5, <2>2 DEF TypeInv
    <3> QED
      BY <1>2, <1>7, <2>2, <3>1
  <2> QED
    BY <1>4, <2>1, <2>2
<1>9. \A j \in DOMAIN runs' : runs'[j].status = "running" => j = 1
  BY <1>4, <1>7
<1>10. \A j, k \in DOMAIN runs' : runs'[j].run = runs'[k].run => j = k
  <2> SUFFICES ASSUME NEW j \in DOMAIN runs', NEW k \in DOMAIN runs',
                      runs'[j].run = runs'[k].run
               PROVE  j = k
    OBVIOUS
  <2>1. j \in Nat /\ k \in Nat
    BY <1>4
  <2>2. CASE j = 1
    BY <1>4, <1>5, <1>6, <1>7, <2>1, <2>2
  <2>3. CASE k = 1
    BY <1>4, <1>5, <1>6, <1>7, <2>1, <2>3
  <2>4. CASE j # 1 /\ k # 1
    <3>1. j - 1 = k - 1
      BY <1>4, <1>7, <2>4 DEF PanelInv
    <3> QED
      BY <2>1, <3>1
  <2> QED
    BY <2>2, <2>3, <2>4
<1>11. BlocksStand
  <2> SUFFICES ASSUME NEW i \in DOMAIN runs, NEW j \in DOMAIN runs',
                      runs'[j].run = runs[i].run
               PROVE  Stands(runs[i], runs'[j])
    BY DEF BlocksStand
  <2>1. j - 1 \in DOMAIN runs /\ runs'[j] = Lose(runs[j - 1])
    BY <1>4, <1>5, <1>6
  <2>2. j - 1 = i
    BY <1>7, <2>1 DEF PanelInv
  <2> QED
    BY <1>7, <2>1, <2>2
<1> QED
  BY <1>4, <1>8, <1>9, <1>10, <1>11 DEF PanelStep, PanelInv

\* Another event changes the block of its run, if that is shown.
LEMMA PanelEvent ==
    ASSUME FrontendInv, Poll, box.type \notin {"agent_run_started", "frame"}
    PROVE  PanelStep
<1> USE DEF FrontendInv
<1>1. /\ runs \in Seq(Block) /\ box \in Items /\ taken \in [Runs -> Nat]
      /\ \A i, j \in DOMAIN runs : runs[i].run = runs[j].run => i = j
      /\ \A i \in DOMAIN runs : /\ runs[i].run \in Runs /\ runs[i] \in Block
                              /\ taken[runs[i].run] \in Nat
  BY BlocksShown DEF TypeInv, PanelInv
<1>2. /\ emitted' = emitted /\ runs' = OnAgentEvent(runs, box)
      /\ taken' = IF box.run \in Runs THEN [taken EXCEPT ![box.run] = box.n]
                  ELSE taken
  BY DEF Poll, sources
<1>3. /\ DOMAIN runs' = DOMAIN runs
      /\ runs' = [i \in 1..Len(runs) |-> runs'[i]]
      /\ \A i \in DOMAIN runs :
            runs'[i] = IF runs[i].run = box.run THEN OnBlock(runs[i], box)
                       ELSE runs[i]
  BY <1>1, <1>2, OnAgentEventFacts
<1>4. \A i \in DOMAIN runs :
         /\ Evolved(runs[i], runs'[i])
         /\ Faithful(runs'[i], emitted[runs[i].run], taken'[runs[i].run])
  <2> SUFFICES ASSUME NEW i \in DOMAIN runs
               PROVE  /\ Evolved(runs[i], runs'[i])
                      /\ Faithful(runs'[i], emitted[runs[i].run],
                                  taken'[runs[i].run])
    OBVIOUS
  <2>1. Faithful(runs[i], emitted[runs[i].run], taken[runs[i].run])
    BY DEF PanelInv
  <2>2. CASE runs[i].run # box.run
    <3>1. runs'[i] = runs[i] /\ taken'[runs[i].run] = taken[runs[i].run]
      BY <1>1, <1>2, <1>3, <2>2
    <3> QED
      BY <1>1, <2>1, <3>1 DEF Evolved, Stands
  <2>3. CASE runs[i].run = box.run
    <3>1. /\ box.run \in Runs /\ box.type \in RunTypes
          /\ box.n \in DOMAIN emitted[box.run]
          /\ emitted[box.run][box.n] = [type |-> box.type, of |-> box.of]
          /\ taken[box.run] < box.n
      BY <1>1, <2>3 DEF WayInv, Fresh
    <3>2. runs'[i] = OnBlock(runs[i], box) /\ taken'[runs[i].run] = box.n
      BY <1>1, <1>2, <1>3, <2>3, <3>1
    <3> QED
      BY <1>1, <2>1, <2>3, <3>1, <3>2, BlockStep
  <2> QED
    BY <2>2, <2>3
<1>5. runs' \in Seq(Block) /\ Len(runs') = Len(runs)
  <2>1. \A i \in 1..Len(runs) : runs'[i] \in Block
    BY <1>1, <1>4 DEF Evolved
  <2>2. Len(runs) \in Nat
    BY <1>1
  <2>3. [i \in 1..Len(runs) |-> runs'[i]] \in Seq(Block)
    BY <2>1, <2>2
  <2> QED
    BY <1>3, <2>2, <2>3
<1>6. \A i \in DOMAIN runs' :
         Faithful(runs'[i], emitted'[runs'[i].run], taken'[runs'[i].run])
  BY <1>2, <1>3, <1>4 DEF Evolved
<1>7. /\ \A i \in DOMAIN runs' : runs'[i].status = "running" => i = 1
      /\ \A i, j \in DOMAIN runs' : runs'[i].run = runs'[j].run => i = j
  BY <1>1, <1>3, <1>4 DEF Evolved, PanelInv
<1>8. BlocksStand
  BY <1>1, <1>3, <1>4 DEF Evolved, BlocksStand
<1> QED
  BY <1>5, <1>6, <1>7, <1>8 DEF PanelStep, PanelInv

\* A page loaded anew shows no block.
LEMMA PanelGone ==
    ASSUME FrontendInv, Reload
    PROVE  PanelStep
<1>1. runs' = <<>> /\ DOMAIN runs' = {} /\ Len(runs') = 0
  BY DEF Reload
<1>2. runs' \in Seq(Block)
  BY <1>1
<1> QED
  BY <1>1, <1>2, PanelAssumption DEF PanelStep, PanelInv, BlocksStand

-----------------------------------------------------------------------------
(* The inductive invariant.                                                *)

LEMMA FrontendInit == Init => FrontendInv
<1> SUFFICES ASSUME Init PROVE FrontendInv
  OBVIOUS
<1>1. /\ wire = <<>> /\ queue = <<>> /\ runs = <<>> /\ box = NoItem
      /\ sent = 0 /\ clock = 0 /\ taken = [r \in Runs |-> 0]
      /\ emitted = [r \in Runs |-> <<>>]
  BY DEF Init
<1>2. /\ DOMAIN wire = {} /\ DOMAIN queue = {} /\ DOMAIN runs = {} /\ Len(runs) = 0
      /\ \A r \in Runs : DOMAIN emitted[r] = {} /\ Len(emitted[r]) = 0
  BY <1>1
<1>3. TypeInv
  <2>1. wire \in Seq(Items) /\ queue \in Seq(Items) /\ runs \in Seq(Block)
    BY <1>1
  <2>2. emitted \in [Runs -> Seq(Event)]
    BY <1>1
  <2> QED
    BY <1>1, <2>1, <2>2, EmptyBox DEF TypeInv
<1>4. LogInv
  BY <1>2 DEF LogInv
<1>5. WayInv
  <2>1. Fresh(box)
    BY <1>1, EmptyBox DEF Fresh
  <2> QED
    BY <1>1, <1>2, <2>1 DEF WayInv
<1>6. PanelInv
  BY <1>2, PanelAssumption DEF PanelInv
<1> QED
  BY <1>3, <1>4, <1>5, <1>6 DEF FrontendInv

LEMMA FrontendStep ==
    ASSUME FrontendInv, [Next]_vars
    PROVE  FrontendInv' /\ PanelStep
<1> USE DEF FrontendInv
<1>1. /\ emitted \in [Runs -> Seq(Event)] /\ sent \in Nat /\ clock \in Nat
      /\ taken \in [Runs -> Nat] /\ wire \in Seq(Items) /\ queue \in Seq(Items)
      /\ box \in Items /\ runs \in Seq(Block)
  BY DEF TypeInv
<1>2. ASSUME NEW r \in Runs, Emit(r) PROVE FrontendInv' /\ PanelStep
  <2>1. PICK e \in Event : Emission(r, e)
    BY <1>2, EmitFacts
  <2>2. /\ sent' = sent /\ taken' = taken /\ clock' = clock /\ queue' = queue
        /\ box' = box /\ runs' = runs
    BY <1>2 DEF Emit, server, page
  <2>3. Grows
    BY <2>1, <2>2, EmitGrows
  <2>4. WayInv' /\ wire' \in Seq(Items)
    BY <1>2, EmitWay
  <2>5. LogInv'
    BY <2>1, EmissionLog
  <2>6. PanelStep
    BY <2>2, <2>3, PanelStays
  <2>7. TypeInv'
    BY <1>1, <2>2, <2>3, <2>4 DEF TypeInv, Grows
  <2> QED
    BY <2>4, <2>5, <2>6, <2>7 DEF PanelStep
<1>3. CASE UNCHANGED <<emitted, sent>> /\ UNCHANGED <<runs, taken>>
           /\ UNCHANGED <<wire, queue, box, clock>>
  <2>1. Grows
    BY <1>1, <1>3 DEF Grows
  <2>2. TypeInv' /\ LogInv'
    BY <1>3 DEF TypeInv, LogInv
  <2>3. WayInv'
    BY <1>3 DEF WayInv, Fresh, Before
  <2> QED
    BY <1>3, <2>1, <2>2, <2>3, PanelStays DEF PanelStep
<1>4. CASE EmitFrame
  <2>1. /\ emitted' = emitted /\ sent' = sent + 1 /\ wire' = wire /\ box' = box
        /\ taken' = taken /\ clock' = clock /\ runs' = runs
    BY <1>4 DEF EmitFrame, network, page, history
  <2>2. Grows
    BY <1>1, <2>1 DEF Grows
  <2>3. WayInv' /\ queue' \in Seq(Items)
    BY <1>4, EmitFrameWay
  <2>4. TypeInv' /\ LogInv'
    BY <1>1, <2>1, <2>3 DEF TypeInv, LogInv
  <2> QED
    BY <2>1, <2>2, <2>3, <2>4, PanelStays DEF PanelStep
<1>5. CASE EmitAnomaly
  <2>1. /\ emitted' = emitted /\ sent' = sent /\ queue' = queue /\ box' = box
        /\ taken' = taken /\ clock' = clock /\ runs' = runs
    BY <1>5 DEF EmitAnomaly, sources, server, page
  <2>2. Grows
    BY <1>1, <2>1 DEF Grows
  <2>3. WayInv' /\ wire' \in Seq(Items)
    BY <1>5, EmitAnomalyWay
  <2>4. TypeInv' /\ LogInv'
    BY <1>1, <2>1, <2>3 DEF TypeInv, LogInv
  <2> QED
    BY <2>1, <2>2, <2>3, <2>4, PanelStays DEF PanelStep
<1>6. CASE Receive
  <2>1. /\ emitted' = emitted /\ sent' = sent /\ box' = box
        /\ taken' = taken /\ clock' = clock /\ runs' = runs
    BY <1>6 DEF Receive, sources, page, history
  <2>2. Grows
    BY <1>1, <2>1 DEF Grows
  <2>3. WayInv' /\ wire' \in Seq(Items) /\ queue' \in Seq(Items)
    BY <1>6, ReceiveWay
  <2>4. TypeInv' /\ LogInv'
    BY <1>1, <2>1, <2>3 DEF TypeInv, LogInv
  <2> QED
    BY <2>1, <2>2, <2>3, <2>4, PanelStays DEF PanelStep
<1>7. CASE Yield
  <2>1. /\ emitted' = emitted /\ sent' = sent /\ wire' = wire
        /\ taken' = taken /\ clock' = clock /\ runs' = runs
    BY <1>7 DEF Yield, sources, network, page
  <2>2. Grows
    BY <1>1, <2>1 DEF Grows
  <2>3. WayInv' /\ queue' \in Seq(Items) /\ box' \in Items
    BY <1>7, YieldWay
  <2>4. TypeInv' /\ LogInv'
    BY <1>1, <2>1, <2>3 DEF TypeInv, LogInv
  <2> QED
    BY <2>1, <2>2, <2>3, <2>4, PanelStays DEF PanelStep
<1>8. CASE Break
  <2>1. /\ emitted' = emitted /\ sent' = sent /\ queue' = queue /\ box' = box
        /\ taken' = taken /\ clock' = clock /\ runs' = runs
    BY <1>8 DEF Break, sources, server, page
  <2>2. Grows
    BY <1>1, <2>1 DEF Grows
  <2>3. WayInv' /\ wire' \in Seq(Items)
    BY <1>8, LostWay
  <2>4. TypeInv' /\ LogInv'
    BY <1>1, <2>1, <2>3 DEF TypeInv, LogInv
  <2> QED
    BY <2>1, <2>2, <2>3, <2>4, PanelStays DEF PanelStep
<1>9. CASE Reload
  <2>1. emitted' = emitted /\ sent' = sent /\ taken' = taken
    BY <1>9 DEF Reload, sources
  <2>2. /\ WayInv' /\ wire' \in Seq(Items) /\ queue' \in Seq(Items)
        /\ box' \in Items /\ clock' \in Nat
    BY <1>9, LostWay
  <2>3. PanelStep
    BY <1>9, PanelGone
  <2>4. TypeInv' /\ LogInv'
    BY <1>1, <2>1, <2>2, <2>3 DEF TypeInv, LogInv, PanelStep
  <2> QED
    BY <2>2, <2>3, <2>4 DEF PanelStep
<1>10. CASE Poll
  <2>1. emitted' = emitted /\ sent' = sent /\ wire' = wire /\ queue' = queue
    BY <1>10 DEF Poll, sources, network
  <2>2. WayInv' /\ box' \in Items /\ taken' \in [Runs -> Nat] /\ clock' \in Nat
    BY <1>10, PollWay
  <2>3. PanelStep
    <3>1. CASE box.type = "frame"
      <4>1. runs' = runs /\ taken' = taken
        BY <1>10, <3>1 DEF Poll
      <4>2. Grows
        BY <1>1, <2>1 DEF Grows
      <4> QED
        BY <4>1, <4>2, PanelStays
    <3> QED
      BY <1>10, <3>1, PanelStart, PanelEvent
  <2>4. TypeInv' /\ LogInv'
    BY <1>1, <2>1, <2>2, <2>3 DEF TypeInv, LogInv, PanelStep
  <2> QED
    BY <2>2, <2>3, <2>4 DEF PanelStep
<1>11. CASE \/ \E r \in Runs : Silence(r)
            \/ Connect \/ Join \/ Ended \/ UNCHANGED vars
  <2>1. UNCHANGED <<emitted, sent, runs, taken, wire, queue, box, clock>>
    BY <1>11 DEF Silence, Connect, Join, Ended, vars, sources, network, server,
                 page, history
  <2> QED
    BY <1>3, <2>1
<1> QED
  BY <1>2, <1>4, <1>5, <1>6, <1>7, <1>8, <1>9, <1>10, <1>11 DEF Next

\* The invariant holds whatever runs, faults and reloads there are.
THEOREM FrontendInvariant == Spec => []FrontendInv
<1>1. FrontendInv /\ [Next]_vars => FrontendInv'
  BY FrontendStep
<1> QED
  BY <1>1, FrontendInit, PTL DEF Spec

-----------------------------------------------------------------------------
(* What the page shows.                                                    *)

LEMMA PanelSoundFromInv == FrontendInv => PanelSound
<1> SUFFICES ASSUME FrontendInv PROVE PanelSound
  OBVIOUS
<1> USE DEF FrontendInv
<1> DEFINE b(i) == runs[i]
<1>1. \A i \in DOMAIN runs :
         /\ b(i) \in Block /\ b(i).run \in Runs
         /\ Faithful(b(i), emitted[b(i).run], taken[b(i).run])
         /\ b(i).status = "running" => i = 1
         /\ \A j \in DOMAIN runs : b(j).run = b(i).run => j = i
  BY BlocksShown DEF TypeInv, PanelInv
<1> HIDE DEF b
<1>2. \A i \in DOMAIN runs :
         /\ HasEmitted(b(i).run, "agent_run_started")
         /\ HasCard(b(i)) => HasEmitted(b(i).run, "agent_run_completed")
         /\ b(i).failReason => HasEmitted(b(i).run, "agent_run_failed")
  BY <1>1 DEF Faithful, Told, HasEmitted, HasCard
<1>3. \A i \in DOMAIN runs :
         /\ HasCard(b(i)) <=> Title(b(i)) = "Investigation complete"
         /\ b(i).failReason => Title(b(i)) = "Investigation failed"
  <2> SUFFICES ASSUME NEW d \in Block, d.diagnosis <=> d.status = "completed",
                      d.failReason => d.status = "failed"
               PROVE  /\ HasCard(d) <=> Title(d) = "Investigation complete"
                      /\ d.failReason => Title(d) = "Investigation failed"
    BY <1>1 DEF Faithful
  <2>1. d.status \in {"running", "completed", "failed"}
    BY DEF Block
  <2>2. /\ d.status = "running" => Title(d) = "Investigation in progress"
        /\ d.status = "completed" => Title(d) = "Investigation complete"
        /\ d.status = "failed" => Title(d) = "Investigation failed"
    BY Zenon DEF Title
  <2> QED
    BY <2>1, <2>2 DEF HasCard
<1>4. \A i \in DOMAIN runs :
         /\ Cardinality(DOMAIN b(i).toolCalls) = Len(b(i).toolOrder)
         /\ \A k \in DOMAIN LogLines(b(i)) :
               LET line == LogLines(b(i))[k]
               IN  HasEmittedCall(b(i).run,
                       IF line.done THEN "tool_call_completed"
                       ELSE "tool_call_started", line.call)
  <2> SUFFICES ASSUME NEW i \in DOMAIN runs, NEW k \in DOMAIN b(i).toolOrder
               PROVE  HasEmittedCall(b(i).run,
                          IF b(i).toolCalls[b(i).toolOrder[k]] = "done"
                            THEN "tool_call_completed" ELSE "tool_call_started",
                          b(i).toolOrder[k])
    BY <1>1 DEF LogLines, Faithful, WellListed
  <2> DEFINE c == b(i).toolOrder[k]
  <2>1. c \in DOMAIN b(i).toolCalls
    BY <1>1 DEF Faithful, WellListed
  <2>2. CASE b(i).toolCalls[c] = "done"
    <3>1. Told(emitted[b(i).run], taken[b(i).run],
               [type |-> "tool_call_completed", of |-> c])
      BY <1>1, <2>1, <2>2 DEF Faithful
    <3> QED
      BY <2>2, <3>1 DEF Told, HasEmittedCall
  <2>3. CASE b(i).toolCalls[c] # "done"
    <3>1. Told(emitted[b(i).run], taken[b(i).run],
               [type |-> "tool_call_started", of |-> c])
      BY <1>1, <2>1, <2>3 DEF Faithful
    <3> QED
      BY <2>3, <3>1 DEF Told, HasEmittedCall
  <2> QED
    BY <2>2, <2>3
<1>5. Len(runs) <= MaxShown
  BY DEF PanelInv
<1> QED
  BY <1>1, <1>2, <1>3, <1>4, <1>5 DEF PanelSound, b

\* The panel shows nothing that did not happen and each thing once, whatever
\* is lost on the way.
THEOREM PanelCorrect == Spec => []PanelSound
  BY FrontendInvariant, PanelSoundFromInv, PTL

\* No verdict the panel shows is ever taken back, and no result but by another
\* call of the run with the same id.
THEOREM VerdictCorrect == Spec => VerdictStands
<1> DEFINE Kept == \A i \in DOMAIN runs : \A j \in BlockOf(runs', runs[i].run) :
        /\ HasCard(runs[i]) \/ runs[i].failReason
              => /\ runs'[j].status = runs[i].status
                 /\ HasCard(runs'[j]) = HasCard(runs[i])
                 /\ runs'[j].failReason = runs[i].failReason
        /\ \A c \in DOMAIN runs[i].toolCalls :
              runs[i].toolCalls[c] = "done" =>
                  runs'[j].toolCalls[c] = "done" \/ Reused(runs[i].run, c)
<1>1. FrontendInv /\ [Next]_vars => [Kept]_vars
  <2> SUFFICES ASSUME FrontendInv, [Next]_vars PROVE Kept
    OBVIOUS
  <2>1. BlocksStand
    BY FrontendStep DEF PanelStep
  <2> QED
    BY <2>1 DEF BlocksStand, Stands, BlockOf, HasCard
<1> QED
  BY <1>1, FrontendInvariant, PTL DEF Spec, VerdictStands

\* Events of a run, and frames, are dispatched in the order they were emitted.
THEOREM OrderCorrect == Spec => DeliveredInOrder
<1> DEFINE Ordered == /\ \A r \in Runs : taken'[r] >= taken[r]
                      /\ clock' >= clock \/ clock' = 0
<1>1. FrontendInv /\ [Next]_vars => [Ordered]_vars
  <2> SUFFICES ASSUME FrontendInv, [Next]_vars PROVE Ordered
    OBVIOUS
  <2>1. /\ taken \in [Runs -> Nat] /\ clock \in Nat /\ box \in Items /\ box.n \in Nat
        /\ Fresh(box)
    BY DEF FrontendInv, TypeInv, WayInv, Items
  <2>2. CASE Poll
    <3>1. /\ \/ taken' = taken
             \/ box.run \in Runs /\ taken' = [taken EXCEPT ![box.run] = box.n]
          /\ \/ clock' = clock
             \/ box.type = "frame" /\ clock' = box.n
      BY <2>2 DEF Poll
    <3>2. box.run \in Runs => taken[box.run] < box.n
      BY <2>1 DEF Fresh
    <3>3. box.type = "frame" => clock < box.n
      BY <2>1 DEF Fresh
    <3>4. \A r \in Runs : taken[r] \in Nat /\ taken'[r] >= taken[r]
      BY <2>1, <3>1, <3>2
    <3>5. clock' >= clock
      BY <2>1, <3>1, <3>3
    <3> QED
      BY <3>4, <3>5
  <2>3. CASE Reload
    BY <2>1, <2>3 DEF Reload
  <2>4. CASE ~Poll /\ ~Reload
    <3>1. taken' = taken /\ clock' = clock
      <4>1. CASE \E r \in Runs : Emit(r)
        BY <4>1 DEF Emit, page
      <4>2. CASE \/ \E r \in Runs : Silence(r)
                 \/ EmitFrame \/ EmitAnomaly \/ Break \/ Connect \/ Join
                 \/ Receive \/ Yield \/ Ended \/ UNCHANGED vars
        BY <4>2 DEF Silence, EmitFrame, EmitAnomaly, Break, Connect, Join,
                    Receive, Yield, Ended, vars, page, history
      <4> QED
        BY <2>4, <4>1, <4>2 DEF Next
    <3> QED
      BY <2>1, <3>1
  <2> QED
    BY <2>2, <2>3, <2>4
<1> QED
  BY <1>1, FrontendInvariant, PTL DEF Spec, DeliveredInOrder
=============================================================================
