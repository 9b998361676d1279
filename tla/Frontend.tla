------------------------------ MODULE Frontend ------------------------------
(***************************************************************************)
(* The way of an event from a run to the panel: the broadcast of the API   *)
(* (selene/api/app.py), the pumps and the event stream of the frontend's   *)
(* server, the hidden text box and the poll of the browser                 *)
(* (src/frontend/app.py), and what the panel then shows (Panel).           *)
(*                                                                         *)
(* Runs emit events in the order of RunProtocol, which Agent implements,   *)
(* and stop without a last event when they are cancelled.  Connections     *)
(* break and are made again, the box holds one value and may be            *)
(* overwritten before it is read, the page may be loaded anew.  Anomalies  *)
(* use the same way.  Frames have a socket and a pump of their own, which  *)
(* are not modelled: they turn up in the queue, or do not.                 *)
(***************************************************************************)
EXTENDS Panel

CONSTANTS
    MaxRuns,        \* bound: runs of investigate, numbered as they start
    Workers,        \* how many run at once
    Calls,          \* ids of the tool calls of a run
    Sensors,        \* sensors of the anomalies
    Capacity,       \* bound: events between the broadcast and the box
    MaxEvents,      \* bound: events, frames and faults together
    MaxFrames,      \* bound: frames
    MaxExtras       \* bound: anomalies, connections that break and pages
                    \* loaded anew

Runs == 1..MaxRuns
NoRun == 0
NoCall == "no call"

ASSUME FrontendAssumption ==
    /\ MaxRuns \in Nat /\ Workers \in Nat /\ NoCall \notin Calls
    /\ Capacity \in Nat /\ MaxEvents \in Nat
    /\ MaxFrames \in Nat /\ MaxExtras \in Nat

VARIABLES
    emitted,        \* run |-> the events it has emitted
    over,           \* runs that emit nothing more
    sent,           \* number of frames emitted
    joined,         \* is the pump's socket among the subscribers of the API?
    pump,           \* connected or waiting to reconnect
    wire,           \* events sent and not received by the pump
    queue,          \* the queue of the event stream
    box,            \* the value of the text box the poll has not seen yet
    runs,           \* run blocks of the panel, newest first
    warned,         \* sensors whose row is marked
    clock,          \* the frame the clock and the rows show
    extras,         \* number of anomalies and faults
    lossy,          \* history: an event of a run was lost on its way
    taken           \* history: run |-> number of its event dispatched last

sources  == <<emitted, over, sent>>
network  == <<joined, pump, wire>>
server   == <<queue, box>>
page     == <<runs, warned, clock>>
history  == <<extras, lossy, taken>>
vars     == <<sources, network, server, page, history>>

-----------------------------------------------------------------------------
(* Data.                                                                   *)

Of(r) == INSTANCE RunProtocol WITH log <- emitted[r]

\* An item of the way: an event with its number at its source.
Item(type, run, of, n) == [type |-> type, run |-> run, of |-> of, n |-> n]

NoItem == Item("none", NoRun, NoCall, 0)

InFlight == Len(wire) + Len(queue)

Emitted == FoldFunction(LAMBDA log, n : Len(log) + n, 0, emitted)

Spent == Emitted + sent + extras >= MaxEvents

Running(r) == emitted[r] # <<>> /\ r \notin over

Init ==
    /\ emitted = [r \in Runs |-> <<>>] /\ over = {} /\ sent = 0
    /\ joined = TRUE /\ pump = "connected" /\ wire = <<>>
    /\ queue = <<>> /\ box = NoItem
    /\ runs = <<>> /\ warned = {} /\ clock = 0
    /\ extras = 0 /\ lossy = FALSE
    /\ taken = [r \in Runs |-> 0]

-----------------------------------------------------------------------------
(* The broadcast of the API.                                               *)

\* Nobody keeps what is sent while no socket of the page is among the
\* subscribers.  A socket of a connection that broke is as good as none: what
\* is sent to it is lost until a failed send or the endpoint removes it.
Broadcast(item) ==
    /\ wire' = IF joined THEN Append(wire, item) ELSE wire
    /\ lossy' = (lossy \/ ~joined)
    /\ UNCHANGED <<joined, pump>>

\* A run emits its next event.  The id of a call is the endpoint's and is not
\* checked: a later call of the run may have it again.
Emit(r) ==
    /\ InFlight < Capacity /\ r \notin over /\ ~Spent
    /\ emitted[r] = <<>> => /\ Cardinality({q \in Runs : Running(q)}) < Workers
                            /\ \A q \in 1..(r - 1) : emitted[q] # <<>>
    /\ \E type \in {"agent_run_started", "tool_call_started", "tool_call_completed",
                     "hypothesis_ladder_updated", "agent_run_completed",
                     "agent_run_failed"},
          of \in Calls \cup {NoCall} :
        /\ type \in {"tool_call_started", "tool_call_completed"} => of \in Calls
        /\ type \in {"agent_run_started", "agent_run_completed", "agent_run_failed"}
               => of = NoCall
        /\ Of(r)!Follows([type |-> type, of |-> of])
        /\ type = "hypothesis_ladder_updated" /\ of # NoCall => Of(r)!InCall
        /\ emitted' = [emitted EXCEPT ![r] = Append(@, [type |-> type, of |-> of])]
        /\ over' = IF type \in {"agent_run_completed", "agent_run_failed"}
                     THEN over \cup {r} ELSE over
        /\ Broadcast(Item(type, r, of, Len(emitted[r]) + 1))
    /\ UNCHANGED <<sent, server, page, extras, taken>>

\* An exception or a cancellation ends a run without an event.
Silence(r) ==
    /\ Running(r)
    /\ over' = over \cup {r}
    /\ UNCHANGED <<emitted, sent, network, server, page, history>>

\* A frame of the pipeline has come over the other socket.  Frames are those of
\* one replay: another scenario, which sets the clock back, is not modelled.
EmitFrame ==
    /\ InFlight < Capacity /\ sent < MaxFrames /\ ~Spent
    /\ sent' = sent + 1
    /\ queue' = Append(queue, Item("frame", NoRun, NoCall, sent + 1))
    /\ UNCHANGED <<emitted, over, network, box, page, history>>

\* The pipeline emits an anomaly the detectors found.
EmitAnomaly ==
    /\ InFlight < Capacity /\ extras < MaxExtras /\ ~Spent
    /\ extras' = extras + 1
    /\ \E s \in Sensors : Broadcast(Item("anomaly", NoRun, s, 0))
    /\ UNCHANGED <<sources, server, page, taken>>

-----------------------------------------------------------------------------
(* The pumps and the event stream of the frontend's server.                *)

\* The connection of the pump breaks; the API does not know yet.
Break ==
    /\ extras < MaxExtras /\ ~Spent /\ pump = "connected"
    /\ extras' = extras + 1
    /\ pump' = "waiting" /\ wire' = <<>>
    /\ joined' = FALSE
    /\ lossy' = (lossy \/ wire # <<>>)
    /\ UNCHANGED <<sources, server, page, taken>>

\* After its pause the pump connects again; the endpoint has accepted.
Connect ==
    /\ pump = "waiting" /\ pump' = "connected"
    /\ UNCHANGED <<sources, joined, wire, server, page, history>>

\* The endpoint adds the socket it has accepted.
Join ==
    /\ pump = "connected" /\ ~joined /\ joined' = TRUE
    /\ UNCHANGED <<sources, pump, wire, server, page, history>>

\* Mutant: the newest item is put in front.
PutFront(item) == queue' = <<item>> \o queue

Put(item) == queue' = Append(queue, item)

Receive ==
    /\ pump = "connected" /\ wire # <<>>
    /\ Put(Head(wire))
    /\ wire' = Tail(wire)
    /\ UNCHANGED <<sources, joined, pump, box, page, history>>

\* The event stream yields the next value of the box, read or not.  Its
\* sequence number makes each value differ from the one before.
Yield ==
    /\ queue # <<>>
    /\ box' = Head(queue) /\ queue' = Tail(queue)
    /\ lossy' = (lossy \/ box.type \notin {"none", "frame"})
    /\ UNCHANGED <<sources, network, page, extras, taken>>

-----------------------------------------------------------------------------
(* The browser.                                                            *)

\* Mutant: the poll does not remember the value it saw last.
SeenNever == box' = box

Seen == box' = NoItem

\* The poll dispatches a value it has not seen; the listeners of the panels
\* run before anything else can.
Poll ==
    /\ box # NoItem
    /\ Seen
    /\ IF box.type = "frame"
         THEN /\ clock' = box.n
              /\ UNCHANGED <<runs, warned, taken>>
         ELSE /\ runs' = OnAgentEvent(runs, box)
              /\ warned' = RowsWarned(warned, box)
              /\ taken' = IF box.run \in Runs
                            THEN [taken EXCEPT ![box.run] = box.n] ELSE taken
              /\ clock' = clock
    /\ UNCHANGED <<sources, network, queue, extras, lossy>>

\* The page is loaded anew: with it the panels, the boxes and the event
\* stream, whose pumps connect for themselves.
Reload ==
    /\ extras < MaxExtras /\ ~Spent
    /\ extras' = extras + 1
    /\ pump' = "waiting" /\ wire' = <<>>
    /\ joined' = FALSE
    /\ queue' = <<>> /\ box' = NoItem
    /\ runs' = <<>> /\ warned' = {} /\ clock' = 0
    /\ lossy' = TRUE
    /\ UNCHANGED <<sources, taken>>

-----------------------------------------------------------------------------
(* The specification.                                                      *)

\* No run is left: the page may stay as it is.
Ended == (\A r \in Runs : ~Running(r)) /\ UNCHANGED vars

Next ==
    \/ \E r \in Runs : Emit(r) \/ Silence(r)
    \/ EmitFrame \/ EmitAnomaly
    \/ Break \/ Connect \/ Join \/ Receive
    \/ Yield \/ Poll \/ Reload
    \/ Ended

Spec == Init /\ [][Next]_vars

\* The pumps, the event stream and the poll run on.  Nothing else is due: a
\* connection need not be made again, and a run need not end.
Fairness ==
    WF_vars(Receive) /\ WF_vars(Yield) /\ WF_vars(Poll)

FairSpec == Spec /\ Fairness

-----------------------------------------------------------------------------
(* Properties.                                                             *)

HasEmitted(r, type) == \E i \in DOMAIN emitted[r] : emitted[r][i].type = type

HasEmittedCall(r, type, c) ==
    \E i \in DOMAIN emitted[r] : emitted[r][i] = [type |-> type, of |-> c]

\* The panel shows nothing that did not happen and each thing once, whatever
\* was lost on the way: a run has one block, the block lists each call once,
\* calls, results and verdicts are those the run emitted, a diagnosis card
\* means a completed run, and only the newest block may be in progress.
PanelSound ==
    /\ Len(runs) <= MaxShown
    /\ \A i \in DOMAIN runs :
          LET b == runs[i]
          IN  /\ b.run \in Runs /\ HasEmitted(b.run, "agent_run_started")
              /\ \A j \in DOMAIN runs : runs[j].run = b.run => j = i
              /\ b.status = "running" => i = 1
              /\ HasCard(b) <=> Title(b) = "Investigation complete"
              /\ HasCard(b) => HasEmitted(b.run, "agent_run_completed")
              /\ b.failReason => /\ Title(b) = "Investigation failed"
                                 /\ HasEmitted(b.run, "agent_run_failed")
              /\ Cardinality(DOMAIN b.toolCalls) = Len(b.toolOrder)
              /\ \A k \in DOMAIN LogLines(b) :
                    LET line == LogLines(b)[k]
                    IN  HasEmittedCall(b.run,
                            IF line.done THEN "tool_call_completed"
                            ELSE "tool_call_started", line.call)

BlockOf(blocks, r) == {i \in DOMAIN blocks : blocks[i].run = r}

\* The run started a call with an id it had used before.
Reused(r, c) ==
    \E j \in DOMAIN emitted[r] : \E i \in 1..(j - 1) :
        /\ emitted[r][i].of = c
        /\ emitted[r][j] = [type |-> "tool_call_started", of |-> c]

\* What a block has told of its run stands as long as the block is shown: a
\* verdict is not taken back, by the start of another run or by a late event,
\* and a result does not become an open call again, unless the run itself
\* started another call with the id.
VerdictStands ==
    [][\A i \in DOMAIN runs : \A j \in BlockOf(runs', runs[i].run) :
          /\ HasCard(runs[i]) \/ runs[i].failReason
                => /\ runs'[j].status = runs[i].status
                   /\ HasCard(runs'[j]) = HasCard(runs[i])
                   /\ runs'[j].failReason = runs[i].failReason
          /\ \A c \in DOMAIN runs[i].toolCalls :
                runs[i].toolCalls[c] = "done" =>
                    runs'[j].toolCalls[c] = "done" \/ Reused(runs[i].run, c)]_vars

\* The events of a run reach the page in the order it emitted them, and the
\* frames in the order of the replay: the clock goes back with a new page only.
DeliveredInOrder ==
    [][/\ \A r \in Runs : taken'[r] >= taken[r]
       /\ clock' >= clock \/ clock' = 0]_vars

\* As long as no event is lost, a verdict is shown in the end, other runs that
\* started meanwhile or not, unless newer runs have pushed its block out.
VerdictShown ==
    \A r \in Runs :
        (~lossy /\ HasEmitted(r, "agent_run_completed"))
            ~> \/ lossy
               \/ \E i \in DOMAIN runs : runs[i].run = r /\ HasCard(runs[i])
               \/ taken[r] # 0 /\ BlockOf(runs, r) = {}
=============================================================================
