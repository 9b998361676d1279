---------------------------- MODULE RunProtocol ----------------------------
(***************************************************************************)
(* The trace events of one investigation, as the consumers of the event    *)
(* stream rely on them: a run starts once, its tool calls are bracketed    *)
(* and do not overlap, a ranking belongs to the call that produced it, the *)
(* diagnosis is announced as a hypothesis just before it completes the     *)
(* run, and nothing follows a completed or failed run.                     *)
(***************************************************************************)
EXTENDS Integers, Sequences

VARIABLE log    \* the events so far, each [type, of]

TypeOf(i) == log[i].type
Last == Len(log)

\* The last event opened a call, or ranked the hypotheses of one.
InCall ==
    \/ TypeOf(Last) = "tool_call_started"
    \/ /\ TypeOf(Last) = "hypothesis_ladder_updated"
       /\ TypeOf(Last - 1) = "tool_call_started"

\* The last event announced a diagnosis.
Concluding == TypeOf(Last) = "hypothesis_ladder_updated" /\ ~InCall

BetweenCalls == TypeOf(Last) \in {"agent_run_started", "tool_call_completed"}

Follows(e) ==
    CASE e.type = "agent_run_started"   -> log = <<>>
      [] e.type = "tool_call_started"   -> log # <<>> /\ BetweenCalls
      [] e.type = "tool_call_completed" ->
             log # <<>> /\ InCall /\ log[Last].of = e.of
      [] e.type = "hypothesis_ladder_updated" ->
             /\ log # <<>>
             /\ \/ BetweenCalls
                \/ TypeOf(Last) = "tool_call_started" /\ log[Last].of = e.of
      [] e.type = "agent_run_completed" ->
             log # <<>> /\ Concluding /\ log[Last].of = e.of
      [] e.type = "agent_run_failed"    -> log # <<>> /\ BetweenCalls
      [] OTHER -> FALSE

Init == log = <<>>

Next ==
    /\ Len(log') = Len(log) + 1
    /\ log' = Append(log, log'[Len(log')])
    /\ Follows(log'[Len(log')])

Spec == Init /\ [][Next]_log
=============================================================================
