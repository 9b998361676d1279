------------------------------- MODULE Panel -------------------------------
(***************************************************************************)
(* What the browser does with the events it is given (the scripts in       *)
(* src/frontend/app.py, which the demo uses as well): the list of run      *)
(* blocks of the investigation panel and the sensor rows of the data       *)
(* panel, as operators from a state and an event to the next state.        *)
(*                                                                         *)
(* An event is [type, run, of]: `of' is the call a tool event belongs to.  *)
(* Texts, colours and the drawing of the habitat are left out.             *)
(***************************************************************************)
EXTENDS Integers, Sequences, FiniteSets, SequencesExt

CONSTANTS
    MaxShown        \* run blocks retained: 12

ASSUME PanelAssumption == MaxShown \in Nat \ {0}

-----------------------------------------------------------------------------
(* The investigation panel.                                                *)

\* toolCalls of a block: the calls seen, done once they have a result or an
\* error; toolOrder: the order they are listed in.
NewBlock(run) ==
    [run |-> run, status |-> "running", toolCalls |-> <<>>, toolOrder |-> <<>>,
     hypotheses |-> FALSE, diagnosis |-> FALSE, failReason |-> FALSE]

\* Mutant: every other block is taken for lost, not only the running ones.
LoseAll(block) == [block EXCEPT !.status = "failed"]

\* A block still running when another run starts is shown as failed.
Lose(block) ==
    IF block.status = "running" THEN [block EXCEPT !.status = "failed"] ELSE block

\* The newest block is on top; the oldest ones beyond the limit go.
RunStarted(runs, run) ==
    LET stacked == <<NewBlock(run)>> \o [i \in DOMAIN runs |-> Lose(runs[i])]
    IN  SubSeq(stacked, 1, IF Len(stacked) > MaxShown THEN MaxShown ELSE Len(stacked))

\* Mutant: the call is listed each time.
ListAlways(block, call) == Append(block.toolOrder, call)

ListOnce(block, call) ==
    IF call \in DOMAIN block.toolCalls THEN block.toolOrder
    ELSE Append(block.toolOrder, call)

Recorded(calls, call, state) ==
    [c \in DOMAIN calls \cup {call} |-> IF c = call THEN state ELSE calls[c]]

ToolCallStarted(block, call) ==
    [block EXCEPT !.toolOrder = ListOnce(block, call),
                  !.toolCalls = Recorded(@, call, "open")]

\* Also when the start of the call was missed.
ToolCallCompleted(block, call) ==
    [block EXCEPT !.toolOrder = ListOnce(block, call),
                  !.toolCalls = Recorded(@, call, "done")]

\* Mutant: only a block that runs can complete.
CompleteRunning(block) ==
    IF block.status = "running"
      THEN [block EXCEPT !.status = "completed", !.diagnosis = TRUE]
      ELSE block

RunCompleted(block) ==
    [block EXCEPT !.status = "completed", !.diagnosis = TRUE]

RunFailed(block) == [block EXCEPT !.status = "failed", !.failReason = TRUE]

OnBlock(block, e) ==
    CASE e.type = "tool_call_started"         -> ToolCallStarted(block, e.of)
      [] e.type = "tool_call_completed"       -> ToolCallCompleted(block, e.of)
      [] e.type = "hypothesis_ladder_updated" -> [block EXCEPT !.hypotheses = TRUE]
      [] e.type = "agent_run_completed"       -> RunCompleted(block)
      [] e.type = "agent_run_failed"          -> RunFailed(block)
      [] OTHER                                -> block

\* The listener of the investigation panel.  An anomaly has no type and an
\* event of a run without a block changes nothing; of two blocks of one run the
\* newer one is found.
OnAgentEvent(runs, e) ==
    IF e.type = "agent_run_started" THEN RunStarted(runs, e.run)
    ELSE [i \in DOMAIN runs |->
             IF runs[i].run = e.run /\ \A j \in 1..(i - 1) : runs[j].run # e.run
               THEN OnBlock(runs[i], e)
               ELSE runs[i]]

\* What the header of a block says, and whether its diagnosis card is there.
Title(block) ==
    CASE block.status = "running"   -> "Investigation in progress"
      [] block.status = "completed" -> "Investigation complete"
      [] OTHER                      -> "Investigation failed"

HasCard(block) == block.diagnosis

\* The log lists a call with an arrow once it is done.
LogLines(block) ==
    [i \in DOMAIN block.toolOrder |->
        [call |-> block.toolOrder[i],
         done |-> block.toolCalls[block.toolOrder[i]] = "done"]]

-----------------------------------------------------------------------------
(* The data panel.                                                         *)

\* The listener of the data panel: what carries affected sensors marks their
\* rows.  Only anomalies do, each with one sensor here, and no event unmarks.
RowsWarned(warned, e) ==
    IF e.type = "anomaly" THEN warned \cup {e.of} ELSE warned
=============================================================================
