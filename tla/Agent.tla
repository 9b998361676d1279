-------------------------------- MODULE Agent --------------------------------
(***************************************************************************)
(* ReasoningAgent.investigate (selene/agent/agent.py): one run of the loop *)
(* that asks the LLM, executes the tools it calls and validates its final  *)
(* Diagnosis.  Runs share nothing but the store they read and the event    *)
(* handler, so one run is modelled.                                        *)
(*                                                                         *)
(* Every await is a place where the run may be cancelled and, if it awaits *)
(* the handler, where the handler may raise.  phase names the await the    *)
(* run is at.  An event counts as emitted when the handler is called.      *)
(***************************************************************************)
EXTENDS Integers, Sequences

CONSTANTS
    Tools,          \* tool names with an implementation
    Lookup,         \* lookup_failure_mode, the tool that ranks hypotheses
    UnknownTool,    \* a name the LLM makes up
    FailureModes,   \* identifiers an LLM may cite
    KB,             \* the identifiers in the knowledge base
    MaxIterations,  \* max_iterations
    MaxCalls        \* bound: tool calls in one LLM response

ASSUME ToolAssumption == Lookup \in Tools /\ UnknownTool \notin Tools
ASSUME KbAssumption == KB \subseteq FailureModes
ASSUME LoopAssumption == MaxIterations \in Nat /\ MaxCalls \in Nat

VARIABLES
    phase,      \* the await the run is at, or how it ended
    turn,       \* completed iterations of the loop
    tool_free,  \* last_turn_was_tool_free
    messages,   \* the conversation sent to the LLM
    calls,      \* tool calls of this response not executed yet
    diagnosis,  \* the validated Diagnosis, or NoDiagnosis
    log         \* events emitted

vars == <<phase, turn, tool_free, messages, calls, diagnosis, log>>

-----------------------------------------------------------------------------
(* Data.                                                                   *)

\* A tool call: its id is unique in the conversation.
Call == [turn : Nat, index : Nat, tool : Tools \cup {UnknownTool}]

\* The text of a tool-free turn: does it validate against the Diagnosis
\* schema, and which failure modes does it cite?
Diagnosis == [schema : BOOLEAN, matched : SUBSET FailureModes]
NoDiagnosis == [schema |-> FALSE, matched |-> {}]

EventTypes == {"agent_run_started", "tool_call_started", "tool_call_completed",
               "hypothesis_ladder_updated", "agent_run_completed",
               "agent_run_failed"}

\* A message carries the calls it makes (assistant) or answers (tool).
Messages == [role : {"system", "user", "assistant", "tool"}, of : Seq(Call)]

Nobody == "none"
Event(type, of) == [type |-> type, of |-> of]
Message(role, of) == [role |-> role, of |-> of]

Emit(type, of) == log' = Append(log, Event(type, of))

Awaiting == {"emitStarted", "complete", "emitCall", "emitLadder", "emitResult",
             "emitHypothesis", "emitCompleted", "emitFailed"}
AwaitingHandler == Awaiting \ {"complete"}
Over == {"returned", "timeout", "llm_error", "handler_error", "cancelled"}

\* Lists of tool calls the LLM may make in this turn.
ToolCallLists ==
    UNION {{[i \in 1..n |-> [turn |-> turn, index |-> i, tool |-> names[i]]] :
               names \in [1..n -> Tools \cup {UnknownTool}]} :
           n \in 1..MaxCalls}

\* Mutant: one cited identifier in the knowledge base is enough.
KnownSome(d) == d.matched \cap KB # {}

Known(d) == d.matched \subseteq KB

Init ==
    /\ phase = "idle" /\ turn = 0 /\ tool_free = FALSE
    /\ messages = <<>> /\ calls = <<>>
    /\ diagnosis = NoDiagnosis
    /\ log = <<>>

-----------------------------------------------------------------------------
(* The loop.                                                               *)

\* Mutant: an iteration too many.
AskAgainOnceMore(done) ==
    IF done <= MaxIterations
      THEN phase' = "complete" /\ UNCHANGED log
      ELSE phase' = "emitFailed" /\ Emit("agent_run_failed", Nobody)

\* Mutant: the loop runs out without reporting it.
AskAgainOrNothing(done) ==
    /\ done < MaxIterations
    /\ phase' = "complete"
    /\ UNCHANGED log

\* The head of the for loop with this many iterations done: ask the LLM
\* again, or report that the iterations are exhausted.
AskAgain(done) ==
    IF done < MaxIterations
      THEN phase' = "complete" /\ UNCHANGED log
      ELSE phase' = "emitFailed" /\ Emit("agent_run_failed", Nobody)

Begin ==
    /\ phase = "idle"
    /\ phase' = "emitStarted"
    /\ Emit("agent_run_started", Nobody)
    /\ UNCHANGED <<turn, tool_free, messages, calls, diagnosis>>

\* The handler took AgentRunStarted: build the prompt, enter the loop.
Enter ==
    /\ phase = "emitStarted"
    /\ messages' = <<Message("system", <<>>), Message("user", <<>>)>>
    /\ AskAgain(0)
    /\ UNCHANGED <<turn, tool_free, calls, diagnosis>>

\* Mutant: tools stay in the request after a failed Diagnosis.
ToolsAlwaysOffered == TRUE

\* complete() is given the tools.
ToolsOffered == ~tool_free

\* The next call of the response is announced.
StartCall(list) ==
    /\ calls' = list
    /\ phase' = "emitCall"
    /\ Emit("tool_call_started", Head(list))

\* The LLM calls tools.  It can only do so if the request offers some.
LlmCallsTools ==
    /\ phase = "complete" /\ ToolsOffered
    /\ \E list \in ToolCallLists :
          /\ messages' = Append(messages, Message("assistant", list))
          /\ StartCall(list)
    /\ UNCHANGED <<turn, tool_free, diagnosis>>

\* A tool-free turn that is no valid Diagnosis, or cites unknown failure
\* modes: tell the LLM and go round again, without tools.
LlmRejected ==
    /\ phase = "complete"
    /\ \E d \in Diagnosis :
          /\ ~d.schema \/ ~Known(d)
          /\ messages' = messages \o <<Message("assistant", <<>>),
                                       Message("user", <<>>)>>
    /\ tool_free' = TRUE
    /\ turn' = turn + 1
    /\ AskAgain(turn + 1)
    /\ UNCHANGED <<calls, diagnosis>>

\* Mutant: the diagnosis is not announced as a hypothesis.
ConcludeAtOnce(d) ==
    /\ phase' = "emitCompleted"
    /\ Emit("agent_run_completed", d)

Conclude(d) ==
    /\ phase' = "emitHypothesis"
    /\ Emit("hypothesis_ladder_updated", d)

LlmConcludes ==
    /\ phase = "complete"
    /\ \E d \in Diagnosis :
          /\ d.schema /\ Known(d)
          /\ diagnosis' = d
          /\ Conclude(d)
    /\ messages' = Append(messages, Message("assistant", <<>>))
    /\ UNCHANGED <<turn, tool_free, calls>>

\* The endpoint fails or its answer cannot be read: nothing catches it.
LlmRaises ==
    /\ phase = "complete"
    /\ phase' = "llm_error"
    /\ UNCHANGED <<turn, tool_free, messages, calls, diagnosis, log>>

\* The handler took ToolCallStarted: dispatch the tool.  A name without an
\* implementation raises, any tool may; the exception becomes the result.  A
\* ranking is announced before the result is.
Execute ==
    /\ phase = "emitCall"
    /\ \E ok \in BOOLEAN :
          /\ Head(calls).tool = UnknownTool => ~ok
          /\ IF Head(calls).tool = Lookup /\ ok
               THEN /\ phase' = "emitLadder"
                    /\ Emit("hypothesis_ladder_updated", Head(calls))
               ELSE /\ phase' = "emitResult"
                    /\ Emit("tool_call_completed", Head(calls))
    /\ UNCHANGED <<turn, tool_free, messages, calls, diagnosis>>

LadderEmitted ==
    /\ phase = "emitLadder"
    /\ phase' = "emitResult"
    /\ Emit("tool_call_completed", Head(calls))
    /\ UNCHANGED <<turn, tool_free, messages, calls, diagnosis>>

\* Mutant: a call to an unknown tool gets no tool message.
AnswerKnownTools ==
    messages' = IF Head(calls).tool = UnknownTool THEN messages
                ELSE Append(messages, Message("tool", <<Head(calls)>>))

Answer == messages' = Append(messages, Message("tool", <<Head(calls)>>))

\* The handler took ToolCallCompleted: give the LLM the result, go on with
\* the next call or, after the last one, with the next iteration.
RecordResult ==
    /\ phase = "emitResult"
    /\ Answer
    /\ IF Len(calls) > 1
         THEN StartCall(Tail(calls)) /\ UNCHANGED <<turn, tool_free>>
         ELSE /\ calls' = <<>>
              /\ tool_free' = FALSE
              /\ turn' = turn + 1
              /\ AskAgain(turn + 1)
    /\ UNCHANGED diagnosis

Completed ==
    /\ phase = "emitHypothesis"
    /\ phase' = "emitCompleted"
    /\ Emit("agent_run_completed", diagnosis)
    /\ UNCHANGED <<turn, tool_free, messages, calls, diagnosis>>

\* The last event was taken: return the Diagnosis, or raise.
Leave ==
    /\ \/ phase = "emitCompleted" /\ phase' = "returned"
       \/ phase = "emitFailed"    /\ phase' = "timeout"
    /\ UNCHANGED <<turn, tool_free, messages, calls, diagnosis, log>>

HandlerRaises ==
    /\ phase \in AwaitingHandler
    /\ phase' = "handler_error"
    /\ UNCHANGED <<turn, tool_free, messages, calls, diagnosis, log>>

Cancel ==
    /\ phase \in Awaiting
    /\ phase' = "cancelled"
    /\ UNCHANGED <<turn, tool_free, messages, calls, diagnosis, log>>

-----------------------------------------------------------------------------
Step ==
    \/ Begin \/ Enter
    \/ LlmCallsTools \/ LlmRejected \/ LlmConcludes \/ LlmRaises
    \/ Execute \/ LadderEmitted \/ RecordResult \/ Completed \/ Leave

Ended == phase \in Over /\ UNCHANGED vars

Next == Step \/ HandlerRaises \/ Cancel \/ Ended

Spec == Init /\ [][Next]_vars

\* The LLM client answers or times out, tools and the handler return.
FairSpec == Spec /\ WF_vars(Step)

-----------------------------------------------------------------------------
(* Properties.                                                             *)

TypeOK ==
    /\ phase \in {"idle"} \cup Awaiting \cup Over
    /\ turn \in 0..MaxIterations
    /\ tool_free \in BOOLEAN
    /\ calls \in Seq(Call)
    /\ diagnosis \in Diagnosis
    /\ messages \in Seq(Messages)
    /\ \A i \in DOMAIN log : log[i].type \in EventTypes

\* Whenever the LLM is asked, its conversation is one the chat protocol
\* accepts: every tool call of an earlier response has its answer right
\* behind that response, in the order of the calls, also when the tool is
\* unknown or raised, and the last word is not the LLM's own.
ConversationWellFormed ==
    phase = "complete" =>
        /\ messages[Len(messages)].role \in {"user", "tool"}
        /\ \A i \in DOMAIN messages :
              messages[i].role = "assistant" =>
                 /\ Len(messages[i].of) < Len(messages) - i + 1
                 /\ \A j \in 1..Len(messages[i].of) :
                       messages[i + j] = Message("tool", <<messages[i].of[j]>>)

\* The operator is shown the results the LLM was given: the calls completed
\* in the trace are the calls answered in the conversation, but for the one
\* whose completion the handler is being told of.
TraceMatchesConversation ==
    LET shown == {log[i].of : i \in {j \in DOMAIN log :
                                 log[j].type = "tool_call_completed"}}
        given == {messages[i].of[1] : i \in {j \in DOMAIN messages :
                                      messages[j].role = "tool"}}
    IN  /\ given \subseteq shown
        /\ \A c \in shown \ given : calls # <<>> /\ c = Head(calls)

\* Once the model has attempted a Diagnosis it gets no tools any more, and
\* nothing brings them back: a failed attempt leaves only attempts.
ToolsWithdrawn == [][tool_free => tool_free']_vars

\* A completed run cites only failure modes of the knowledge base.
GroundedDiagnosis ==
    \A i \in DOMAIN log :
        log[i].type = "agent_run_completed" =>
            log[i].of.schema /\ log[i].of.matched \subseteq KB

\* A run whose LLM fails tells the event stream so: AgentRunFailed documents
\* "llm_error" as one of its reasons.
LlmErrorReported ==
    phase = "llm_error" => log[Len(log)].type = "agent_run_failed"

\* A run comes to an end however the LLM, the tools and the handler behave.
Ends == <>(phase \in Over)

Trace == INSTANCE RunProtocol WITH log <- log

\* The run emits its events in the order their consumers rely on.
TraceSpec == Trace!Spec
=============================================================================
