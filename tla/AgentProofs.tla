----------------------------- MODULE AgentProofs -----------------------------
(***************************************************************************)
(* Theorems about Agent, for any tools, knowledge base and iteration       *)
(* limit, and for responses with any number of tool calls: the trace, the  *)
(* conversation with the LLM, and the withdrawal of the tools.             *)
(***************************************************************************)
EXTENDS Agent, SequenceTheorems, TLAPS

InLoop == {"complete", "emitCall", "emitLadder", "emitResult"}
InTools == {"emitCall", "emitLadder", "emitResult"}

\* The loop variables fit the phase.
LoopInv ==
    /\ phase \in InLoop => turn < MaxIterations
    /\ phase \in {"idle", "emitStarted"} => turn = 0
    /\ phase \in InTools <=> calls # <<>> /\ phase \notin Over
    /\ phase \in {"emitHypothesis", "emitCompleted"} =>
          diagnosis.schema /\ Known(diagnosis)

LastIs(type, of) == Len(log) > 0 /\ log[Len(log)] = Event(type, of)

\* The last events of the trace fit the phase.
TraceInv ==
    /\ phase = "idle" => log = <<>>
    /\ phase # "idle" => log # <<>>
    /\ phase \in {"emitStarted", "complete", "emitResult"} =>
          log[Len(log)].type \in {"agent_run_started", "tool_call_completed"}
    /\ phase = "emitCall" => LastIs("tool_call_started", Head(calls))
    /\ phase = "emitLadder" =>
          /\ LastIs("hypothesis_ladder_updated", Head(calls))
          /\ log[Len(log) - 1].type = "tool_call_started"
    /\ phase = "emitHypothesis" =>
          /\ LastIs("hypothesis_ladder_updated", diagnosis)
          /\ log[Len(log) - 1].type # "tool_call_started"

Events == [type : EventTypes, of : {Nobody} \cup Call \cup Diagnosis]
LogType == log \in Seq(Events)

IInv == TypeOK /\ LogType /\ LoopInv /\ TraceInv

-----------------------------------------------------------------------------
\* The tool calls of a response are a non-empty list of calls.
LEMMA ToolCallListsType ==
    ASSUME NEW list \in ToolCallLists, turn \in Nat
    PROVE  list \in Seq(Call) /\ list # <<>>
<1>1. PICK n \in 1..MaxCalls :
             \E names \in [1..n -> Tools \cup {UnknownTool}] :
                list = [i \in 1..n |->
                           [turn |-> turn, index |-> i, tool |-> names[i]]]
  BY DEF ToolCallLists
<1>2. n \in Nat /\ n >= 1
  BY LoopAssumption
<1>3. list \in [1..n -> Call]
  BY <1>1, <1>2 DEF Call
<1>4. list \in Seq(Call) /\ Len(list) = n
  BY <1>2, <1>3
<1>5. QED
  BY <1>2, <1>4

\* Emitting an event extends the log by it.
LEMMA EmitLog ==
    ASSUME LogType, NEW type \in EventTypes, NEW of, Emit(type, of),
           of \in {Nobody} \cup Call \cup Diagnosis
    PROVE  /\ LogType' /\ Len(log') = Len(log) + 1 /\ Len(log) \in Nat
           /\ log' # <<>>
           /\ log'[Len(log')] = Event(type, of)
           /\ \A i \in 1..Len(log) : log'[i] = log[i]
           /\ \A i \in DOMAIN log' : log'[i].type \in EventTypes
<1>1. Event(type, of) \in Events
  BY DEF Event, Events
<1>2. LogType'
  BY <1>1 DEF LogType, Emit
<1>3. \A i \in DOMAIN log' : log'[i] \in Events
  BY <1>2 DEF LogType
<1>4. \A i \in DOMAIN log' : log'[i].type \in EventTypes
  BY <1>3 DEF Events
<1>5. QED
  BY <1>1, <1>2, <1>4 DEF LogType, Emit

LEMMA InitInv == Init => IInv
<1> SUFFICES ASSUME Init PROVE IInv
  OBVIOUS
<1>1. NoDiagnosis \in Diagnosis
  BY DEF NoDiagnosis, Diagnosis
<1>2. TypeOK
  <2>1. turn \in 0..MaxIterations
    BY LoopAssumption DEF Init
  <2>2. \A i \in DOMAIN log : log[i].type \in EventTypes
    BY DEF Init
  <2>3. calls \in Seq(Call) /\ messages \in Seq(Messages)
    BY DEF Init
  <2>4. QED
    BY <1>1, <2>1, <2>2, <2>3 DEF Init, TypeOK
<1>3. LogType /\ TraceInv /\ LoopInv
  BY DEF Init, LogType, TraceInv, LoopInv, InLoop, InTools, Over
<1>4. QED
  BY <1>2, <1>3 DEF IInv

LEMMA StutterInv == IInv /\ UNCHANGED vars => IInv'
<1> SUFFICES ASSUME IInv, UNCHANGED vars PROVE IInv'
  OBVIOUS
<1>1. TypeOK' /\ LogType'
  BY DEF vars, IInv, TypeOK, LogType
<1>2. LoopInv'
  BY DEF vars, IInv, LoopInv, Known
<1>3. TraceInv'
  BY DEF vars, IInv, TraceInv, LastIs
<1>4. QED
  BY <1>1, <1>2, <1>3 DEF IInv

\* Going round the loop again leaves the trace between two calls, or failed.
LEMMA AskAgainInv ==
    ASSUME LogType, NEW done \in 0..MaxIterations, AskAgain(done)
    PROVE  /\ LogType' /\ \A i \in DOMAIN log' : log'[i].type \in EventTypes
           /\ phase' \in {"complete", "emitFailed"}
           /\ phase' = "complete" => done < MaxIterations /\ log' = log
           /\ phase' = "emitFailed" => log' # <<>>
<1>1. CASE done < MaxIterations
  <2>1. \A i \in DOMAIN log : log[i].type \in EventTypes
    <3>1. \A i \in DOMAIN log : log[i] \in Events
      BY DEF LogType
    <3>2. QED
      BY <3>1 DEF Events
  <2>2. QED
    BY <1>1, <2>1 DEF AskAgain, LogType
<1>2. CASE ~(done < MaxIterations)
  <2>1. Emit("agent_run_failed", Nobody) /\ phase' = "emitFailed"
    BY <1>2 DEF AskAgain
  <2>2. QED
    BY <2>1, EmitLog DEF EventTypes
<1>3. QED
  BY <1>1, <1>2

LEMMA StartCallInv ==
    ASSUME LogType, NEW list \in Seq(Call), list # <<>>, StartCall(list)
    PROVE  /\ LogType' /\ \A i \in DOMAIN log' : log'[i].type \in EventTypes
           /\ phase' = "emitCall" /\ calls' = list
           /\ LastIs("tool_call_started", Head(calls))' /\ log' # <<>>
           /\ calls' \in Seq(Call) /\ calls' # <<>>
<1>1. Head(list) \in Call
  OBVIOUS
<1>2. "tool_call_started" \in EventTypes
  BY DEF EventTypes
<1>3. Emit("tool_call_started", Head(list))
  BY DEF StartCall
<1>4. /\ LogType' /\ Len(log') = Len(log) + 1 /\ Len(log) \in Nat /\ log' # <<>>
      /\ log'[Len(log')] = Event("tool_call_started", Head(list))
      /\ \A i \in DOMAIN log' : log'[i].type \in EventTypes
  BY <1>1, <1>2, <1>3, EmitLog
<1>5. QED
  BY <1>4 DEF StartCall, LastIs

LEMMA StepInv == IInv /\ Next => IInv'
<1> SUFFICES ASSUME IInv, Next PROVE IInv'
  OBVIOUS
<1> USE DEF IInv
<1>0. \A i \in DOMAIN log : log[i].type \in EventTypes
  BY DEF TypeOK
<1>1. CASE Begin
  <2>1. Emit("agent_run_started", Nobody) /\ phase' = "emitStarted"
        /\ UNCHANGED <<turn, tool_free, messages, calls, diagnosis>>
    BY <1>1 DEF Begin
  <2>2. /\ LogType' /\ log' # <<>>
        /\ log'[Len(log')] = Event("agent_run_started", Nobody)
        /\ \A i \in DOMAIN log' : log'[i].type \in EventTypes
    BY <2>1, EmitLog DEF EventTypes
  <2>3. TypeOK'
    BY <2>1, <2>2 DEF TypeOK, Awaiting
  <2>4. LoopInv'
    BY <1>1, <2>1 DEF Begin, LoopInv, InLoop, InTools, Over, Known
  <2>5. TraceInv'
    BY <2>1, <2>2 DEF TraceInv, Event
  <2>6. QED
    BY <2>2, <2>3, <2>4, <2>5
<1>2. CASE LlmRaises \/ HandlerRaises \/ Cancel \/ Leave
  <2>1. /\ phase \in Awaiting /\ phase' \in Over
        /\ UNCHANGED <<turn, tool_free, messages, calls, diagnosis, log>>
    BY <1>2 DEF LlmRaises, HandlerRaises, Cancel, Leave, AwaitingHandler,
                Awaiting, Over
  <2>2. TypeOK' /\ LogType'
    BY <2>1 DEF TypeOK, LogType
  <2>3. LoopInv'
    BY <2>1 DEF LoopInv, InLoop, InTools, Over
  <2>4. TraceInv'
    BY <2>1 DEF TraceInv, Awaiting, Over
  <2>5. QED
    BY <2>2, <2>3, <2>4
<1>3. CASE Enter
  <2>1. /\ phase = "emitStarted" /\ AskAgain(0)
        /\ messages' = <<Message("system", <<>>), Message("user", <<>>)>>
        /\ UNCHANGED <<turn, tool_free, calls, diagnosis>>
    BY <1>3 DEF Enter
  <2>2. 0 \in 0..MaxIterations
    BY LoopAssumption
  <2>3. /\ LogType' /\ \A i \in DOMAIN log' : log'[i].type \in EventTypes
        /\ phase' \in {"complete", "emitFailed"}
        /\ phase' = "complete" => 0 < MaxIterations /\ log' = log
        /\ phase' = "emitFailed" => log' # <<>>
    BY <2>1, <2>2, AskAgainInv
  <2>4. messages' \in Seq(Messages)
    BY <2>1 DEF Message, Messages
  <2>5. TypeOK'
    BY <2>1, <2>3, <2>4 DEF TypeOK, Awaiting
  <2>6. turn = 0
    BY <2>1 DEF LoopInv
  <2>7. LoopInv'
    BY <2>1, <2>3, <2>6 DEF LoopInv, InLoop, InTools, Over, Known
  <2>8. TraceInv'
    BY <2>1, <2>3 DEF TraceInv
  <2>9. QED
    BY <2>3, <2>5, <2>7, <2>8
<1>4. CASE LlmCallsTools
  <2>1. PICK list \in ToolCallLists :
           /\ messages' = Append(messages, Message("assistant", list))
           /\ StartCall(list)
    BY <1>4 DEF LlmCallsTools
  <2>2. /\ phase = "complete"
        /\ UNCHANGED <<turn, tool_free, diagnosis>>
    BY <1>4 DEF LlmCallsTools
  <2>3. list \in Seq(Call) /\ list # <<>>
    BY ToolCallListsType, LoopAssumption DEF TypeOK
  <2>4. /\ LogType' /\ \A i \in DOMAIN log' : log'[i].type \in EventTypes
        /\ phase' = "emitCall" /\ calls' = list
        /\ LastIs("tool_call_started", Head(calls))' /\ log' # <<>>
    BY <2>1, <2>3, StartCallInv
  <2>5. messages' \in Seq(Messages)
    <3>1. Message("assistant", list) \in Messages
      BY <2>3 DEF Message, Messages
    <3>2. QED
      BY <2>1, <3>1 DEF TypeOK
  <2>6. TypeOK'
    BY <2>2, <2>3, <2>4, <2>5 DEF TypeOK, Awaiting
  <2>7. LoopInv'
    BY <2>2, <2>3, <2>4 DEF LoopInv, InLoop, InTools, Over
  <2>8. TraceInv'
    BY <2>4 DEF TraceInv
  <2>9. QED
    BY <2>4, <2>6, <2>7, <2>8
<1>5. CASE LlmRejected
  <2>1. /\ phase = "complete" /\ AskAgain(turn + 1)
        /\ messages' = messages \o <<Message("assistant", <<>>),
                                     Message("user", <<>>)>>
        /\ tool_free' = TRUE /\ turn' = turn + 1
        /\ UNCHANGED <<calls, diagnosis>>
    BY <1>5 DEF LlmRejected
  <2>2. turn + 1 \in 0..MaxIterations
    BY <2>1, LoopAssumption DEF TypeOK, LoopInv, InLoop
  <2>3. /\ LogType' /\ \A i \in DOMAIN log' : log'[i].type \in EventTypes
        /\ phase' \in {"complete", "emitFailed"}
        /\ phase' = "complete" => turn + 1 < MaxIterations /\ log' = log
        /\ phase' = "emitFailed" => log' # <<>>
    BY <2>1, <2>2, AskAgainInv
  <2>4. messages' \in Seq(Messages)
    <3>1. <<Message("assistant", <<>>), Message("user", <<>>)>>
             \in Seq(Messages)
      BY DEF Message, Messages
    <3>2. QED
      BY <2>1, <3>1 DEF TypeOK
  <2>5. TypeOK'
    BY <2>1, <2>2, <2>3, <2>4 DEF TypeOK, Awaiting
  <2>6. LoopInv'
    BY <2>1, <2>3 DEF LoopInv, InLoop, InTools, Over
  <2>7. TraceInv'
    BY <2>1, <2>3 DEF TraceInv
  <2>8. QED
    BY <2>3, <2>5, <2>6, <2>7
<1>6. CASE LlmConcludes
  <2>1. PICK d \in Diagnosis :
           /\ d.schema /\ Known(d)
           /\ diagnosis' = d /\ phase' = "emitHypothesis"
           /\ Emit("hypothesis_ladder_updated", d)
    BY <1>6 DEF LlmConcludes, Conclude
  <2>2. /\ phase = "complete"
        /\ messages' = Append(messages, Message("assistant", <<>>))
        /\ UNCHANGED <<turn, tool_free, calls>>
    BY <1>6 DEF LlmConcludes
  <2>3. /\ LogType' /\ \A i \in DOMAIN log' : log'[i].type \in EventTypes
        /\ Len(log') = Len(log) + 1 /\ Len(log) \in Nat /\ log' # <<>>
        /\ log'[Len(log')] = Event("hypothesis_ladder_updated", d)
        /\ \A i \in 1..Len(log) : log'[i] = log[i]
    BY <2>1, EmitLog DEF EventTypes
  <2>4. messages' \in Seq(Messages)
    <3>1. Message("assistant", <<>>) \in Messages
      BY DEF Message, Messages
    <3>2. QED
      BY <2>2, <3>1 DEF TypeOK
  <2>5. TypeOK'
    BY <2>1, <2>2, <2>3, <2>4 DEF TypeOK, Awaiting
  <2>6. LoopInv'
    BY <2>1, <2>2 DEF LoopInv, InLoop, InTools, Over, Known
  <2>7. log'[Len(log') - 1].type # "tool_call_started"
    <3>1. log # <<>> /\ log[Len(log)].type # "tool_call_started"
      BY <2>2 DEF TraceInv
    <3>2. Len(log) \in 1..Len(log) /\ Len(log') - 1 = Len(log)
      BY <2>3, <3>1 DEF LogType
    <3>3. QED
      BY <2>3, <3>1, <3>2
  <2>8. TraceInv'
    BY <2>1, <2>3, <2>7 DEF TraceInv, LastIs
  <2>9. QED
    BY <2>3, <2>5, <2>6, <2>8
<1>7. CASE Execute
  <2>1. /\ phase = "emitCall" /\ LastIs("tool_call_started", Head(calls))
        /\ UNCHANGED <<turn, tool_free, messages, calls, diagnosis>>
    BY <1>7 DEF Execute, TraceInv
  <2>2. Head(calls) \in Call
    BY <2>1 DEF TypeOK, LoopInv, InTools
  <2>3. CASE /\ phase' = "emitLadder"
             /\ Emit("hypothesis_ladder_updated", Head(calls))
    <3>1. /\ LogType' /\ \A i \in DOMAIN log' : log'[i].type \in EventTypes
          /\ Len(log') = Len(log) + 1 /\ Len(log) \in Nat /\ log' # <<>>
          /\ log'[Len(log')] = Event("hypothesis_ladder_updated", Head(calls))
          /\ \A i \in 1..Len(log) : log'[i] = log[i]
      BY <2>2, <2>3, EmitLog DEF EventTypes
    <3>2. log'[Len(log') - 1].type = "tool_call_started"
      <4>1. Len(log) \in 1..Len(log) /\ Len(log') - 1 = Len(log)
        BY <2>1, <3>1 DEF LastIs
      <4>2. QED
        BY <2>1, <3>1, <4>1 DEF LastIs, Event
    <3>3. TypeOK' /\ LoopInv'
      BY <2>1, <2>3, <3>1
         DEF TypeOK, LoopInv, InLoop, InTools, Over, Awaiting
    <3>4. TraceInv'
      BY <2>1, <2>3, <3>1, <3>2 DEF TraceInv, LastIs
    <3>5. QED
      BY <3>1, <3>3, <3>4
  <2>4. CASE /\ phase' = "emitResult"
             /\ Emit("tool_call_completed", Head(calls))
    <3>1. /\ LogType' /\ \A i \in DOMAIN log' : log'[i].type \in EventTypes
          /\ log' # <<>>
          /\ log'[Len(log')] = Event("tool_call_completed", Head(calls))
      BY <2>2, <2>4, EmitLog DEF EventTypes
    <3>2. TypeOK' /\ LoopInv'
      BY <2>1, <2>4, <3>1
         DEF TypeOK, LoopInv, InLoop, InTools, Over, Awaiting
    <3>3. TraceInv'
      BY <2>4, <3>1 DEF TraceInv, Event
    <3>4. QED
      BY <3>1, <3>2, <3>3
  <2>5. QED
    BY <1>7, <2>3, <2>4 DEF Execute
<1>8. CASE LadderEmitted
  <2>1. /\ phase = "emitLadder" /\ phase' = "emitResult"
        /\ Emit("tool_call_completed", Head(calls))
        /\ UNCHANGED <<turn, tool_free, messages, calls, diagnosis>>
    BY <1>8 DEF LadderEmitted
  <2>2. Head(calls) \in Call
    BY <2>1 DEF TypeOK, LoopInv, InTools, Over
  <2>3. /\ LogType' /\ \A i \in DOMAIN log' : log'[i].type \in EventTypes
        /\ log' # <<>>
        /\ log'[Len(log')] = Event("tool_call_completed", Head(calls))
    BY <2>1, <2>2, EmitLog DEF EventTypes
  <2>4. TypeOK' /\ LoopInv'
    BY <2>1, <2>3 DEF TypeOK, LoopInv, InLoop, InTools, Over, Awaiting
  <2>5. TraceInv'
    BY <2>1, <2>3 DEF TraceInv, Event
  <2>6. QED
    BY <2>3, <2>4, <2>5
<1>9. CASE RecordResult
  <2>1. /\ phase = "emitResult" /\ diagnosis' = diagnosis
        /\ messages' = Append(messages, Message("tool", <<Head(calls)>>))
        /\ calls \in Seq(Call) /\ calls # <<>>
    BY <1>9 DEF RecordResult, Answer, TypeOK, LoopInv, InTools, Over
  <2>2. messages' \in Seq(Messages)
    <3>1. <<Head(calls)>> \in Seq(Call)
      BY <2>1
    <3>2. Message("tool", <<Head(calls)>>) \in Messages
      BY <3>1 DEF Message, Messages
    <3>3. QED
      BY <2>1, <3>2 DEF TypeOK
  <2>3. turn < MaxIterations /\ turn \in Nat
    BY <2>1, LoopAssumption DEF TypeOK, LoopInv, InLoop
  <2>4. CASE Len(calls) > 1
    <3>1. StartCall(Tail(calls)) /\ UNCHANGED <<turn, tool_free>>
      BY <1>9, <2>4 DEF RecordResult
    <3>2. Tail(calls) \in Seq(Call) /\ Tail(calls) # <<>>
      BY <2>1, <2>4
    <3>3. /\ LogType' /\ \A i \in DOMAIN log' : log'[i].type \in EventTypes
          /\ phase' = "emitCall" /\ calls' \in Seq(Call) /\ calls' # <<>>
          /\ LastIs("tool_call_started", Head(calls))' /\ log' # <<>>
      BY <3>1, <3>2, StartCallInv
    <3>4. TypeOK'
      BY <2>1, <2>2, <3>1, <3>3 DEF TypeOK, Awaiting
    <3>5. LoopInv'
      BY <2>3, <3>1, <3>3 DEF LoopInv, InLoop, InTools, Over
    <3>6. TraceInv'
      BY <3>3 DEF TraceInv
    <3>7. QED
      BY <3>3, <3>4, <3>5, <3>6
  <2>5. CASE ~(Len(calls) > 1)
    <3>1. /\ calls' = <<>> /\ tool_free' = FALSE /\ turn' = turn + 1
          /\ AskAgain(turn + 1)
      BY <1>9, <2>5 DEF RecordResult
    <3>2. turn + 1 \in 0..MaxIterations
      BY <2>3, LoopAssumption
    <3>3. /\ LogType' /\ \A i \in DOMAIN log' : log'[i].type \in EventTypes
          /\ phase' \in {"complete", "emitFailed"}
          /\ phase' = "complete" => turn + 1 < MaxIterations /\ log' = log
          /\ phase' = "emitFailed" => log' # <<>>
      BY <3>1, <3>2, AskAgainInv
    <3>4. calls' \in Seq(Call)
      BY <3>1
    <3>5. TypeOK'
      BY <2>1, <2>2, <3>1, <3>2, <3>3, <3>4 DEF TypeOK, Awaiting
    <3>6. LoopInv'
      BY <3>1, <3>3 DEF LoopInv, InLoop, InTools, Over
    <3>7. TraceInv'
      BY <2>1, <3>3 DEF TraceInv
    <3>8. QED
      BY <3>3, <3>5, <3>6, <3>7
  <2>6. QED
    BY <2>4, <2>5
<1>10. CASE Completed
  <2>1. /\ phase = "emitHypothesis" /\ phase' = "emitCompleted"
        /\ Emit("agent_run_completed", diagnosis)
        /\ UNCHANGED <<turn, tool_free, messages, calls, diagnosis>>
    BY <1>10 DEF Completed
  <2>2. diagnosis \in Diagnosis
    BY DEF TypeOK
  <2>3. /\ LogType' /\ \A i \in DOMAIN log' : log'[i].type \in EventTypes
        /\ log' # <<>>
    BY <2>1, <2>2, EmitLog DEF EventTypes
  <2>4. TypeOK' /\ LoopInv'
    BY <2>1, <2>3
       DEF TypeOK, LoopInv, InLoop, InTools, Over, Awaiting, Known
  <2>5. TraceInv'
    BY <2>1, <2>3 DEF TraceInv
  <2>6. QED
    BY <2>3, <2>4, <2>5
<1>11. CASE Ended
  BY <1>11, StutterInv DEF Ended
<1>12. QED
  BY <1>1, <1>2, <1>3, <1>4, <1>5, <1>6, <1>7, <1>8, <1>9, <1>10, <1>11
     DEF Next, Step

\* The inductive invariant holds in every reachable state.
THEOREM Invariance == Spec => []IInv
<1>1. IInv /\ [Next]_vars => IInv'
  BY StepInv, StutterInv
<1>2. QED
  BY <1>1, InitInv, PTL DEF Spec

\* The variables of an investigation keep their types; in particular the
\* iteration count never exceeds max_iterations.
THEOREM TypeCorrect == Spec => []TypeOK
<1>1. IInv => TypeOK
  BY DEF IInv
<1>2. QED
  BY <1>1, Invariance, PTL

-----------------------------------------------------------------------------
(* The trace protocol.                                                     *)

\* An emitted event that may follow is a step of the protocol.
LEMMA EmitFollows ==
    ASSUME LogType, NEW type \in EventTypes, NEW of, Emit(type, of),
           of \in {Nobody} \cup Call \cup Diagnosis,
           Trace!Follows(Event(type, of))
    PROVE  Trace!Next
<1>1. Len(log') = Len(log) + 1 /\ log'[Len(log')] = Event(type, of)
  BY EmitLog
<1>2. log' = Append(log, Event(type, of))
  BY DEF Emit
<1>3. QED
  BY <1>1, <1>2 DEF Trace!Next

\* Between calls a run may start a call, announce a diagnosis or fail.
LEMMA FromBetween ==
    ASSUME log # <<>>,
           log[Len(log)].type \in {"agent_run_started", "tool_call_completed"}
    PROVE  \A of : /\ Trace!Follows(Event("tool_call_started", of))
                   /\ Trace!Follows(Event("hypothesis_ladder_updated", of))
                   /\ Trace!Follows(Event("agent_run_failed", of))
  BY DEF Trace!Follows, Trace!BetweenCalls, Trace!TypeOf, Trace!Last, Event

LEMMA AskAgainTrace ==
    ASSUME LogType, log # <<>>, NEW done, AskAgain(done),
           log[Len(log)].type \in {"agent_run_started", "tool_call_completed"}
    PROVE  [Trace!Next]_log
<1>1. CASE done < MaxIterations
  BY <1>1 DEF AskAgain
<1>2. CASE ~(done < MaxIterations)
  <2>1. Emit("agent_run_failed", Nobody)
    BY <1>2 DEF AskAgain
  <2>2. Trace!Follows(Event("agent_run_failed", Nobody))
    BY FromBetween
  <2>3. QED
    BY <2>1, <2>2, EmitFollows DEF EventTypes
<1>3. QED
  BY <1>1, <1>2

LEMMA StartCallTrace ==
    ASSUME LogType, log # <<>>, NEW list \in Seq(Call), list # <<>>,
           StartCall(list),
           log[Len(log)].type \in {"agent_run_started", "tool_call_completed"}
    PROVE  [Trace!Next]_log
<1>1. Head(list) \in Call
  OBVIOUS
<1>2. QED
  BY <1>1, FromBetween, EmitFollows DEF StartCall, EventTypes

LEMMA TraceStep == IInv /\ [Next]_vars => [Trace!Next]_log
<1> SUFFICES ASSUME IInv, [Next]_vars PROVE [Trace!Next]_log
  OBVIOUS
<1> USE DEF IInv
<1>1. CASE Begin
  <2>1. Emit("agent_run_started", Nobody) /\ log = <<>>
    BY <1>1 DEF Begin, TraceInv
  <2>2. Trace!Follows(Event("agent_run_started", Nobody))
    BY <2>1 DEF Trace!Follows, Event
  <2>3. QED
    BY <2>1, <2>2, EmitFollows DEF EventTypes
<1>2. CASE Enter \/ LlmRejected
  <2>1. PICK done : AskAgain(done)
    BY <1>2 DEF Enter, LlmRejected
  <2>2. /\ log # <<>>
        /\ log[Len(log)].type \in {"agent_run_started", "tool_call_completed"}
    BY <1>2 DEF Enter, LlmRejected, TraceInv
  <2>3. QED
    BY <2>1, <2>2, AskAgainTrace
<1>3. CASE LlmCallsTools
  <2>1. PICK list \in ToolCallLists : StartCall(list)
    BY <1>3 DEF LlmCallsTools
  <2>2. list \in Seq(Call) /\ list # <<>>
    BY ToolCallListsType, LoopAssumption DEF TypeOK
  <2>3. QED
    BY <1>3, <2>1, <2>2, StartCallTrace DEF LlmCallsTools, TraceInv
<1>4. CASE LlmConcludes
  <2>1. PICK d \in Diagnosis : Emit("hypothesis_ladder_updated", d)
    BY <1>4 DEF LlmConcludes, Conclude
  <2>2. Trace!Follows(Event("hypothesis_ladder_updated", d))
    BY <1>4, FromBetween DEF LlmConcludes, TraceInv
  <2>3. QED
    BY <2>1, <2>2, EmitFollows DEF EventTypes
<1>5. CASE Execute
  <2>1. /\ log # <<>> /\ Head(calls) \in Call
        /\ log[Len(log)] = Event("tool_call_started", Head(calls))
    BY <1>5 DEF Execute, TraceInv, LastIs, TypeOK, LoopInv, InTools, Over
  <2>2. Trace!Follows(Event("hypothesis_ladder_updated", Head(calls)))
    BY <2>1 DEF Trace!Follows, Trace!TypeOf, Trace!Last, Event
  <2>3. Trace!Follows(Event("tool_call_completed", Head(calls)))
    BY <2>1 DEF Trace!Follows, Trace!InCall, Trace!TypeOf, Trace!Last, Event
  <2>4. \/ Emit("hypothesis_ladder_updated", Head(calls))
        \/ Emit("tool_call_completed", Head(calls))
    BY <1>5 DEF Execute
  <2>5. QED
    BY <2>1, <2>2, <2>3, <2>4, EmitFollows DEF EventTypes
<1>6. CASE LadderEmitted
  <2>1. /\ log # <<>> /\ Head(calls) \in Call
        /\ log[Len(log)] = Event("hypothesis_ladder_updated", Head(calls))
        /\ log[Len(log) - 1].type = "tool_call_started"
    BY <1>6
       DEF LadderEmitted, TraceInv, LastIs, TypeOK, LoopInv, InTools, Over
  <2>2. Trace!Follows(Event("tool_call_completed", Head(calls)))
    BY <2>1 DEF Trace!Follows, Trace!InCall, Trace!TypeOf, Trace!Last, Event
  <2>3. QED
    BY <1>6, <2>1, <2>2, EmitFollows DEF LadderEmitted, EventTypes
<1>7. CASE RecordResult
  <2>1. /\ log # <<>> /\ calls \in Seq(Call) /\ calls # <<>>
        /\ log[Len(log)].type \in {"agent_run_started", "tool_call_completed"}
    BY <1>7 DEF RecordResult, TraceInv, TypeOK, LoopInv, InTools, Over
  <2>2. CASE Len(calls) > 1
    <3>1. Tail(calls) \in Seq(Call) /\ Tail(calls) # <<>>
      BY <2>1, <2>2
    <3>2. StartCall(Tail(calls))
      BY <1>7, <2>2 DEF RecordResult
    <3>3. QED
      BY <2>1, <3>1, <3>2, StartCallTrace
  <2>3. CASE ~(Len(calls) > 1)
    <3>1. AskAgain(turn + 1)
      BY <1>7, <2>3 DEF RecordResult
    <3>2. QED
      BY <2>1, <3>1, AskAgainTrace
  <2>4. QED
    BY <2>2, <2>3
<1>8. CASE Completed
  <2>1. /\ log # <<>> /\ diagnosis \in Diagnosis
        /\ log[Len(log)] = Event("hypothesis_ladder_updated", diagnosis)
        /\ log[Len(log) - 1].type # "tool_call_started"
    BY <1>8 DEF Completed, TraceInv, LastIs, TypeOK
  <2>2. Trace!Follows(Event("agent_run_completed", diagnosis))
    BY <2>1 DEF Trace!Follows, Trace!Concluding, Trace!InCall, Trace!TypeOf,
                Trace!Last, Event
  <2>3. QED
    BY <1>8, <2>1, <2>2, EmitFollows DEF Completed, EventTypes
<1>9. CASE LlmRaises \/ HandlerRaises \/ Cancel \/ Leave \/ UNCHANGED vars
  BY <1>9 DEF LlmRaises, HandlerRaises, Cancel, Leave, vars
<1>10. QED
  BY <1>1, <1>2, <1>3, <1>4, <1>5, <1>6, <1>7, <1>8, <1>9
     DEF Next, Step, Ended

\* An investigation emits its events as RunProtocol prescribes.
THEOREM TraceCorrect == Spec => TraceSpec
<1>1. Init => Trace!Init
  BY DEF Init, Trace!Init
<1>2. IInv /\ [Next]_vars => [Trace!Next]_log
  BY TraceStep
<1>3. Spec => Trace!Spec
  BY <1>1, <1>2, Invariance, PTL DEF Spec, Trace!Spec
<1>4. QED
  BY <1>3 DEF TraceSpec

-----------------------------------------------------------------------------
(* Grounding.                                                              *)

\* Adding an event other than an ungrounded completion keeps grounding.
LEMMA EmitGrounded ==
    ASSUME LogType, GroundedDiagnosis, NEW type \in EventTypes, NEW of,
           Emit(type, of), of \in {Nobody} \cup Call \cup Diagnosis,
           type = "agent_run_completed" => of.schema /\ Known(of)
    PROVE  GroundedDiagnosis'
<1>1. /\ LogType' /\ Len(log') = Len(log) + 1 /\ Len(log) \in Nat
      /\ log'[Len(log')] = Event(type, of)
      /\ \A i \in 1..Len(log) : log'[i] = log[i]
  BY EmitLog
<1>2. DOMAIN log = 1..Len(log) /\ DOMAIN log' = 1..(Len(log) + 1)
  BY <1>1 DEF LogType
<1>3. QED
  BY <1>1, <1>2 DEF GroundedDiagnosis, Event, Known

\* Whatever the LLM claims, a completed run cites only failure modes of the
\* knowledge base.
THEOREM GroundedCorrect == Spec => []GroundedDiagnosis
<1>1. Init => GroundedDiagnosis
  BY DEF Init, GroundedDiagnosis
<1>2. IInv /\ GroundedDiagnosis /\ [Next]_vars => GroundedDiagnosis'
  <2> SUFFICES ASSUME IInv, GroundedDiagnosis, [Next]_vars
               PROVE  GroundedDiagnosis'
    OBVIOUS
  <2> USE DEF IInv
  <2>1. CASE log' = log
    BY <2>1 DEF GroundedDiagnosis
  <2>2. CASE Completed
    <3>1. /\ Emit("agent_run_completed", diagnosis) /\ diagnosis \in Diagnosis
          /\ diagnosis.schema /\ Known(diagnosis)
      BY <2>2 DEF Completed, LoopInv, TypeOK
    <3>2. QED
      BY <3>1, EmitGrounded DEF EventTypes
  <2>3. CASE Begin \/ Enter \/ LlmRejected
    <3>1. \/ log' = log
          \/ \E type \in EventTypes \ {"agent_run_completed"} :
                Emit(type, Nobody)
      BY <2>3 DEF Begin, Enter, LlmRejected, AskAgain, EventTypes
    <3>2. QED
      BY <2>1, <3>1, EmitGrounded
  <2>4. CASE LlmConcludes
    <3>1. PICK d \in Diagnosis : Emit("hypothesis_ladder_updated", d)
      BY <2>4 DEF LlmConcludes, Conclude
    <3>2. QED
      BY <3>1, EmitGrounded DEF EventTypes
  <2>5. CASE LlmCallsTools \/ Execute \/ LadderEmitted \/ RecordResult
    <3>1. \/ log' = log
          \/ \E type \in EventTypes \ {"agent_run_completed"},
                of \in {Nobody} \cup Call : Emit(type, of)
      <4>1. CASE LlmCallsTools
        <5>1. PICK list \in ToolCallLists :
                 Emit("tool_call_started", Head(list))
          BY <4>1 DEF LlmCallsTools, StartCall
        <5>2. list \in Seq(Call) /\ list # <<>>
          BY ToolCallListsType, LoopAssumption DEF TypeOK
        <5>3. Head(list) \in Call
          BY <5>2
        <5>4. QED
          BY <5>1, <5>3 DEF EventTypes
      <4>2. CASE Execute \/ LadderEmitted
        <5>1. calls \in Seq(Call) /\ calls # <<>>
          BY <4>2 DEF Execute, LadderEmitted, TypeOK, LoopInv, InTools, Over
        <5>2. Head(calls) \in Call
          BY <5>1
        <5>3. QED
          BY <4>2, <5>2 DEF Execute, LadderEmitted, EventTypes
      <4>3. CASE RecordResult
        <5>1. calls \in Seq(Call)
          BY DEF TypeOK
        <5>2. CASE Len(calls) > 1
          <6>1. Tail(calls) \in Seq(Call) /\ Tail(calls) # <<>>
            <7>1. calls # <<>>
              BY <5>2
            <7>2. QED
              BY <5>1, <5>2, <7>1
          <6>2. Head(Tail(calls)) \in Call
            BY <6>1
          <6>3. Emit("tool_call_started", Head(Tail(calls)))
            BY <4>3, <5>2 DEF RecordResult, StartCall
          <6>4. QED
            BY <6>2, <6>3 DEF EventTypes
        <5>3. CASE ~(Len(calls) > 1)
          BY <4>3, <5>3 DEF RecordResult, AskAgain, EventTypes
        <5>4. QED
          BY <5>2, <5>3
      <4>4. QED
        BY <2>5, <4>1, <4>2, <4>3
    <3>2. QED
      BY <2>1, <3>1, EmitGrounded
  <2>6. QED
    BY <2>1, <2>2, <2>3, <2>4, <2>5
       DEF Next, Step, LlmRaises, HandlerRaises, Cancel, Leave, Ended, vars
<1>3. QED
  BY <1>1, <1>2, Invariance, PTL DEF Spec

-----------------------------------------------------------------------------
(* Tools.                                                                  *)

\* While tools run, none has been withdrawn.
OfferedInv == tool_free => phase \notin InTools

LEMMA OfferedStep ==
    ASSUME OfferedInv, [Next]_vars
    PROVE  OfferedInv' /\ (tool_free => tool_free')
<1>1. CASE RecordResult
  <2>1. phase = "emitResult"
    BY <1>1 DEF RecordResult
  <2>2. tool_free # TRUE
    BY <2>1 DEF OfferedInv, InTools
  <2>3. tool_free' = FALSE \/ tool_free' = tool_free
    BY <1>1 DEF RecordResult
  <2> QED
    BY <2>2, <2>3 DEF OfferedInv
<1>2. CASE LlmRejected
  <2>1. tool_free' = TRUE /\ phase' \in {"complete", "emitFailed"}
    BY <1>2 DEF LlmRejected, AskAgain
  <2> QED
    BY <2>1 DEF OfferedInv, InTools
<1>3. CASE LlmCallsTools
  BY <1>3 DEF LlmCallsTools, ToolsOffered, OfferedInv
<1>4. CASE Execute \/ LadderEmitted
  BY <1>4 DEF Execute, LadderEmitted, OfferedInv, InTools
<1>5. CASE \/ Begin \/ Enter \/ LlmConcludes \/ LlmRaises \/ Completed \/ Leave
           \/ HandlerRaises \/ Cancel
  <2>1. tool_free' = tool_free
    BY <1>5 DEF Begin, Enter, LlmConcludes, LlmRaises, Completed, Leave,
                HandlerRaises, Cancel
  <2>2. phase' \notin InTools
    BY <1>5 DEF Begin, Enter, AskAgain, LlmConcludes, Conclude, LlmRaises,
                Completed, Leave, HandlerRaises, Cancel, InTools
  <2> QED
    BY <2>1, <2>2 DEF OfferedInv
<1>6. CASE Ended \/ UNCHANGED vars
  BY <1>6 DEF Ended, vars, OfferedInv
<1> QED
  BY <1>1, <1>2, <1>3, <1>4, <1>5, <1>6 DEF Next, Step

\* A failed attempt at a Diagnosis leaves only attempts.
THEOREM WithdrawnCorrect == Spec => ToolsWithdrawn
<1>1. Init => OfferedInv
  BY DEF Init, OfferedInv
<1>2. OfferedInv /\ [Next]_vars => OfferedInv' /\ [tool_free => tool_free']_vars
  BY OfferedStep
<1>3. Spec => [][tool_free => tool_free']_vars
  BY <1>1, <1>2, PTL DEF Spec
<1> QED
  BY <1>3 DEF ToolsWithdrawn

-----------------------------------------------------------------------------
(* The conversation.                                                       *)

\* The first n calls of message i have their answers right behind it.
Answered(m, i, n) ==
    /\ i + n <= Len(m)
    /\ \A j \in 1..n : m[i + j] = Message("tool", <<m[i].of[j]>>)

\* Every response before message p has been answered.
AllAnswered(m, p) ==
    \A i \in 1..p : m[i].role = "assistant" => Answered(m, i, Len(m[i].of))

Closed(m) ==
    /\ Len(m) > 0 /\ m[Len(m)].role \in {"user", "tool"}
    /\ AllAnswered(m, Len(m))

\* The last response is message p, and all but `rest' of its calls are answered.
Open(m, rest, p) ==
    /\ p \in DOMAIN m /\ m[p].role = "assistant"
    /\ AllAnswered(m, p - 1)
    /\ Answered(m, p, Len(m) - p)
    /\ Len(rest) = Len(m[p].of) - (Len(m) - p)
    /\ \A j \in DOMAIN rest : rest[j] = m[p].of[Len(m) - p + j]

ConversationInv ==
    /\ phase = "complete" => Closed(messages)
    /\ phase \in InTools => \E p \in DOMAIN messages : Open(messages, calls, p)

\* after continues m: the messages of m are its first messages.
Continues(after, m) ==
    /\ Len(after) \in Nat /\ Len(m) \in Nat /\ Len(m) <= Len(after)
    /\ DOMAIN after = 1..Len(after)
    /\ \A i \in 1..Len(m) : after[i] = m[i]

LEMMA MessageType ==
    ASSUME NEW role \in {"system", "user", "assistant", "tool"}, NEW of \in Seq(Call)
    PROVE  Message(role, of) \in Messages
  BY DEF Message, Messages

LEMMA CallLists ==
    /\ <<>> \in Seq(Call)
    /\ \A c \in Call : <<c>> \in Seq(Call)
  OBVIOUS

LEMMA AppendContinues ==
    ASSUME NEW m \in Seq(Messages), NEW x \in Messages
    PROVE  /\ Continues(Append(m, x), m)
           /\ Len(Append(m, x)) = Len(m) + 1
           /\ Append(m, x)[Len(m) + 1] = x
<1>1. Append(m, x) \in Seq(Messages) /\ Len(Append(m, x)) = Len(m) + 1
  BY AppendProperties
<1>2. Append(m, x)[Len(m) + 1] = x /\ \A i \in 1..Len(m) : Append(m, x)[i] = m[i]
  BY AppendProperties
<1> QED
  BY <1>1, <1>2 DEF Continues

\* What is answered stays answered.
LEMMA AnsweredMore ==
    ASSUME NEW m \in Seq(Messages), NEW after, Continues(after, m),
           NEW i \in 1..Len(m), Answered(m, i, Len(m[i].of))
    PROVE  Answered(after, i, Len(after[i].of))
<1>1. m[i] \in Messages
  OBVIOUS
<1>2. PICK of \in Seq(Call) : of = m[i].of
  BY <1>1 DEF Messages
<1>3. PICK n \in Nat : n = Len(of)
  OBVIOUS
<1>4. i + n <= Len(m) /\ Len(m) \in Nat /\ i \in Nat
  BY <1>2, <1>3 DEF Answered
<1>5. \A j \in 1..n : m[i + j] = Message("tool", <<of[j]>>)
  BY <1>2, <1>3 DEF Answered
<1>6. after[i] = m[i] /\ i + n <= Len(after)
  BY <1>4 DEF Continues
<1>7. ASSUME NEW j \in 1..n
      PROVE  after[i + j] = Message("tool", <<of[j]>>)
  <2>1. i + j \in 1..Len(m)
    BY <1>4
  <2>2. after[i + j] = m[i + j]
    BY <2>1 DEF Continues
  <2> QED
    BY <1>5, <2>2
<1>8. Answered(after, i, n)
  BY <1>2, <1>6, <1>7 DEF Answered
<1> QED
  BY <1>2, <1>3, <1>6, <1>8

LEMMA AllAnsweredMore ==
    ASSUME NEW m \in Seq(Messages), NEW after, Continues(after, m),
           NEW p \in Nat, p <= Len(m), AllAnswered(m, p)
    PROVE  AllAnswered(after, p)
<1> SUFFICES ASSUME NEW i \in 1..p, after[i].role = "assistant"
             PROVE  Answered(after, i, Len(after[i].of))
  BY DEF AllAnswered
<1>1. i \in 1..Len(m)
  OBVIOUS
<1>2. after[i] = m[i]
  BY <1>1 DEF Continues
<1>3. Answered(m, i, Len(m[i].of))
  BY <1>2 DEF AllAnswered
<1> QED
  BY <1>1, <1>3, AnsweredMore

\* A message without calls needs no answer.
LEMMA NothingToAnswer ==
    ASSUME NEW m, NEW p \in Nat, AllAnswered(m, p), p + 1 <= Len(m),
           m[p + 1].role # "assistant" \/ m[p + 1].of = <<>>
    PROVE  AllAnswered(m, p + 1)
<1> SUFFICES ASSUME NEW i \in 1..(p + 1), m[i].role = "assistant"
             PROVE  Answered(m, i, Len(m[i].of))
  BY DEF AllAnswered
<1>1. CASE i \in 1..p
  BY <1>1 DEF AllAnswered
<1>2. CASE i = p + 1
  <2>1. Len(m[i].of) = 0
    BY <1>2
  <2>2. Answered(m, i, 0)
    BY <1>2 DEF Answered
  <2> QED
    BY <2>1, <2>2
<1> QED
  BY <1>1, <1>2

\* A closed conversation may go on with a word of the user or a response
\* without calls.
LEMMA AppendCloses ==
    ASSUME NEW m \in Seq(Messages), AllAnswered(m, Len(m)), NEW x \in Messages,
           x.role # "assistant" \/ x.of = <<>>
    PROVE  LET after == Append(m, x)
           IN  /\ AllAnswered(after, Len(after))
               /\ after[Len(after)] = x /\ Len(after) > 0
<1>1. PICK after : after = Append(m, x)
  OBVIOUS
<1>2. Continues(after, m) /\ Len(after) = Len(m) + 1 /\ after[Len(m) + 1] = x
  BY <1>1, AppendContinues
<1>3. Len(m) \in Nat
  OBVIOUS
<1>4. AllAnswered(after, Len(m))
  BY <1>2, <1>3, AllAnsweredMore
<1>5. AllAnswered(after, Len(m) + 1)
  BY <1>2, <1>3, <1>4, NothingToAnswer
<1> QED
  BY <1>1, <1>2, <1>3, <1>5

\* Rejecting an attempt appends it and the objection: nothing to answer.
LEMMA RejectCloses ==
    ASSUME NEW m \in Seq(Messages), Closed(m)
    PROVE  Closed(m \o <<Message("assistant", <<>>), Message("user", <<>>)>>)
<1>1. PICK x \in Messages : x = Message("assistant", <<>>)
  BY MessageType, CallLists
<1>2. PICK y \in Messages : y = Message("user", <<>>)
  BY MessageType, CallLists
<1>3. PICK one : one = Append(m, x)
  OBVIOUS
<1>4. one \in Seq(Messages) /\ AllAnswered(one, Len(one))
  BY <1>1, <1>3, AppendCloses, AppendProperties DEF Closed, Message
<1>5. PICK two : two = Append(one, y)
  OBVIOUS
<1>6. AllAnswered(two, Len(two)) /\ two[Len(two)] = y /\ Len(two) > 0
  BY <1>2, <1>4, <1>5, AppendCloses DEF Message
<1>7. Closed(two)
  BY <1>2, <1>6 DEF Closed, Message
<1>8. two = m \o <<x, y>>
  BY <1>3, <1>5
<1> QED
  BY <1>1, <1>2, <1>7, <1>8

\* A response with calls opens the conversation.
LEMMA CallsOpen ==
    ASSUME NEW m \in Seq(Messages), Closed(m), NEW list \in Seq(Call)
    PROVE  LET after == Append(m, Message("assistant", list))
           IN  Len(m) + 1 \in DOMAIN after /\ Open(after, list, Len(m) + 1)
<1>1. PICK x \in Messages : x = Message("assistant", list)
  BY MessageType
<1>2. x.role = "assistant" /\ x.of = list
  BY <1>1 DEF Message
<1>3. PICK after : after = Append(m, x)
  OBVIOUS
<1>4. PICK k \in Nat : k = Len(m)
  OBVIOUS
<1>5. Continues(after, m) /\ Len(after) = k + 1 /\ after[k + 1] = x
  BY <1>3, <1>4, AppendContinues
<1>6. AllAnswered(after, k)
  BY <1>4, <1>5, AllAnsweredMore DEF Closed
<1>7. Answered(after, k + 1, 0)
  BY <1>5 DEF Answered
<1>8. (k + 1) - 1 = k /\ Len(after) - (k + 1) = 0 /\ k + 1 \in DOMAIN after
  BY <1>5 DEF Continues
<1>9. Len(list) = Len(list) - 0 /\ \A j \in DOMAIN list : 0 + j = j
  OBVIOUS
<1>10. Open(after, list, k + 1)
  BY <1>2, <1>5, <1>6, <1>7, <1>8, <1>9 DEF Open
<1> QED
  BY <1>1, <1>3, <1>4, <1>8, <1>10

\* The calls left after the first one are the next ones of the response.
LEMMA TailLeft ==
    ASSUME NEW rest \in Seq(Call), rest # <<>>, NEW of \in Seq(Call), NEW n \in Nat,
           Len(rest) = Len(of) - n,
           \A j \in DOMAIN rest : rest[j] = of[n + j]
    PROVE  /\ Len(Tail(rest)) = Len(of) - (n + 1)
           /\ \A j \in DOMAIN Tail(rest) : Tail(rest)[j] = of[(n + 1) + j]
<1>1. /\ Len(Tail(rest)) = Len(rest) - 1
      /\ \A j \in DOMAIN Tail(rest) :
            j \in Nat /\ j + 1 \in DOMAIN rest /\ Tail(rest)[j] = rest[j + 1]
  OBVIOUS
<1>2. PICK k \in Nat : k = Len(of)
  OBVIOUS
<1>3. PICK l \in Nat : l = Len(rest)
  OBVIOUS
<1>4. Len(Tail(rest)) = k - (n + 1)
  BY <1>1, <1>2, <1>3
<1>5. ASSUME NEW j \in DOMAIN Tail(rest)
      PROVE  Tail(rest)[j] = of[(n + 1) + j]
  <2>1. rest[j + 1] = of[n + (j + 1)]
    BY <1>1
  <2>2. n + (j + 1) = (n + 1) + j
    BY <1>1
  <2> QED
    BY <1>1, <2>1, <2>2
<1> QED
  BY <1>2, <1>4, <1>5

\* The last response is behind everything but its answers.
LEMMA LastAnswered ==
    ASSUME NEW m, NEW p \in Nat \ {0}, NEW n \in Nat \ {0}, NEW of,
           Len(m) = p + n, AllAnswered(m, p - 1),
           Answered(m, p, n), Len(m[p].of) = n, m[p].of = of
    PROVE  AllAnswered(m, Len(m)) /\ m[Len(m)].role = "tool"
<1>1. ASSUME NEW i \in (p + 1)..(p + n)
      PROVE  m[i].role = "tool"
  <2>1. i - p \in 1..n /\ p + (i - p) = i
    OBVIOUS
  <2>2. m[p + (i - p)] = Message("tool", <<of[i - p]>>)
    BY <2>1 DEF Answered
  <2> QED
    BY <2>1, <2>2 DEF Message
<1>2. AllAnswered(m, p + n)
  <2> SUFFICES ASSUME NEW i \in 1..(p + n), m[i].role = "assistant"
               PROVE  Answered(m, i, Len(m[i].of))
    BY DEF AllAnswered
  <2>1. i \in 1..(p - 1) \/ i = p \/ i \in (p + 1)..(p + n)
    OBVIOUS
  <2>2. i \notin (p + 1)..(p + n)
    BY <1>1
  <2> QED
    BY <2>1, <2>2 DEF AllAnswered
<1>3. p + n \in (p + 1)..(p + n)
  OBVIOUS
<1> QED
  BY <1>1, <1>2, <1>3

\* An answer leaves one call less, or closes the conversation.
LEMMA AnswerNext ==
    ASSUME NEW m \in Seq(Messages), NEW rest \in Seq(Call), rest # <<>>,
           NEW p \in DOMAIN m, Open(m, rest, p)
    PROVE  LET after == Append(m, Message("tool", <<Head(rest)>>))
           IN  /\ p \in DOMAIN after
               /\ Len(rest) > 1 => Open(after, Tail(rest), p)
               /\ Len(rest) = 1 => Closed(after)
<1>1. PICK c \in Call : c = Head(rest) /\ c = rest[1]
  OBVIOUS
<1>2. PICK x \in Messages : x = Message("tool", <<c>>)
  BY MessageType, CallLists
<1>3. PICK after : after = Append(m, x)
  OBVIOUS
<1>4. Continues(after, m) /\ Len(after) = Len(m) + 1 /\ after[Len(m) + 1] = x
  BY <1>3, AppendContinues
<1>5. p \in Nat \ {0} /\ p <= Len(m) /\ Len(m) \in Nat /\ m[p] \in Messages
  OBVIOUS
<1>6. PICK n \in Nat : n = Len(m) - p
  BY <1>5
<1>7. Len(m) = p + n /\ Len(after) = p + (n + 1) /\ Len(after) - p = n + 1
  <2>1. PICK k \in Nat : k = Len(m)
    BY <1>5
  <2>2. k = p + n /\ k + 1 = p + (n + 1) /\ (k + 1) - p = n + 1
    BY <1>5, <1>6, <2>1
  <2>3. Len(after) = k + 1
    BY <1>4, <2>1
  <2> QED
    BY <2>1, <2>2, <2>3
<1>8. after[p] = m[p] /\ p \in DOMAIN after
  BY <1>4, <1>5, <1>7 DEF Continues
<1>9. PICK of \in Seq(Call) : of = m[p].of
  BY <1>5 DEF Messages
<1>10. /\ m[p].role = "assistant" /\ AllAnswered(m, p - 1) /\ Answered(m, p, n)
       /\ Len(rest) = Len(of) - n
       /\ \A j \in DOMAIN rest : rest[j] = of[n + j]
  BY <1>6, <1>9 DEF Open
<1>11. p - 1 \in Nat /\ p - 1 <= Len(m)
  BY <1>5
<1>12. AllAnswered(after, p - 1)
  BY <1>4, <1>10, <1>11, AllAnsweredMore
<1>13. \A j \in 1..n : m[p + j] = Message("tool", <<of[j]>>)
  BY <1>9, <1>10 DEF Answered
<1>14. 1 \in DOMAIN rest
  OBVIOUS
<1>15. after[p + (n + 1)] = Message("tool", <<of[n + 1]>>)
  <2>1. c = of[n + 1]
    BY <1>1, <1>10, <1>14
  <2>2. p + (n + 1) = Len(m) + 1
    BY <1>5, <1>7
  <2> QED
    BY <1>2, <1>4, <2>1, <2>2
<1>16. \A j \in 1..(n + 1) : after[p + j] = Message("tool", <<of[j]>>)
  <2>1. ASSUME NEW j \in 1..n
        PROVE  after[p + j] = Message("tool", <<of[j]>>)
    <3>1. p + j \in 1..Len(m)
      BY <1>5, <1>7
    <3>2. after[p + j] = m[p + j]
      BY <1>4, <3>1 DEF Continues
    <3> QED
      BY <1>13, <3>2
  <2>2. \A j \in 1..(n + 1) : j \in 1..n \/ j = n + 1
    OBVIOUS
  <2> QED
    BY <1>15, <2>1, <2>2
<1>17. p + (n + 1) <= Len(after)
  BY <1>5, <1>7
<1>18. Answered(after, p, n + 1)
  BY <1>8, <1>9, <1>16, <1>17 DEF Answered
<1>19. /\ Len(Tail(rest)) = Len(of) - (n + 1)
       /\ \A j \in DOMAIN Tail(rest) : Tail(rest)[j] = of[(n + 1) + j]
  BY <1>10, TailLeft
<1>20. Open(after, Tail(rest), p)
  BY <1>7, <1>8, <1>9, <1>10, <1>12, <1>18, <1>19 DEF Open
<1>21. ASSUME Len(rest) = 1 PROVE Closed(after)
  <2>1. PICK k \in Nat : k = Len(of)
    OBVIOUS
  <2>2. k = n + 1
    <3>1. 1 = k - n
      BY <1>10, <1>21, <2>1
    <3>2. \A i, j \in Nat : 1 = i - j => i = j + 1
      OBVIOUS
    <3> QED
      BY <3>1, <3>2
  <2>3. n + 1 \in Nat \ {0}
    OBVIOUS
  <2>4. Len(after[p].of) = n + 1
    BY <1>8, <1>9, <2>1, <2>2
  <2>5. AllAnswered(after, Len(after)) /\ after[Len(after)].role = "tool"
    BY <1>5, <1>7, <1>12, <1>18, <2>3, <2>4, LastAnswered
  <2> QED
    BY <1>5, <1>7, <2>5 DEF Closed
<1> QED
  BY <1>1, <1>2, <1>3, <1>8, <1>20, <1>21

\* The prompt is a closed conversation.
LEMMA PromptClosed == Closed(<<Message("system", <<>>), Message("user", <<>>)>>)
<1>1. PICK m : m = <<Message("system", <<>>), Message("user", <<>>)>>
  OBVIOUS
<1>2. /\ Len(m) = 2 /\ m[1] = Message("system", <<>>)
      /\ m[2] = Message("user", <<>>)
  BY <1>1
<1>3. m[1].role # "assistant" /\ m[2].role = "user"
  BY <1>2 DEF Message
<1>4. \A i \in 1..Len(m) : m[i].role # "assistant"
  BY <1>2, <1>3
<1>5. Closed(m)
  BY <1>2, <1>3, <1>4 DEF Closed, AllAnswered
<1> QED
  BY <1>1, <1>5

LEMMA ConversationStep ==
    ASSUME IInv, ConversationInv, [Next]_vars
    PROVE  ConversationInv'
<1>1. messages \in Seq(Messages) /\ calls \in Seq(Call) /\ turn \in Nat
  BY LoopAssumption DEF IInv, TypeOK
<1>2. CASE Enter
  <2>1. messages' = <<Message("system", <<>>), Message("user", <<>>)>>
    BY <1>2 DEF Enter
  <2>2. Closed(messages')
    BY <2>1, PromptClosed
  <2>3. phase' \notin InTools
    BY <1>2 DEF Enter, AskAgain, InTools
  <2> QED
    BY <2>2, <2>3 DEF ConversationInv
<1>3. CASE LlmCallsTools
  <2>1. PICK list \in ToolCallLists :
           /\ messages' = Append(messages, Message("assistant", list))
           /\ phase' = "emitCall" /\ calls' = list
    BY <1>3 DEF LlmCallsTools, StartCall
  <2>2. list \in Seq(Call)
    BY <1>1, ToolCallListsType
  <2>3. Closed(messages)
    BY <1>3 DEF LlmCallsTools, ConversationInv
  <2>4. /\ Len(messages) + 1 \in DOMAIN messages'
        /\ Open(messages', calls', Len(messages) + 1)
    BY <1>1, <2>1, <2>2, <2>3, CallsOpen
  <2> QED
    BY <2>1, <2>4 DEF ConversationInv
<1>4. CASE LlmRejected
  <2>1. messages' = messages \o <<Message("assistant", <<>>), Message("user", <<>>)>>
    BY <1>4 DEF LlmRejected
  <2>2. Closed(messages)
    BY <1>4 DEF LlmRejected, ConversationInv
  <2>3. Closed(messages')
    BY <1>1, <2>1, <2>2, RejectCloses
  <2>4. phase' \notin InTools
    BY <1>4 DEF LlmRejected, AskAgain, InTools
  <2> QED
    BY <2>3, <2>4 DEF ConversationInv
<1>5. CASE RecordResult
  <2>1. messages' = Append(messages, Message("tool", <<Head(calls)>>))
    BY <1>5 DEF RecordResult, Answer
  <2>2. phase = "emitResult" /\ phase \in InTools
    BY <1>5 DEF RecordResult, InTools
  <2>3. PICK p \in DOMAIN messages : Open(messages, calls, p)
    BY <2>2 DEF ConversationInv
  <2>4. calls # <<>>
    BY <2>2 DEF IInv, LoopInv
  <2>5. /\ p \in DOMAIN messages'
        /\ Len(calls) > 1 => Open(messages', Tail(calls), p)
        /\ Len(calls) = 1 => Closed(messages')
    BY <1>1, <2>1, <2>3, <2>4, AnswerNext
  <2>6. CASE Len(calls) > 1
    <3>1. calls' = Tail(calls) /\ phase' = "emitCall"
      BY <1>5, <2>6 DEF RecordResult, StartCall
    <3> QED
      BY <2>5, <2>6, <3>1 DEF ConversationInv
  <2>7. CASE ~(Len(calls) > 1)
    <3>1. Len(calls) = 1
      <4>1. Len(calls) # 0
        BY <1>1, <2>4, EmptySeq
      <4>2. Len(calls) \in Nat
        BY <1>1
      <4>3. \A n \in Nat : n # 0 /\ ~(n > 1) => n = 1
        OBVIOUS
      <4> QED
        BY <2>7, <4>1, <4>2, <4>3
    <3>2. phase' \notin InTools
      BY <1>5, <2>7 DEF RecordResult, AskAgain, InTools
    <3> QED
      BY <2>5, <3>1, <3>2 DEF ConversationInv
  <2> QED
    BY <2>6, <2>7
<1>6. CASE Execute \/ LadderEmitted
  <2>1. UNCHANGED <<messages, calls>> /\ phase \in InTools /\ phase' # "complete"
    BY <1>6 DEF Execute, LadderEmitted, InTools
  <2> QED
    BY <2>1 DEF ConversationInv
<1>7. CASE \/ Begin \/ LlmConcludes \/ LlmRaises \/ Completed \/ Leave
           \/ HandlerRaises \/ Cancel
  <2>1. phase' # "complete" /\ phase' \notin InTools
    BY <1>7 DEF Begin, LlmConcludes, Conclude, LlmRaises, Completed, Leave,
                HandlerRaises, Cancel, InTools
  <2> QED
    BY <2>1 DEF ConversationInv
<1>8. CASE Ended \/ UNCHANGED vars
  <2>1. UNCHANGED <<phase, messages, calls>>
    BY <1>8 DEF Ended, vars
  <2> QED
    BY <2>1 DEF ConversationInv
<1> QED
  BY <1>2, <1>3, <1>4, <1>5, <1>6, <1>7, <1>8 DEF Next, Step

\* A closed conversation is one the chat protocol accepts.
LEMMA ClosedWellFormed == IInv /\ ConversationInv => ConversationWellFormed
<1> SUFFICES ASSUME IInv, ConversationInv, phase = "complete"
             PROVE  ConversationWellFormed
  BY DEF ConversationWellFormed
<1>1. PICK m \in Seq(Messages) : m = messages
  BY DEF IInv, TypeOK
<1>2. Closed(m)
  BY <1>1 DEF ConversationInv
<1>3. ASSUME NEW i \in DOMAIN m, m[i].role = "assistant"
      PROVE  /\ Len(m[i].of) < Len(m) - i + 1
             /\ \A j \in 1..Len(m[i].of) :
                   m[i + j] = Message("tool", <<m[i].of[j]>>)
  <2>1. i \in 1..Len(m) /\ Len(m) \in Nat /\ m[i] \in Messages
    OBVIOUS
  <2>2. Answered(m, i, Len(m[i].of))
    BY <1>2, <1>3, <2>1 DEF Closed, AllAnswered
  <2>3. PICK n \in Nat : n = Len(m[i].of)
    <3>1. m[i].of \in Seq(Call)
      BY <2>1 DEF Messages
    <3> QED
      BY <3>1
  <2>4. PICK k \in Nat : k = Len(m)
    BY <2>1
  <2>5. i + n <= k
    BY <2>2, <2>3, <2>4 DEF Answered
  <2>6. n < k - i + 1
    BY <2>1, <2>5
  <2> QED
    BY <2>2, <2>3, <2>4, <2>6 DEF Answered
<1>4. m[Len(m)].role \in {"user", "tool"}
  BY <1>2 DEF Closed
<1> QED
  BY <1>1, <1>3, <1>4 DEF ConversationWellFormed

\* Whenever the LLM is asked, every call it made has its answer right behind
\* it, in order, and the last word is not its own.
THEOREM ConversationCorrect == Spec => []ConversationWellFormed
<1>1. Init => ConversationInv
  BY DEF Init, ConversationInv, InTools
<1>2. IInv /\ ConversationInv /\ [Next]_vars => ConversationInv'
  BY ConversationStep
<1> QED
  BY <1>1, <1>2, Invariance, ClosedWellFormed, PTL DEF Spec

-----------------------------------------------------------------------------
(* The trace and the conversation.                                         *)

\* The calls whose completion the trace shows.
Shown(l) == {l[i].of : i \in {j \in DOMAIN l : l[j].type = "tool_call_completed"}}

\* The calls whose result the LLM was given.
Given(m) == {m[i].of[1] : i \in {j \in DOMAIN m : m[j].role = "tool"}}

\* The handler may be told of one result before the LLM is given it.
ShownInv ==
    /\ Given(messages) \subseteq Shown(log)
    /\ phase \in {"idle", "emitStarted"} => Shown(log) = {}
    /\ phase = "emitResult" => Head(calls) \in Shown(log)
    /\ \A c \in Shown(log) \ Given(messages) :
          phase \in {"emitResult"} \cup Over /\ calls # <<>> /\ c = Head(calls)

LEMMA AppendShown ==
    ASSUME NEW l \in Seq(Events), NEW e \in Events
    PROVE  Shown(Append(l, e)) = Shown(l) \cup
               (IF e.type = "tool_call_completed" THEN {e.of} ELSE {})
<1>1. PICK more : more = Append(l, e)
  OBVIOUS
<1>2. PICK n \in Nat : n = Len(l)
  OBVIOUS
<1>3. /\ DOMAIN l = 1..n /\ DOMAIN more = 1..(n + 1) /\ more[n + 1] = e
      /\ \A i \in 1..n : more[i] = l[i]
  BY <1>1, <1>2, AppendProperties
<1>4. 1..(n + 1) = 1..n \cup {n + 1}
  OBVIOUS
<1>5. Shown(more) = Shown(l) \cup
          (IF e.type = "tool_call_completed" THEN {e.of} ELSE {})
  BY <1>3, <1>4 DEF Shown
<1> QED
  BY <1>1, <1>5

LEMMA AppendGiven ==
    ASSUME NEW m \in Seq(Messages), NEW x \in Messages
    PROVE  Given(Append(m, x)) = Given(m) \cup
               (IF x.role = "tool" THEN {x.of[1]} ELSE {})
<1>1. PICK more : more = Append(m, x)
  OBVIOUS
<1>2. PICK n \in Nat : n = Len(m)
  OBVIOUS
<1>3. /\ DOMAIN m = 1..n /\ DOMAIN more = 1..(n + 1) /\ more[n + 1] = x
      /\ \A i \in 1..n : more[i] = m[i]
  BY <1>1, <1>2, AppendProperties
<1>4. 1..(n + 1) = 1..n \cup {n + 1}
  OBVIOUS
<1>5. Given(more) = Given(m) \cup (IF x.role = "tool" THEN {x.of[1]} ELSE {})
  BY <1>3, <1>4 DEF Given
<1> QED
  BY <1>1, <1>5

LEMMA EmitShown ==
    ASSUME LogType, NEW type \in EventTypes,
           NEW of \in {Nobody} \cup Call \cup Diagnosis, Emit(type, of)
    PROVE  Shown(log') = Shown(log) \cup
               (IF type = "tool_call_completed" THEN {of} ELSE {})
<1>1. PICK e \in Events : e = Event(type, of)
  BY DEF Event, Events
<1>2. e.type = type /\ e.of = of
  BY <1>1 DEF Event
<1>3. log' = Append(log, e)
  BY <1>1 DEF Emit
<1> QED
  BY <1>2, <1>3, AppendShown DEF LogType

LEMMA AskAgainShown ==
    ASSUME LogType, NEW done, AskAgain(done)
    PROVE  Shown(log') = Shown(log) /\ phase' \in {"complete", "emitFailed"}
<1>1. CASE done < MaxIterations
  BY <1>1 DEF AskAgain
<1>2. CASE ~(done < MaxIterations)
  <2>1. Emit("agent_run_failed", Nobody) /\ phase' = "emitFailed"
    BY <1>2 DEF AskAgain
  <2> QED
    BY <2>1, EmitShown DEF EventTypes
<1> QED
  BY <1>1, <1>2

\* A step that completes no call and answers none.
LEMMA QuietStep ==
    ASSUME ShownInv, Shown(log') = Shown(log), Given(messages') = Given(messages),
           phase \notin {"emitResult"} \cup Over,
           \/ phase' \notin {"idle", "emitStarted", "emitResult"}
           \/ phase = "idle" /\ phase' = "emitStarted"
    PROVE  ShownInv'
  BY DEF ShownInv

LEMMA ShownStep ==
    ASSUME IInv, ShownInv, [Next]_vars
    PROVE  ShownInv'
<1>1. /\ messages \in Seq(Messages) /\ calls \in Seq(Call) /\ turn \in Nat
      /\ diagnosis \in Diagnosis /\ LogType
  BY LoopAssumption DEF IInv, TypeOK
<1>2. CASE Begin
  <2>1. Shown(log') = Shown(log)
    BY <1>1, <1>2, EmitShown DEF Begin, EventTypes
  <2> QED
    BY <1>2, <2>1, QuietStep DEF Begin, Over
<1>3. CASE Enter
  <2>1. Shown(log') = Shown(log) /\ phase' \in {"complete", "emitFailed"}
    BY <1>1, <1>3, AskAgainShown DEF Enter
  <2>2. Shown(log) = {}
    BY <1>3 DEF Enter, ShownInv
  <2>3. Given(messages') = {}
    <3>1. messages' = <<Message("system", <<>>), Message("user", <<>>)>>
      BY <1>3 DEF Enter
    <3>2. DOMAIN messages' = 1..2 /\ messages'[1] = Message("system", <<>>)
          /\ messages'[2] = Message("user", <<>>)
      BY <3>1
    <3>3. messages'[1].role # "tool" /\ messages'[2].role # "tool"
      BY <3>2 DEF Message
    <3>4. \A i \in DOMAIN messages' : messages'[i].role # "tool"
      BY <3>2, <3>3
    <3> QED
      BY <3>4 DEF Given
  <2> QED
    BY <2>1, <2>2, <2>3 DEF ShownInv
<1>4. CASE LlmCallsTools
  <2>1. PICK list \in ToolCallLists :
           /\ messages' = Append(messages, Message("assistant", list))
           /\ StartCall(list)
    BY <1>4 DEF LlmCallsTools
  <2>2. list \in Seq(Call) /\ list # <<>>
    BY <1>1, ToolCallListsType
  <2>3. Head(list) \in Call
    BY <2>2
  <2>4. Shown(log') = Shown(log)
    BY <1>1, <2>1, <2>3, EmitShown DEF StartCall, EventTypes
  <2>5. Message("assistant", list) \in Messages
    BY <2>2, MessageType
  <2>6. Given(messages') = Given(messages)
    BY <1>1, <2>1, <2>5, AppendGiven DEF Message
  <2>7. phase = "complete" /\ phase' = "emitCall"
    BY <1>4, <2>1 DEF LlmCallsTools, StartCall
  <2>8. /\ phase \notin {"emitResult"} \cup Over
        /\ phase' \notin {"idle", "emitStarted", "emitResult"}
    BY <2>7 DEF Over
  <2> QED
    BY <2>4, <2>6, <2>8, QuietStep
<1>5. CASE LlmRejected
  <2>1. phase = "complete"
    BY <1>5 DEF LlmRejected
  <2>2. Shown(log') = Shown(log) /\ phase' \in {"complete", "emitFailed"}
    BY <1>1, <1>5, AskAgainShown DEF LlmRejected
  <2>3. Given(messages') = Given(messages)
    <3>1. PICK x \in Messages : x = Message("assistant", <<>>)
      BY MessageType, CallLists
    <3>2. PICK y \in Messages : y = Message("user", <<>>)
      BY MessageType, CallLists
    <3>3. messages' = Append(Append(messages, x), y)
      BY <1>1, <1>5, <3>1, <3>2 DEF LlmRejected
    <3>4. x.role # "tool" /\ y.role # "tool"
      BY <3>1, <3>2 DEF Message
    <3>5. PICK one : one = Append(messages, x)
      OBVIOUS
    <3>6. one \in Seq(Messages) /\ Given(one) = Given(messages)
      <4>1. Append(messages, x) \in Seq(Messages)
        BY <1>1, AppendProperties
      <4>2. Given(Append(messages, x)) = Given(messages)
        BY <1>1, <3>4, AppendGiven
      <4> QED
        BY <3>5, <4>1, <4>2
    <3>7. Given(Append(one, y)) = Given(one)
      BY <3>4, <3>6, AppendGiven
    <3>8. messages' = Append(one, y)
      BY <3>3, <3>5
    <3> QED
      BY <3>6, <3>7, <3>8
  <2>4. /\ phase \notin {"emitResult"} \cup Over
        /\ phase' \notin {"idle", "emitStarted", "emitResult"}
    BY <2>1, <2>2 DEF Over
  <2> QED
    BY <2>2, <2>3, <2>4, QuietStep
<1>6. CASE LlmConcludes
  <2>1. PICK d \in Diagnosis : Conclude(d)
    BY <1>6 DEF LlmConcludes
  <2>2. Shown(log') = Shown(log)
    BY <1>1, <2>1, EmitShown DEF Conclude, EventTypes
  <2>3. Message("assistant", <<>>) \in Messages
    BY MessageType, CallLists
  <2>4. Given(messages') = Given(messages)
    BY <1>1, <1>6, <2>3, AppendGiven DEF LlmConcludes, Message
  <2>5. phase = "complete" /\ phase' = "emitHypothesis"
    BY <1>6, <2>1 DEF LlmConcludes, Conclude
  <2>6. /\ phase \notin {"emitResult"} \cup Over
        /\ phase' \notin {"idle", "emitStarted", "emitResult"}
    BY <2>5 DEF Over
  <2> QED
    BY <2>2, <2>4, <2>6, QuietStep
<1>7. CASE Execute \/ LadderEmitted
  <2>1. /\ phase \in InTools \ {"emitResult"} /\ UNCHANGED <<calls, messages>>
        /\ \/ phase' = "emitLadder" /\ Emit("hypothesis_ladder_updated", Head(calls))
           \/ phase' = "emitResult" /\ Emit("tool_call_completed", Head(calls))
    BY <1>7 DEF Execute, LadderEmitted, InTools
  <2>2. calls # <<>> /\ Head(calls) \in Call
    <3>1. calls # <<>>
      BY <2>1 DEF IInv, LoopInv
    <3> QED
      BY <1>1, <3>1
  <2>3. CASE phase' = "emitLadder" /\ Emit("hypothesis_ladder_updated", Head(calls))
    <3>1. Shown(log') = Shown(log)
      BY <1>1, <2>2, <2>3, EmitShown DEF EventTypes
    <3>2. /\ phase \notin {"emitResult"} \cup Over
          /\ phase' \notin {"idle", "emitStarted", "emitResult"}
      BY <2>1, <2>3 DEF Over, InTools
    <3>3. Given(messages') = Given(messages)
      BY <2>1
    <3> QED
      BY <3>1, <3>2, <3>3, QuietStep
  <2>4. CASE phase' = "emitResult" /\ Emit("tool_call_completed", Head(calls))
    <3>1. Shown(log') = Shown(log) \cup {Head(calls)}
      BY <1>1, <2>2, <2>4, EmitShown DEF EventTypes
    <3>2. Shown(log) \subseteq Given(messages)
      BY <2>1 DEF ShownInv, InTools, Over
    <3> QED
      BY <2>1, <2>2, <2>4, <3>1, <3>2 DEF ShownInv
  <2> QED
    BY <2>1, <2>3, <2>4
<1>8. CASE RecordResult
  <2>1. phase = "emitResult" /\ calls # <<>>
    BY <1>8 DEF RecordResult, IInv, LoopInv, InTools, Over
  <2>2. PICK c \in Call : c = Head(calls)
    BY <1>1, <2>1
  <2>3. PICK x \in Messages : x = Message("tool", <<c>>)
    BY MessageType, CallLists
  <2>4. x.role = "tool" /\ x.of[1] = c
    BY <2>3 DEF Message
  <2>5. messages' = Append(messages, x)
    BY <1>8, <2>2, <2>3 DEF RecordResult, Answer
  <2>6. Given(messages') = Given(messages) \cup {c}
    BY <1>1, <2>4, <2>5, AppendGiven
  <2>7. Shown(log') = Shown(log) /\ phase' \in {"emitCall", "complete", "emitFailed"}
    <3>1. CASE Len(calls) > 1
      <4>1. StartCall(Tail(calls))
        BY <1>8, <3>1 DEF RecordResult
      <4>2. Head(Tail(calls)) \in Call
        BY <1>1, <3>1
      <4> QED
        BY <1>1, <4>1, <4>2, EmitShown DEF StartCall, EventTypes
    <3>2. CASE ~(Len(calls) > 1)
      BY <1>1, <1>8, <3>2, AskAgainShown DEF RecordResult
    <3> QED
      BY <3>1, <3>2
  <2>8. c \in Shown(log) /\ Shown(log) \subseteq Given(messages) \cup {c}
    BY <2>1, <2>2 DEF ShownInv
  <2> QED
    BY <2>6, <2>7, <2>8 DEF ShownInv
<1>9. CASE Completed
  <2>1. Shown(log') = Shown(log)
    BY <1>1, <1>9, EmitShown DEF Completed, EventTypes
  <2>2. /\ phase \notin {"emitResult"} \cup Over
        /\ phase' \notin {"idle", "emitStarted", "emitResult"}
    BY <1>9 DEF Completed, Over
  <2>3. Given(messages') = Given(messages)
    BY <1>9 DEF Completed
  <2> QED
    BY <2>1, <2>2, <2>3, QuietStep
<1>10. CASE LlmRaises \/ Leave \/ HandlerRaises \/ Cancel
  <2>1. UNCHANGED <<messages, calls, log>> /\ phase' \in Over
    BY <1>10 DEF LlmRaises, Leave, HandlerRaises, Cancel, Over
  <2> QED
    BY <2>1 DEF ShownInv, Over
<1>11. CASE Ended \/ UNCHANGED vars
  <2>1. UNCHANGED <<phase, messages, calls, log>>
    BY <1>11 DEF Ended, vars
  <2> QED
    BY <2>1 DEF ShownInv
<1> QED
  BY <1>2, <1>3, <1>4, <1>5, <1>6, <1>7, <1>8, <1>9, <1>10, <1>11 DEF Next, Step

\* The operator is shown the results the LLM was given, but for the one the
\* handler is being told of.
THEOREM TraceMatchesCorrect == Spec => []TraceMatchesConversation
<1>1. Init => ShownInv
  <2> SUFFICES ASSUME Init PROVE ShownInv
    OBVIOUS
  <2>1. DOMAIN messages = {} /\ DOMAIN log = {}
    BY DEF Init
  <2>2. Shown(log) = {} /\ Given(messages) = {}
    BY <2>1 DEF Shown, Given
  <2> QED
    BY <2>2 DEF Init, ShownInv
<1>2. IInv /\ ShownInv /\ [Next]_vars => ShownInv'
  BY ShownStep
<1>3. ShownInv => TraceMatchesConversation
  BY DEF ShownInv, Shown, Given, TraceMatchesConversation
<1> QED
  BY <1>1, <1>2, <1>3, Invariance, PTL DEF Spec
=============================================================================
