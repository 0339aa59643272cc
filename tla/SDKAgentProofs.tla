---------------------------- MODULE SDKAgentProofs ----------------------------
(***************************************************************************)
(* Proofs about SDKAgent, for every value of its constants.                *)
(***************************************************************************)
EXTENDS SDKAgent, AbstractURPSingle

(* The steps of SDKURPAgent that its base class takes: those of a loop,    *)
(* with the StartRun that creates it, and those of the callers.            *)
Turn(l) ==
  \/ StartRun(l) \/ LoopBegin(l) \/ Receive(l) \/ PollTimeout(l) \/ Finish(l)
  \/ PreconditionsPass(l) \/ PostconditionsPass(l)
  \/ Cancelled(l) \/ CancelledUnborn(l)
  \/ /\ Raises(l)
     /\ \/ loop[l] = "replying"
        \/ loop[l] = "processing" /\ thread[current[l]] \in {"none", "failed"}

Call ==
  \/ Initialize \/ InitializeRaises
  \/ \E m \in Messages : Send(m)
  \/ \E s \in StartCalls : StartBegin(s)
  \/ \E c \in ShutdownCalls :
       \/ ShutdownBegin(c) \/ ShutdownJoin(c) \/ ShutdownJoinRaises(c)
       \/ ShutdownTerminate(c)

Steps ==
  \/ Call /\ UNCHANGED sdkVars
  \/ \E l \in StartCalls : Turn(l) /\ UNCHANGED sdkVars
  \/ \E l \in StartCalls : SendMessage(l) \/ SDKProcessReturns(l)
  \/ \E m \in Messages : \/ RunSpeaks(m) \/ RunRaises(m)
                         \/ \E s \in ExecutionStatus \ {"RUNNING"} : RunReturns(m, s)
  \/ UNCHANGED <<vars, sdkVars>>

LEMMA SDKMoves == [SDKNext]_<<vars, sdkVars>> => Steps
<1> SUFFICES ASSUME [SDKNext]_<<vars, sdkVars>>
             PROVE  Steps
  OBVIOUS
<1>1. ASSUME RunOn, UNCHANGED sdkVars
      PROVE  Steps
  BY <1>1 DEF RunOn, Steps, Turn, Call
<1>2. ASSUME Resume, UNCHANGED sdkVars
      PROVE  Steps
  <2>1. ASSUME NEW l \in StartCalls, loop[l] = "replying", Raises(l)
        PROVE  Turn(l)
    BY <2>1 DEF Turn
  <2>2. QED
    BY <1>2, <2>1 DEF Resume, Steps, Turn, Call
<1>3. ASSUME NEW l \in StartCalls, ProcessRaises(l)
      PROVE  Turn(l) /\ UNCHANGED sdkVars
  BY <1>3 DEF ProcessRaises, Turn
<1>4. QED
  BY <1>1, <1>2, <1>3 DEF SDKNext, Steps

(* What process() returns is a result that process() may return.           *)
LEMMA Outcomes ==
  ASSUME NEW s
  PROVE  /\ [outcome |-> OutcomeOf(s), category |-> "NONE"] \in Results
         /\ [outcome |-> OutcomeOf(s), category |-> "NONE"] \in ProcessResult
<1>1. OutcomeOf(s) \in LastTaskOutcome
  BY DEF OutcomeOf, LastTaskOutcome
<1>2. QED
  BY <1>1, OutcomesAssumption DEF ProcessResult, FailureCategory

LEMMA StepsRefine == Steps => [Next]_vars
<1> SUFFICES ASSUME Steps PROVE [Next]_vars
  OBVIOUS
<1>1. ASSUME NEW l \in StartCalls, SDKProcessReturns(l)
      PROVE  Next
  BY <1>1, Outcomes DEF SDKProcessReturns, Next, LoopStep
<1>2. ASSUME NEW l \in StartCalls, Turn(l)
      PROVE  Next
  BY <1>2 DEF Turn, Next, LoopStep, StartStep
<1>3. ASSUME Call
      PROVE  Next
  BY <1>3 DEF Call, Next, ShutdownStep
<1>4. QED
  BY <1>1, <1>2, <1>3 DEF Steps, SendMessage, RunSpeaks, RunRaises, RunReturns

(* SDKURPAgent implements AbstractURPAgent: what every agent promises      *)
(* holds of it.                                                            *)
THEOREM Extends == SDKSpec => Spec
<1>1. SDKInit => Init
  BY DEF SDKInit
<1>2. [SDKNext]_<<vars, sdkVars>> => [Next]_vars
  BY SDKMoves, StepsRefine
<1>3. QED
  BY <1>1, <1>2, PTL DEF SDKSpec, Spec

------------------------------------------------------------------------------
(* SDKURPAgent leaves the hooks as they are, so start() does not suspend   *)
(* between its test of the status and the change of it.                    *)
Sole ==
  /\ status \in {"UNINITIALIZED", "INITIALIZED"} =>
       \A l \in StartCalls : loop[l] = "absent"
  /\ \A s \in StartCalls : start[s] = "checking" =>
       /\ status = "INITIALIZED"
       /\ \A t \in StartCalls : start[t] = "checking" => t = s
       /\ \A c \in ShutdownCalls : stop[c] # "cleaning"
  /\ OneLoopSpawned

LEMMA SoleStep ==
  TypeOK /\ SpawnedOnce /\ Sole /\ [SDKNext]_<<vars, sdkVars>> => Sole'
<1> SUFFICES ASSUME TypeOK, SpawnedOnce, Sole, [SDKNext]_<<vars, sdkVars>>
             PROVE  Sole'
  OBVIOUS
<1> USE DEF Sole, OneLoopSpawned
<1>1. CASE UNCHANGED <<status, start, stop, loop>>
  BY <1>1
<1>2. ASSUME NEW s \in StartCalls, StartRun(s)
      PROVE  Sole'
  BY <1>2 DEF StartRun, TypeOK
<1>3. ASSUME NEW l \in StartCalls, LoopStep(l) \/ Cancelled(l) \/ CancelledUnborn(l)
      PROVE  Sole'
  <2>1. /\ UNCHANGED <<start, stop>>
        /\ loop[l] \in LivePc
        /\ \E pc \in LoopPc \ {"absent", "scheduled"} : loop' = [loop EXCEPT ![l] = pc]
        /\ status' \in {status, "WAITING", "PROCESSING"}
    BY <1>3, LoopMoves DEF callVars
  <2>2. /\ loop[l] # "absent"
        /\ \A k \in StartCalls \ {l} : loop'[k] = loop[k]
    BY <2>1 DEF LivePc, InFlightPc, TypeOK
  <2>3. \A s \in StartCalls : start[s] # "checking"
    BY <2>2
  <2>4. QED
    BY <2>1, <2>2, <2>3
<1>4. ASSUME NEW c \in ShutdownCalls,
             \/ ShutdownJoin(c)
             \/ stop[c] = "cleaning" /\ ShutdownTerminate(c)
      PROVE  Sole'
  <2>1. stop[c] = "cleaning" /\ UNCHANGED <<start, loop>>
    BY <1>4 DEF ShutdownJoin, ShutdownTerminate, loopVars
  <2>2. \A s \in StartCalls : start[s] # "checking"
    BY <2>1
  <2>3. status' \in {status, "TERMINATED"}
    BY <1>4 DEF ShutdownJoin, ShutdownTerminate
  <2>4. QED
    BY <2>1, <2>2, <2>3
<1>5. CASE RunOn
  BY <1>2, <1>3, <1>4, <1>5 DEF RunOn, LoopStep
<1>6. CASE ~ Running /\ Resume
  <2>1. /\ \A s \in StartCalls : start[s] # "checking"
        /\ \A c \in ShutdownCalls : stop[c] # "cleaning"
    BY <1>6 DEF Running
  <2>2. CASE Initialize \/ InitializeRaises \/ \E m \in Messages : Send(m)
    BY <2>1, <2>2 DEF Initialize, InitializeRaises, Send, callVars, loopVars
  <2>3. ASSUME NEW s \in StartCalls, StartBegin(s)
        PROVE  Sole'
    BY <2>1, <2>3 DEF StartBegin, loopVars, TypeOK
  <2>4. ASSUME NEW c \in ShutdownCalls,
               ShutdownBegin(c) \/ ShutdownJoinRaises(c) \/ ShutdownTerminate(c)
        PROVE  Sole'
    BY <2>1, <2>4
       DEF ShutdownBegin, ShutdownJoinRaises, ShutdownTerminate, loopVars
  <2>5. QED
    BY <1>3, <1>6, <2>2, <2>3, <2>4 DEF Resume, LoopStep
<1>7. ASSUME NEW l \in StartCalls, SDKProcessReturns(l) \/ ProcessRaises(l)
      PROVE  Sole'
  BY <1>3, <1>7, Outcomes DEF SDKProcessReturns, ProcessRaises, LoopStep
<1>8. QED
  BY <1>1, <1>5, <1>6, <1>7
     DEF SDKNext, vars, callVars, loopVars, SendMessage, RunSpeaks, RunRaises, RunReturns

(* What the other steps may rely on: the base class's invariants, one loop.*)
Alone == Answering /\ Sole

LEMMA AloneAlways == SDKSpec => []Alone
<1>1. SDKInit => TypeOK /\ SpawnedOnce /\ Sole
  BY InitTypeOK DEF SDKInit, Init, SpawnedOnce, Sole, OneLoopSpawned
<1>2. TypeOK /\ SpawnedOnce /\ Sole /\ [SDKNext]_<<vars, sdkVars>>
        => TypeOK' /\ SpawnedOnce' /\ Sole'
  BY SDKMoves, StepsRefine, StepTypeOK, SpawnedOnceStep, SoleStep
<1>3. Answering /\ Sole => Alone
  BY DEF Alone
<1>4. QED
  BY <1>1, <1>2, <1>3, Extends, AllAnswering, PTL DEF SDKSpec

(* However many times start() is called, and by whom: one loop.            *)
THEOREM OneLoop == SDKSpec => [](OneLoopSpawned /\ SingleLoop)
<1>1. Alone => OneLoopSpawned /\ SingleLoop
  BY DEF Alone, Sole, OneLoopSpawned, SingleLoop, LivePc, InFlightPc
<1>2. QED
  BY <1>1, AloneAlways, PTL

(* So what the base class promises of an agent with one loop holds of      *)
(* SDKURPAgent, with any number of start() and shutdown() calls: once it   *)
(* is TERMINATED no loop is at work, it answers in its lifetime only and   *)
(* in the order of send(), leaves no message it took without an answer,    *)
(* and is idle when the handle says so.                                    *)
THEOREM SDKPromises ==
  SDKSpec => /\ []TerminatedIsQuiescent
             /\ []AnswersWithinLifetime
             /\ []AnswersInOrder
             /\ []NoSilentDrop
             /\ []IdleMeansAnswered
  BY OneLoop, Extends, Quiescence, WithinLifetime, InOrder, NothingDropped,
     IdleIsAnswered, PTL

(* SDKURPAgent implements the serial server, and is to those who host it   *)
(* what HostedAgent says, however often start() is called.                 *)
THEOREM SDKServes == SDKSpec => ImplementsServer /\ ImplementsHosted
  BY OneLoop, Extends, Implementation, Hosting, PTL

------------------------------------------------------------------------------
(* What a step of the base class does to messages, words and loops.        *)
LEMMA Calls ==
  ASSUME Alone, Call
  PROVE  /\ UNCHANGED loopVars
         /\ \/ UNCHANGED <<mailbox, accepted>>
            \/ \E m \in Messages : Send(m)
         /\ \A m \in Messages : Answers(m)' = Answers(m)
         /\ \A m \in Messages : \A i \in Answers(m) : emitted'[i] = emitted[i]
<1> USE DEF Alone, Answering
<1>1. /\ UNCHANGED loopVars
      /\ (\E m \in Messages : Send(m)) \/ Aside
  <2>1. ASSUME NEW c \in ShutdownCalls, ShutdownTerminate(c)
        PROVE  Aside /\ UNCHANGED loopVars
    BY <2>1, EmitsAside DEF ShutdownTerminate, AgentEvent, loopVars
  <2>2. QED
    BY <2>1 DEF Call, Initialize, InitializeRaises, Send, StartBegin, ShutdownBegin,
                ShutdownJoin, ShutdownJoinRaises, Aside, loopVars
<1>2. CASE \E m \in Messages : Send(m)
  BY <1>1, <1>2 DEF Send, Answers
<1>3. CASE Aside
  <2>1. ASSUME NEW e \in Event, e.msg = None, emitted' = Append(emitted, e),
               NEW m \in Messages
        PROVE  /\ Answers(m)' = Answers(m)
               /\ \A i \in Answers(m) : emitted'[i] = emitted[i]
    <3>1. m # None
      BY NoneAssumption
    <3>2. QED
      BY <2>1, <3>1, Appended DEF TypeOK, Answers
  <2>2. QED
    BY <1>1, <1>3, <2>1 DEF Aside, Answers
<1>4. QED
  BY <1>1, <1>2, <1>3

LEMMA Turns ==
  ASSUME Alone, NEW l \in StartCalls, Turn(l)
  PROVE  /\ \A k \in StartCalls \ {l} :
              loop'[k] = loop[k] /\ current'[k] = current[k] /\ loop[k] = "absent"
         /\ loop[l] \notin DonePc
         /\ loop'[l] = "processing" => loop[l] = "prechecking" /\ current'[l] = current[l]
         /\ loop'[l] # "postchecking"
         /\ loop'[l] = "prechecking" => Takes(l)
         /\ loop[l] = "processing" =>
              thread[current[l]] \in {"none", "failed"} \/ Cancelled(l)
         /\ UNCHANGED mailbox \/ Takes(l)
         /\ UNCHANGED accepted
<1> USE DEF Alone, Answering
<1>1. CASE StartRun(l)
  <2>1. loop[l] = "absent" /\ loop' = [loop EXCEPT ![l] = "scheduled"]
    BY <1>1 DEF StartRun, SpawnedOnce
  <2>2. \A k \in StartCalls : loop[k] = "absent"
    BY <1>1 DEF StartRun, Sole, OneLoopSpawned
  <2>3. QED
    BY <1>1, <2>1, <2>2 DEF StartRun, TypeOK, DonePc
<1>2. ASSUME LoopStep(l) \/ Cancelled(l) \/ CancelledUnborn(l)
      PROVE  /\ loop[l] \in LivePc
             /\ \A k \in StartCalls \ {l} :
                  loop'[k] = loop[k] /\ current'[k] = current[k] /\ loop[k] = "absent"
             /\ UNCHANGED accepted
  <2>1. /\ loop[l] \in LivePc
        /\ UNCHANGED accepted
        /\ \E pc \in LoopPc : loop' = [loop EXCEPT ![l] = pc]
    BY <1>2, LoopMoves
  <2>2. \A k \in StartCalls \ {l} : current'[k] = current[k]
    BY <1>2 DEF LoopStep, LoopBegin, Receive, PollTimeout, PreconditionsPass,
                PreconditionsFail, ProcessReturns, PostconditionsPass, PostconditionsFail,
                PostconditionsPanic, Raises, Finish, TaskDone, NextIteration, Pop,
                ReportInfrastructureFailure, Report, Cancelled, CancelledUnborn, TypeOK
  <2>3. QED
    BY <2>1, <2>2 DEF Sole, OneLoopSpawned, LivePc, InFlightPc, TypeOK
<1>3. CASE LoopBegin(l) \/ Receive(l) \/ PollTimeout(l) \/ Finish(l)
  <2>1. /\ loop[l] \notin DonePc \cup {"processing"}
        /\ Takes(l) \/ Leaves(l)
    BY <1>3, NextIterationMoves
       DEF LoopBegin, Receive, PollTimeout, Finish, TaskDone, DonePc, Takes
  <2>2. Takes(l) => loop'[l] = "prechecking"
    BY DEF Takes, Pop, TypeOK
  <2>3. Leaves(l) => UNCHANGED mailbox /\ loop'[l] \in {"polling"} \cup DonePc
    BY DEF Leaves, TypeOK
  <2>4. QED
    BY <1>2, <1>3, <2>1, <2>2, <2>3 DEF LoopStep, DonePc
<1>4. CASE PreconditionsPass(l)
  BY <1>2, <1>4 DEF PreconditionsPass, LoopStep, TypeOK, DonePc
<1>5. CASE PostconditionsPass(l)
  BY <1>2, <1>5 DEF PostconditionsPass, Report, ReportInfrastructureFailure, LoopStep,
                    TypeOK, DonePc
<1>6. CASE Cancelled(l) \/ CancelledUnborn(l)
  BY <1>2, <1>6 DEF Cancelled, CancelledUnborn, TypeOK, DonePc, InFlightPc
<1>7. CASE /\ Raises(l)
           /\ \/ loop[l] = "replying"
              \/ loop[l] = "processing" /\ thread[current[l]] \in {"none", "failed"}
  BY <1>2, <1>7 DEF Raises, Report, ReportInfrastructureFailure, LoopStep,
                    TypeOK, DonePc
<1>8. QED
  BY <1>1, <1>3, <1>4, <1>5, <1>6, <1>7 DEF Turn

(* The answer a step of a loop gives, if it gives one.                     *)
TurnAnswer(l, e) ==
  /\ emitted' = Append(emitted, e)
  /\ \/ e.msg = None
     \/ /\ e.msg = current[l]
        /\ \/ /\ loop[l] = "postchecking" /\ result[l] # None
              /\ e.type = result[l].outcome
           \/ /\ loop[l] = "processing" /\ thread[current[l]] \in {"none", "failed"}
              /\ e.result = Failed("INFRASTRUCTURE_FAILURE")
           \/ loop[l] = "replying"

LEMMA TurnAnswers ==
  ASSUME Alone, NEW l \in StartCalls, Turn(l),
         loop[l] = "postchecking" => result[l] # None
  PROVE  UNCHANGED emitted \/ \E e \in Event : TurnAnswer(l, e)
<1> USE DEF Alone, Answering
<1>1. CASE \/ LoopBegin(l) \/ Receive(l) \/ PollTimeout(l) \/ Finish(l)
           \/ PreconditionsPass(l) \/ Cancelled(l) \/ CancelledUnborn(l)
  BY <1>1 DEF LoopBegin, Receive, PollTimeout, Finish, TaskDone, PreconditionsPass,
              Cancelled, CancelledUnborn
<1>2. CASE StartRun(l)
  <2> DEFINE e == [type |-> "AGENT_STARTED", msg |-> None, result |-> None]
  <2>1. e \in Event
    BY DEF Event, AgentEvent
  <2>2. UNCHANGED emitted \/ emitted' = Append(emitted, e)
    BY <1>2 DEF StartRun, Emit
  <2>3. QED
    BY <2>1, <2>2 DEF TurnAnswer
<1>3. CASE PostconditionsPass(l)
  <2> DEFINE e == [type |-> result[l].outcome, msg |-> current[l], result |-> result[l]]
  <2>1. loop[l] = "postchecking" /\ result[l] # None
    BY <1>3 DEF PostconditionsPass
  <2>2. result[l] \in ProcessResult
    BY <2>1, ResultsAssumption DEF TypeOK
  <2>3. e \in Event
    BY <2>2 DEF Event, TypeOK, ProcessResult, TaskEvent
  <2>4. UNCHANGED emitted \/ emitted' = Append(emitted, e)
    BY <1>3, <2>1 DEF PostconditionsPass, Report, Emit
  <2>5. QED
    BY <2>1, <2>3, <2>4 DEF TurnAnswer
<1>4. CASE /\ Raises(l)
           /\ \/ loop[l] = "replying"
              \/ loop[l] = "processing" /\ thread[current[l]] \in {"none", "failed"}
  <2> DEFINE e == [type |-> "TASK_FAILED", msg |-> current[l],
                   result |-> Failed("INFRASTRUCTURE_FAILURE")]
  <2>1. Failed("INFRASTRUCTURE_FAILURE") \in ProcessResult
    BY FailedType DEF FailureCategory
  <2>2. e \in Event
    BY <2>1 DEF Event, TypeOK, TaskEvent, LastTaskOutcome
  <2>3. UNCHANGED emitted \/ emitted' = Append(emitted, e)
    BY <1>4 DEF Raises, ReportInfrastructureFailure, Report, Emit
  <2>4. QED
    BY <1>4, <2>2, <2>3 DEF TurnAnswer
<1>5. QED
  BY <1>1, <1>2, <1>3, <1>4 DEF Turn

(* The message of a loop that holds one.                                   *)
LEMMA HeldMessage ==
  ASSUME Alone, NEW l \in StartCalls, loop[l] \in InFlightPc
  PROVE  /\ current[l] \in Messages
         /\ current[l] \in Range(accepted) /\ ~ Queued(current[l])
         /\ loop[l] \in Held => Answers(current[l]) = {}
<1> USE DEF Alone, Answering
<1>1. current[l] \in Range(accepted) /\ ~ Queued(current[l])
  BY DEF Owned, Busy
<1>2. current[l] \in Messages
  BY <1>1 DEF TypeOK, Range
<1>3. QED
  BY <1>1, <1>2 DEF AnsweredBy, Answers

------------------------------------------------------------------------------
(* The agent, its conversation and the threads keep their types.           *)
THEOREM SDKTyping == SDKSpec => []SDKTypeOK
<1>1. SDKInit => SDKTypeOK
  BY InitTypeOK DEF SDKInit, SDKTypeOK, ExecutionStatus
<1>2. Alone /\ Steps /\ SDKTypeOK /\ TypeOK' => SDKTypeOK'
  <2> SUFFICES ASSUME Alone, Steps, SDKTypeOK, TypeOK'
               PROVE  SDKTypeOK'
    OBVIOUS
  <2>1. CASE UNCHANGED sdkVars
    BY <2>1 DEF sdkVars, SDKTypeOK
  <2>2. ASSUME NEW l \in StartCalls, SendMessage(l)
        PROVE  SDKTypeOK'
    <3>1. current[l] \in Messages
      BY <2>2, HeldMessage DEF SendMessage, Handing, InFlightPc
    <3>2. [task |-> current[l], role |-> "user"] \in LLMMessage
      BY <3>1 DEF LLMMessage
    <3>3. llm_messages' \in Seq(LLMMessage)
      BY <2>2, <3>2 DEF SendMessage, SDKTypeOK
    <3>4. QED
      BY <2>2, <3>1, <3>3 DEF SendMessage, SDKTypeOK, ExecutionStatus
  <2>3. ASSUME NEW l \in StartCalls, SDKProcessReturns(l)
        PROVE  SDKTypeOK'
    <3>1. Response \in LLMMessage \cup {None}
      BY DEF Response, SDKTypeOK
    <3>2. QED
      BY <2>3, <3>1 DEF SDKProcessReturns, SDKTypeOK
  <2>4. ASSUME NEW m \in Messages, RunSpeaks(m)
        PROVE  SDKTypeOK'
    <3>1. [task |-> m, role |-> "agent"] \in LLMMessage
      BY DEF LLMMessage
    <3>2. llm_messages' \in Seq(LLMMessage)
      BY <2>4, <3>1 DEF RunSpeaks, SDKTypeOK
    <3>3. QED
      BY <2>4, <3>2 DEF RunSpeaks, SDKTypeOK
  <2>5. ASSUME NEW m \in Messages,
               RunRaises(m) \/ \E s \in ExecutionStatus \ {"RUNNING"} : RunReturns(m, s)
        PROVE  SDKTypeOK'
    BY <2>5 DEF RunRaises, RunReturns, SDKTypeOK, ExecutionStatus
  <2>6. QED
    BY <2>1, <2>2, <2>3, <2>4, <2>5 DEF Steps, sdkVars
<1>3. QED
  BY <1>1, <1>2, AloneAlways, SDKMoves, Extends, Typing, PTL DEF SDKSpec

------------------------------------------------------------------------------
(* While a run goes on, the loop that awaits it stays where it is or is    *)
(* cancelled, and a loop that was cancelled takes no other message: so     *)
(* conversation.run() is never entered while a run is going on.            *)
THEOREM OneRun == SDKSpec => []OneRunAtATime
<1>1. SDKInit => OneRunAtATime
  BY DEF SDKInit, OneRunAtATime
<1>2. Alone /\ SDKTypeOK /\ Steps /\ OneRunAtATime => OneRunAtATime'
  <2> SUFFICES ASSUME Alone, SDKTypeOK, Steps, OneRunAtATime
               PROVE  OneRunAtATime'
    OBVIOUS
  <2> USE DEF OneRunAtATime
  <2>1. CASE UNCHANGED <<vars, sdkVars>>
    BY <2>1 DEF vars, loopVars, sdkVars, Answers
  <2>2. CASE Call /\ UNCHANGED sdkVars
    BY <2>2, Calls DEF loopVars, sdkVars
  <2>3. ASSUME NEW l \in StartCalls, Turn(l), UNCHANGED sdkVars
        PROVE  OneRunAtATime'
    <3> SUFFICES ASSUME NEW m \in Messages, thread[m] = "running"
                 PROVE  \E k \in StartCalls :
                          \/ loop'[k] = "processing" /\ current'[k] = m
                          \/ loop'[k] = "exited" /\ Answers(m)' = {}
      BY <2>3 DEF sdkVars
    <3>1. PICK k \in StartCalls :
            \/ loop[k] = "processing" /\ current[k] = m
            \/ loop[k] = "exited" /\ Answers(m) = {}
      OBVIOUS
    <3>2. k = l
      BY <2>3, <3>1, Turns
    <3>3. loop[l] = "processing" /\ current[l] = m /\ Cancelled(l)
      BY <2>3, <3>1, <3>2, Turns DEF DonePc
    <3>4. Answers(m) = {}
      BY <3>3, HeldMessage DEF InFlightPc, Held
    <3>5. loop'[l] = "exited" /\ Answers(m)' = {}
      BY <3>3, <3>4 DEF Cancelled, Answers, Alone, Answering, TypeOK
    <3>6. QED
      BY <3>5
  <2>4. ASSUME NEW l \in StartCalls, SendMessage(l)
        PROVE  OneRunAtATime'
    <3>1. /\ current[l] \in Messages /\ loop[l] = "processing"
          /\ thread[current[l]] = "none"
          /\ thread' = [thread EXCEPT ![current[l]] = "running"]
          /\ UNCHANGED <<loop, current, emitted>>
      BY <2>4, HeldMessage DEF SendMessage, Handing, InFlightPc, vars, loopVars
    <3>2. \A m \in Messages : thread[m] # "running"
      BY <3>1 DEF Alone, Sole, OneLoopSpawned
    <3>3. QED
      BY <3>1, <3>2 DEF SDKTypeOK
  <2>5. ASSUME NEW l \in StartCalls, SDKProcessReturns(l)
        PROVE  OneRunAtATime'
    <3>1. /\ loop[l] = "processing" /\ thread[current[l]] = "finished"
          /\ UNCHANGED thread
      BY <2>5 DEF SDKProcessReturns
    <3>2. \A m \in Messages : thread[m] # "running"
      BY <3>1 DEF Alone, Sole, OneLoopSpawned
    <3>3. QED
      BY <3>1, <3>2
  <2>6. ASSUME NEW m \in Messages, RunSpeaks(m)
        PROVE  OneRunAtATime'
    BY <2>6 DEF RunSpeaks, vars, loopVars, Answers
  <2>7. ASSUME NEW m \in Messages,
               RunRaises(m) \/ \E s \in ExecutionStatus \ {"RUNNING"} : RunReturns(m, s)
        PROVE  OneRunAtATime'
    BY <2>7 DEF RunRaises, RunReturns, SDKTypeOK, vars, loopVars, Answers
  <2>8. QED
    BY <2>1, <2>2, <2>3, <2>4, <2>5, <2>6, <2>7 DEF Steps
<1>3. QED
  BY <1>1, <1>2, AloneAlways, SDKMoves, SDKTyping, PTL DEF SDKSpec

------------------------------------------------------------------------------
(* A thread is started for a message that a loop took; until then the      *)
(* conversation has no word of it, and while the loop is with the message  *)
(* the last word is of its run.                                            *)
Words ==
  /\ \A m \in Messages : thread[m] # "none" =>
       /\ m \in Range(accepted) /\ ~ Queued(m)
       /\ \A l \in StartCalls : loop[l] = "prechecking" => current[l] # m
  /\ \A m \in Messages : thread[m] = "none" =>
       /\ answer[m] = None
       /\ \A i \in DOMAIN llm_messages : llm_messages[i].task # m
  /\ \A m \in Messages : answer[m] # None => thread[m] = "finished"
  /\ \A l \in StartCalls :
       loop[l] = "processing" /\ thread[current[l]] \in {"running", "finished"} =>
         /\ llm_messages # <<>>
         /\ Response.task = current[l]
         /\ Response.role = "user" =>
              [task |-> current[l], role |-> "agent"] \notin Range(llm_messages)

(* What a word added at the end does to the last word and to the range.    *)
LEMMA Spoken ==
  ASSUME llm_messages \in Seq(LLMMessage), NEW w \in LLMMessage,
         llm_messages' = Append(llm_messages, w)
  PROVE  /\ llm_messages' # <<>> /\ Response' = w
         /\ Range(llm_messages') = Range(llm_messages) \cup {w}
         /\ \A i \in DOMAIN llm_messages' :
              \/ i \in DOMAIN llm_messages /\ llm_messages'[i] = llm_messages[i]
              \/ llm_messages'[i] = w
<1>1. /\ Len(llm_messages) \in Nat
      /\ DOMAIN llm_messages' = 1 .. Len(llm_messages) + 1
      /\ DOMAIN llm_messages = 1 .. Len(llm_messages)
      /\ llm_messages'[Len(llm_messages) + 1] = w
      /\ \A n \in 1 .. Len(llm_messages) : llm_messages'[n] = llm_messages[n]
  BY Appended
<1>2. Len(llm_messages') = Len(llm_messages) + 1 /\ llm_messages' # <<>>
  OBVIOUS
<1>3. QED
  BY <1>1, <1>2 DEF Range, Response

LEMMA WordsStep ==
  ASSUME Alone, SDKTypeOK, OneRunAtATime, Words, AnswersItsOwnTask, Steps
  PROVE  Words' /\ AnswersItsOwnTask'
<1> USE DEF Words, AnswersItsOwnTask
<1>1. CASE UNCHANGED <<vars, sdkVars>>
  BY <1>1 DEF vars, loopVars, sdkVars, Queued, Response
<1>2. CASE Call /\ UNCHANGED sdkVars
  <2>1. CASE UNCHANGED <<mailbox, accepted>>
    BY <1>2, <2>1, Calls DEF sdkVars, loopVars, Queued, Response
  <2>2. ASSUME NEW m \in Messages, Send(m)
        PROVE  Words' /\ AnswersItsOwnTask'
    <3>1. m \notin Range(accepted) /\ Range(accepted) \subseteq Range(accepted')
      <4>1. /\ m \notin Range(accepted) /\ accepted' = Append(accepted, m)
        BY <2>2 DEF Send
      <4>2. /\ DOMAIN accepted' = 1 .. Len(accepted) + 1
            /\ DOMAIN accepted = 1 .. Len(accepted) /\ Len(accepted) \in Nat
            /\ \A n \in 1 .. Len(accepted) : accepted'[n] = accepted[n]
        BY <4>1, Appended DEF SDKTypeOK, TypeOK
      <4>3. QED
        BY <4>1, <4>2 DEF Range
    <3>2. \A x : Queued(x)' => Queued(x) \/ x = m
      <4>1. mailbox' = Append(mailbox, m)
        BY <2>2 DEF Send
      <4>2. QED
        BY <4>1, Appended DEF Queued, SDKTypeOK, TypeOK
    <3>3. QED
      BY <1>2, <3>1, <3>2, Calls DEF sdkVars, loopVars, Response
  <2>3. QED
    BY <1>2, <2>1, <2>2, Calls
<1>3. ASSUME NEW l \in StartCalls, Turn(l), UNCHANGED sdkVars
      PROVE  Words' /\ AnswersItsOwnTask'
  <2>1. /\ UNCHANGED <<thread, llm_messages, answer, accepted>>
        /\ Response' = Response
    BY <1>3, Turns DEF sdkVars, Response
  <2>2. ASSUME Takes(l)
        PROVE  /\ \A x : Queued(x)' => Queued(x)
               /\ Queued(current'[l])
    <3>1. /\ mailbox # <<>> /\ mailbox' = Tail(mailbox)
          /\ current'[l] = Head(mailbox)
      BY <2>2 DEF Takes, Pop, SDKTypeOK, TypeOK
    <3>2. QED
      BY <3>1, Taking DEF Queued, SDKTypeOK, TypeOK
  <2>3. \A x : Queued(x)' => Queued(x)
    BY <1>3, <2>2, Turns DEF Queued
  <2>4. ASSUME NEW m \in Messages, thread[m] # "none", NEW k \in StartCalls,
               loop'[k] = "prechecking"
        PROVE  current'[k] # m
    BY <1>3, <2>2, <2>4, Turns
  <2>5. ASSUME NEW k \in StartCalls, loop'[k] = "processing"
        PROVE  thread[current'[k]] = "none"
    <3>1. k = l /\ loop[l] = "prechecking" /\ current'[l] = current[l]
      BY <1>3, <2>5, Turns
    <3>2. current[l] \in Messages
      BY <3>1, HeldMessage DEF InFlightPc
    <3>3. QED
      BY <3>1, <3>2
  <2>6. QED
    BY <2>1, <2>3, <2>4, <2>5
<1>4. ASSUME NEW l \in StartCalls, SendMessage(l)
      PROVE  Words' /\ AnswersItsOwnTask'
  <2> DEFINE m == current[l]
             w == [task |-> m, role |-> "user"]
  <2>1. /\ loop[l] = "processing" /\ thread[m] = "none"
        /\ thread' = [thread EXCEPT ![m] = "running"]
        /\ llm_messages' = Append(llm_messages, w)
        /\ UNCHANGED <<loop, current, mailbox, accepted, answer>>
    BY <1>4 DEF SendMessage, Handing, vars, loopVars
  <2>2. /\ m \in Messages /\ m \in Range(accepted) /\ ~ Queued(m)
    BY <2>1, HeldMessage DEF InFlightPc
  <2>3. w \in LLMMessage
    BY <2>2 DEF LLMMessage
  <2>4. \A k \in StartCalls : loop[k] # "absent" => k = l
    BY <2>1 DEF Alone, Sole, OneLoopSpawned
  <2>5. /\ llm_messages' # <<>> /\ Response' = w
        /\ Range(llm_messages') = Range(llm_messages) \cup {w}
        /\ \A i \in DOMAIN llm_messages' :
             \/ i \in DOMAIN llm_messages /\ llm_messages'[i] = llm_messages[i]
             \/ llm_messages'[i] = w
    BY <2>1, <2>3, Spoken DEF SDKTypeOK
  <2>6. [task |-> m, role |-> "agent"] \notin Range(llm_messages)
    BY <2>1, <2>2 DEF Range
  <2>7. \A x : [task |-> x, role |-> "agent"] # w
    OBVIOUS
  <2>8. thread'[m] = "running" /\ \A x \in Messages \ {m} : thread'[x] = thread[x]
    BY <2>1, <2>2 DEF SDKTypeOK
  <2> HIDE DEF w
  <2>9. w.task = m /\ w.role = "user"
    BY DEF w
  <2>10. Words'
    BY <2>1, <2>2, <2>4, <2>5, <2>6, <2>7, <2>8, <2>9 DEF Queued
  <2>11. AnswersItsOwnTask'
    BY <2>1, <2>5, <2>7
  <2>12. QED
    BY <2>10, <2>11
<1>5. ASSUME NEW l \in StartCalls, SDKProcessReturns(l)
      PROVE  Words' /\ AnswersItsOwnTask'
  <2>1. /\ loop[l] = "processing" /\ thread[current[l]] = "finished"
        /\ loop' = [loop EXCEPT ![l] = "postchecking"]
        /\ answer' = [answer EXCEPT ![current[l]] = Response]
        /\ UNCHANGED <<thread, llm_messages, current, mailbox, accepted>>
    BY <1>5 DEF SDKProcessReturns, ProcessReturns
  <2>2. current[l] \in Messages
    BY <2>1, HeldMessage DEF InFlightPc
  <2>3. \A k \in StartCalls : /\ loop'[k] # "prechecking" \/ loop[k] = "prechecking"
                              /\ loop'[k] # "processing" \/ loop[k] = "processing"
    BY <2>1 DEF Alone, Answering, TypeOK
  <2>4. /\ answer'[current[l]] = Response
        /\ \A m \in Messages \ {current[l]} : answer'[m] = answer[m]
    BY <2>1, <2>2 DEF SDKTypeOK
  <2>5. Words'
    BY <2>1, <2>2, <2>3, <2>4 DEF Queued, Response
  <2>6. AnswersItsOwnTask'
    BY <2>1, <2>2, <2>4
  <2>7. QED
    BY <2>5, <2>6
<1>6. ASSUME NEW m \in Messages, RunSpeaks(m)
      PROVE  Words' /\ AnswersItsOwnTask'
  <2> DEFINE w == [task |-> m, role |-> "agent"]
  <2>1. /\ thread[m] = "running"
        /\ llm_messages' = Append(llm_messages, w)
        /\ UNCHANGED <<loop, current, mailbox, accepted, answer, thread>>
    BY <1>6 DEF RunSpeaks, vars, loopVars
  <2>2. w \in LLMMessage
    BY DEF LLMMessage
  <2>3. /\ llm_messages' # <<>> /\ Response' = w
        /\ Range(llm_messages') = Range(llm_messages) \cup {w}
        /\ \A i \in DOMAIN llm_messages' :
             \/ i \in DOMAIN llm_messages /\ llm_messages'[i] = llm_messages[i]
             \/ llm_messages'[i] = w
    BY <2>1, <2>2, Spoken DEF SDKTypeOK
  <2>4. \A l \in StartCalls : loop[l] = "processing" => current[l] = m
    BY <2>1 DEF OneRunAtATime, Alone, Sole, OneLoopSpawned
  <2> HIDE DEF w
  <2>5. w.task = m /\ w.role = "agent"
    BY DEF w
  <2>6. Words'
    BY <2>1, <2>3, <2>4, <2>5 DEF Queued
  <2>7. \A x : x # m => [task |-> x, role |-> "agent"] # w
    BY <2>5
  <2>8. AnswersItsOwnTask'
    BY <2>1, <2>3, <2>7
  <2>9. QED
    BY <2>6, <2>8
<1>7. ASSUME NEW m \in Messages,
             RunRaises(m) \/ \E s \in ExecutionStatus \ {"RUNNING"} : RunReturns(m, s)
      PROVE  Words' /\ AnswersItsOwnTask'
  <2>1. /\ thread[m] = "running"
        /\ \E pc \in {"finished", "failed"} : thread' = [thread EXCEPT ![m] = pc]
        /\ UNCHANGED <<loop, current, mailbox, accepted, llm_messages, answer>>
    BY <1>7 DEF RunRaises, RunReturns, vars, loopVars
  <2>2. /\ thread'[m] \in {"finished", "failed"}
        /\ \A x \in Messages \ {m} : thread'[x] = thread[x]
    BY <2>1 DEF SDKTypeOK
  <2>3. \A l \in StartCalls : loop[l] = "processing" => current[l] = m
    BY <2>1 DEF OneRunAtATime, Alone, Sole, OneLoopSpawned
  <2>4. QED
    BY <2>1, <2>2, <2>3 DEF Queued, Response
<1>8. QED
  BY <1>1, <1>2, <1>3, <1>4, <1>5, <1>6, <1>7 DEF Steps

LEMMA WordsAlways == SDKSpec => [](Words /\ AnswersItsOwnTask)
<1>1. SDKInit => Words /\ AnswersItsOwnTask
  BY DEF SDKInit, Init, Words, AnswersItsOwnTask
<1>2. Alone /\ SDKTypeOK /\ OneRunAtATime /\ Words /\ AnswersItsOwnTask /\ Steps
        => Words' /\ AnswersItsOwnTask'
  BY WordsStep
<1>3. QED
  BY <1>1, <1>2, AloneAlways, SDKMoves, SDKTyping, OneRun, PTL DEF SDKSpec

(* A task is answered with a word of its own run, whatever the threads of  *)
(* tasks that were cancelled say meanwhile.                                *)
THEOREM OwnWords == SDKSpec => []AnswersItsOwnTask
  BY WordsAlways, PTL

------------------------------------------------------------------------------
(* How a run ended is what the status says until process() reads it, what  *)
(* process() read is what the loop reports, and it reports before it waits *)
(* for the callback.                                                       *)
Endings ==
  /\ \A m \in Messages : thread[m] = "finished" =>
       ended[m] \in ExecutionStatus \ {"RUNNING"}
  /\ \A l \in StartCalls :
       loop[l] = "processing" /\ thread[current[l]] = "finished" =>
         execution_status = ended[current[l]]
  /\ \A l \in StartCalls : loop[l] = "postchecking" =>
       /\ thread[current[l]] = "finished"
       /\ result[l] = [outcome |-> OutcomeOf(ended[current[l]]), category |-> "NONE"]
  /\ \A l \in StartCalls : loop[l] = "replying" => Answers(current[l]) # {}

(* The outcome of a status, read backwards.                                *)
LEMMA OutcomeRead ==
  ASSUME NEW s \in ExecutionStatus \ {"RUNNING"}
  PROVE  \/ OutcomeOf(s) = "TASK_COMPLETED" /\ s = "FINISHED"
         \/ OutcomeOf(s) = "WAITING_FOR_USER_INPUT" /\ s = "PAUSED"
         \/ OutcomeOf(s) = "NONE" /\ s = "IDLE"
         \/ OutcomeOf(s) = "TASK_FAILED" /\ s \in {"STUCK", "ERROR"}
  BY DEF OutcomeOf, ExecutionStatus

(* An answer that is already there stays true of the run.                  *)
Reported(i, m) ==
  \/ emitted[i].type = "TASK_COMPLETED" /\ ended[m] = "FINISHED"
  \/ emitted[i].type = "WAITING_FOR_USER_INPUT" /\ ended[m] = "PAUSED"
  \/ emitted[i].type = "NONE" /\ ended[m] = "IDLE"
  \/ emitted[i].type = "TASK_FAILED" /\ ended[m] \in {"STUCK", "ERROR"}
  \/ /\ emitted[i].result = Failed("INFRASTRUCTURE_FAILURE")
     /\ thread[m] \in {"none", "failed"}

LEMMA SameAnswers ==
  ASSUME OutcomeOfItsOwnRun,
         \A m \in Messages :
           /\ Answers(m)' = Answers(m)
           /\ \A i \in Answers(m) : emitted'[i] = emitted[i]
           /\ Answers(m) # {} => ended'[m] = ended[m] /\ thread'[m] = thread[m]
  PROVE  OutcomeOfItsOwnRun'
<1> SUFFICES ASSUME NEW m \in Messages, NEW i \in Answers(m)',
                    \A j \in Answers(m)' : i <= j
             PROVE  Reported(i, m)'
  BY DEF OutcomeOfItsOwnRun, Reported
<1>1. i \in Answers(m) /\ \A j \in Answers(m) : i <= j
  OBVIOUS
<1>2. Reported(i, m)
  BY <1>1 DEF OutcomeOfItsOwnRun, Reported
<1>3. emitted'[i] = emitted[i] /\ ended'[m] = ended[m] /\ thread'[m] = thread[m]
  BY <1>1
<1>4. QED
  BY <1>2, <1>3 DEF Reported

LEMMA EndingsStep ==
  ASSUME Alone, SDKTypeOK, OneRunAtATime, Words, Endings, OutcomeOfItsOwnRun, Steps
  PROVE  Endings' /\ OutcomeOfItsOwnRun'
<1> USE DEF Endings
<1>1. CASE UNCHANGED <<vars, sdkVars>>
  BY <1>1, SameAnswers DEF vars, loopVars, sdkVars, Answers
<1>2. CASE Call /\ UNCHANGED sdkVars
  <2>1. /\ UNCHANGED <<loop, current, result, thread, ended, execution_status>>
        /\ \A m \in Messages : /\ Answers(m)' = Answers(m)
                               /\ \A i \in Answers(m) : emitted'[i] = emitted[i]
    BY <1>2, Calls DEF sdkVars, loopVars
  <2>2. \A l \in StartCalls : loop[l] = "replying" => Answers(current[l])' # {}
    BY <2>1, HeldMessage DEF InFlightPc
  <2>3. Endings'
    BY <2>1, <2>2
  <2>4. OutcomeOfItsOwnRun'
    BY <2>1, SameAnswers
  <2>5. QED
    BY <2>3, <2>4
<1>3. ASSUME NEW l \in StartCalls, Turn(l), UNCHANGED sdkVars
      PROVE  Endings' /\ OutcomeOfItsOwnRun'
  <2>1. \A k \in StartCalls : loop'[k] # "postchecking"
    BY <1>3, Turns
  <2>2. ASSUME NEW k \in StartCalls, loop'[k] = "processing"
        PROVE  thread[current'[k]] = "none"
    <3>1. k = l /\ loop[l] = "prechecking" /\ current'[l] = current[l]
      BY <1>3, <2>2, Turns
    <3>2. current[l] \in Messages
      BY <3>1, HeldMessage DEF InFlightPc
    <3>3. QED
      BY <3>1, <3>2 DEF Words
  <2>3. ASSUME NEW k \in StartCalls, loop'[k] = "replying"
        PROVE  Answers(current[k])' # {}
    <3>1. k = l
      BY <1>3, <2>3, Turns
    <3>2. PostconditionsPass(l) /\ callback
      BY <1>3, <2>3, <3>1 DEF Turn, StartRun, LoopBegin, Receive, PollTimeout, Finish,
         TaskDone, NextIteration, Pop, PreconditionsPass, Cancelled, CancelledUnborn, Raises,
         ReportInfrastructureFailure, Report, Alone, Answering, TypeOK, SpawnedOnce, Wiring,
         CallbackBound, PostconditionsPass
    <3>3. PICK e : emitted' = Append(emitted, e) /\ e.msg = current[l]
      <4> DEFINE said(type, x) == [type |-> type, msg |-> current[l], result |-> x]
      <4>1. \A type, x : said(type, x).msg = current[l]
        OBVIOUS
      <4> HIDE DEF said
      <4>2. \/ Report(l, result[l].outcome, result[l], "replying")
            \/ Report(l, "TASK_FAILED", Failed("INFRASTRUCTURE_FAILURE"), "reporting")
        BY <3>2 DEF PostconditionsPass, ReportInfrastructureFailure
      <4>3. ASSUME NEW type, NEW x, NEW pc, Report(l, type, x, pc)
            PROVE  emitted' = Append(emitted, said(type, x))
        BY <3>2, <4>3 DEF Report, Emit, said
      <4>4. QED
        BY <4>1, <4>2, <4>3
    <3>4. current'[l] = current[l]
      BY <3>2 DEF PostconditionsPass, ReportInfrastructureFailure, Report
    <3>5. /\ Len(emitted) + 1 \in DOMAIN emitted'
          /\ emitted'[Len(emitted) + 1] = e
      BY <3>3 DEF SDKTypeOK, TypeOK
    <3>6. QED
      BY <3>1, <3>3, <3>4, <3>5 DEF Answers
  <2>4. Endings'
    BY <1>3, <2>1, <2>2, <2>3 DEF sdkVars
  <2>5. CASE UNCHANGED emitted
    <3>1. \A m \in Messages : Answers(m)' = Answers(m)
      BY <2>5 DEF Answers
    <3>2. UNCHANGED <<ended, thread>>
      BY <1>3 DEF sdkVars
    <3>3. QED
      BY <2>4, <2>5, <3>1, <3>2, SameAnswers
  <2>6. ASSUME NEW e \in Event, TurnAnswer(l, e)
        PROVE  OutcomeOfItsOwnRun'
    <3>1. /\ DOMAIN emitted' = 1 .. Len(emitted) + 1
          /\ DOMAIN emitted = 1 .. Len(emitted) /\ Len(emitted) \in Nat
          /\ emitted'[Len(emitted) + 1] = e
          /\ \A n \in 1 .. Len(emitted) : emitted'[n] = emitted[n]
      BY <2>6, Appended DEF TurnAnswer, SDKTypeOK, TypeOK
    <3> SUFFICES ASSUME NEW m \in Messages, NEW i \in Answers(m)',
                        \A j \in Answers(m)' : i <= j
                 PROVE  Reported(i, m)'
      BY DEF OutcomeOfItsOwnRun, Reported
    <3>2. CASE i \in Answers(m)
      <4>1. \A j \in Answers(m) : j \in Answers(m)'
        BY <3>1 DEF Answers
      <4>2. Reported(i, m)
        BY <3>2, <4>1 DEF OutcomeOfItsOwnRun, Reported
      <4>3. emitted'[i] = emitted[i]
        BY <3>1, <3>2 DEF Answers
      <4>4. QED
        BY <1>3, <4>2, <4>3 DEF Reported, sdkVars
    <3>3. CASE i \notin Answers(m)
      <4>1. i = Len(emitted) + 1 /\ e.msg = m /\ emitted'[i] = e
        BY <3>1, <3>3 DEF Answers
      <4>2. m = current[l]
        BY <2>6, <4>1, NoneAssumption DEF TurnAnswer
      <4>3. CASE loop[l] = "postchecking" /\ e.type = result[l].outcome
        <5>1. /\ thread[m] = "finished"
              /\ result[l] = [outcome |-> OutcomeOf(ended[m]), category |-> "NONE"]
          BY <4>2, <4>3
        <5>2. result[l].outcome = OutcomeOf(ended[m])
          BY <5>1
        <5>3. /\ ended[m] \in ExecutionStatus \ {"RUNNING"}
              /\ e.type = OutcomeOf(ended[m])
          BY <4>3, <5>1, <5>2
        <5>4. QED
          BY <1>3, <4>1, <5>3, OutcomeRead DEF Reported, sdkVars
      <4>4. CASE /\ thread[current[l]] \in {"none", "failed"}
                 /\ e.result = Failed("INFRASTRUCTURE_FAILURE")
        BY <1>3, <4>1, <4>2, <4>4 DEF Reported, sdkVars
      <4>5. CASE loop[l] = "replying"
        <5>1. \E j \in DOMAIN emitted : emitted[j].msg = m
          BY <4>2, <4>5 DEF Answers
        <5>2. QED
          BY <3>1, <4>1, <5>1 DEF Answers
      <4>6. QED
        BY <2>6, <4>1, <4>3, <4>4, <4>5, NoneAssumption DEF TurnAnswer
    <3>4. QED
      BY <3>2, <3>3
  <2>7. loop[l] = "postchecking" => result[l] # None
    <3> DEFINE r == [outcome |-> OutcomeOf(ended[current[l]]), category |-> "NONE"]
    <3>1. loop[l] = "postchecking" => result[l] = r
      OBVIOUS
    <3>2. r \in ProcessResult
      BY Outcomes
    <3> HIDE DEF r
    <3>3. QED
      BY <3>1, <3>2, NoneAssumption
  <2>8. QED
    BY <1>3, <2>4, <2>5, <2>6, <2>7, TurnAnswers
<1>4. ASSUME NEW l \in StartCalls, SendMessage(l)
      PROVE  Endings' /\ OutcomeOfItsOwnRun'
  <2> DEFINE m == current[l]
  <2>1. /\ loop[l] = "processing" /\ thread[m] = "none"
        /\ thread' = [thread EXCEPT ![m] = "running"]
        /\ UNCHANGED <<loop, current, result, emitted, ended>>
    BY <1>4 DEF SendMessage, Handing, vars, loopVars
  <2>2. m \in Messages /\ Answers(m) = {}
    BY <2>1, HeldMessage DEF InFlightPc, Held
  <2>3. \A k \in StartCalls : loop[k] # "absent" => k = l
    BY <2>1 DEF Alone, Sole, OneLoopSpawned
  <2>4. thread'[m] = "running" /\ \A x \in Messages \ {m} : thread'[x] = thread[x]
    BY <2>1, <2>2 DEF SDKTypeOK
  <2>5. \A x : Answers(x)' = Answers(x)
    BY <2>1 DEF Answers
  <2> HIDE DEF m
  <2>6. OutcomeOfItsOwnRun'
    BY <2>1, <2>2, <2>4, <2>5, SameAnswers
  <2>7. Endings'
    BY <2>1, <2>2, <2>3, <2>4, <2>5 DEF m
  <2>8. QED
    BY <2>6, <2>7
<1>5. ASSUME NEW l \in StartCalls, SDKProcessReturns(l)
      PROVE  Endings' /\ OutcomeOfItsOwnRun'
  <2> DEFINE r == [outcome |-> OutcomeOf(execution_status), category |-> "NONE"]
  <2>1. /\ loop[l] = "processing" /\ thread[current[l]] = "finished"
        /\ loop' = [loop EXCEPT ![l] = "postchecking"]
        /\ result' = [result EXCEPT ![l] = r]
        /\ UNCHANGED <<thread, ended, execution_status, current, emitted>>
    BY <1>5 DEF SDKProcessReturns, ProcessReturns
  <2>2. /\ loop'[l] = "postchecking" /\ result'[l] = r
        /\ \A k \in StartCalls \ {l} : loop'[k] = loop[k] /\ result'[k] = result[k]
    BY <2>1 DEF SDKTypeOK, TypeOK
  <2>3. \A x : Answers(x)' = Answers(x)
    BY <2>1 DEF Answers
  <2>4. r = [outcome |-> OutcomeOf(ended[current[l]]), category |-> "NONE"]
    BY <2>1
  <2> HIDE DEF r
  <2>5. OutcomeOfItsOwnRun'
    BY <2>1, <2>3, SameAnswers
  <2>6. Endings'
    BY <2>1, <2>2, <2>3, <2>4
  <2>7. QED
    BY <2>5, <2>6
<1>6. ASSUME NEW m \in Messages, RunSpeaks(m)
      PROVE  Endings' /\ OutcomeOfItsOwnRun'
  <2>1. UNCHANGED <<loop, current, result, emitted, thread, ended, execution_status>>
    BY <1>6 DEF RunSpeaks, vars, loopVars
  <2>2. \A x : Answers(x)' = Answers(x)
    BY <2>1 DEF Answers
  <2>3. QED
    BY <2>1, <2>2, SameAnswers
<1>7. ASSUME NEW m \in Messages,
             RunRaises(m) \/ \E s \in ExecutionStatus \ {"RUNNING"} : RunReturns(m, s)
      PROVE  Endings' /\ OutcomeOfItsOwnRun'
  <2>1. /\ thread[m] = "running"
        /\ UNCHANGED <<loop, current, result, emitted>>
        /\ \/ /\ thread' = [thread EXCEPT ![m] = "failed"] /\ UNCHANGED ended
           \/ \E s \in ExecutionStatus \ {"RUNNING"} :
                /\ thread' = [thread EXCEPT ![m] = "finished"]
                /\ ended' = [ended EXCEPT ![m] = s] /\ execution_status' = s
    BY <1>7 DEF RunRaises, RunReturns, vars, loopVars
  <2>2. /\ \A x \in Messages \ {m} : thread'[x] = thread[x] /\ ended'[x] = ended[x]
        /\ \/ thread'[m] = "failed" /\ UNCHANGED ended
           \/ /\ thread'[m] = "finished" /\ ended'[m] = execution_status'
              /\ execution_status' \in ExecutionStatus \ {"RUNNING"}
    BY <2>1 DEF SDKTypeOK
  <2>3. \A l \in StartCalls : /\ loop[l] = "processing" => current[l] = m
                              /\ loop[l] # "postchecking"
    BY <2>1 DEF OneRunAtATime, Alone, Sole, OneLoopSpawned
  <2>4. Answers(m) = {}
    BY <2>1, HeldMessage DEF OneRunAtATime, InFlightPc, Held
  <2>5. \A x : Answers(x)' = Answers(x)
    BY <2>1 DEF Answers
  <2>6. OutcomeOfItsOwnRun'
    BY <2>1, <2>2, <2>4, <2>5, SameAnswers
  <2>7. Endings'
    BY <2>1, <2>2, <2>3, <2>5
  <2>8. QED
    BY <2>6, <2>7
<1>8. QED
  BY <1>1, <1>2, <1>3, <1>4, <1>5, <1>6, <1>7 DEF Steps

(* The first outcome reported for a task is how its own run ended, though  *)
(* the status that process() reads is the conversation's.                  *)
THEOREM OwnOutcome == SDKSpec => []OutcomeOfItsOwnRun
<1>1. SDKInit => Endings /\ OutcomeOfItsOwnRun
  BY DEF SDKInit, Init, Endings, OutcomeOfItsOwnRun, Answers
<1>2. Alone /\ SDKTypeOK /\ OneRunAtATime /\ Words /\ Endings /\ OutcomeOfItsOwnRun /\ Steps
        => Endings' /\ OutcomeOfItsOwnRun'
  BY EndingsStep
<1>3. QED
  BY <1>1, <1>2, WordsAlways, AloneAlways, SDKMoves, SDKTyping, OneRun, PTL DEF SDKSpec
==============================================================================
