------------------------------ MODULE SDKAgent ------------------------------
(***************************************************************************)
(* SDKURPAgent of urp/sdk_agent.py: the agent of AbstractURP whose         *)
(* process() hands the message to a conversation of the OpenHands SDK and  *)
(* awaits conversation.run() in a worker thread.                           *)
(*                                                                         *)
(* The class overrides none of the asynchronous hooks, so a task does not  *)
(* suspend in them: while one is there, no other task of the event loop    *)
(* takes a step.  The thread does, at any time, and a thread cannot be     *)
(* cancelled: it runs on when the coroutine that awaits it is gone.        *)
(***************************************************************************)
EXTENDS AbstractURPProps

CONSTANT MaxWords \* bound: the LLM messages of one run

ASSUME BoundAssumption == MaxWords \in Nat
(* process() sets an outcome and leaves the category alone.                *)
ASSUME OutcomesAssumption ==
  [outcome : LastTaskOutcome, category : {"NONE"}] \subseteq Results

VARIABLES
  thread,           \* the worker thread that runs the conversation for a message
  execution_status, \* conversation.state.execution_status
  llm_messages,     \* the LLM messages of the whole conversation
  answer,           \* history: the LLM message a task was answered with
  ended             \* history: the status a run ended with

sdkVars == <<thread, execution_status, llm_messages, answer, ended>>

ExecutionStatus == {"IDLE", "RUNNING", "PAUSED", "FINISHED", "STUCK", "ERROR"}
LLMMessage == [task : Messages, role : {"user", "agent"}]

SDKInit ==
  /\ Init
  /\ thread = [m \in Messages |-> "none"]
  /\ execution_status = "IDLE"
  /\ llm_messages = <<>>
  /\ answer = [m \in Messages |-> None]
  /\ ended = [m \in Messages |-> None]

(* The loop is about to hand its message to the conversation.              *)
Handing(l) == loop[l] = "processing" /\ thread[current[l]] = "none"

(* Mutant: start() suspends after its test of the status.                  *)
RunningButStarts == \/ \E c \in ShutdownCalls : stop[c] = "cleaning"
                    \/ \E l \in StartCalls : \/ loop[l] \in {"prechecking", "postchecking"}
                                           \/ Handing(l)

(* Some task has not come to a suspension yet.                             *)
Running == \/ \E s \in StartCalls : start[s] = "checking"
           \/ \E c \in ShutdownCalls : stop[c] = "cleaning"
           \/ \E l \in StartCalls : \/ loop[l] \in {"prechecking", "postchecking"}
                                  \/ Handing(l)

------------------------------------------------------------------------------
(* process().                                                              *)

(* Mutant: the text of the message is appended, not the message.           *)
SendMessageUntagged(l) ==
  /\ Handing(l)
  /\ llm_messages' = Append(llm_messages, current[l])
  /\ thread' = [thread EXCEPT ![current[l]] = "running"]
  /\ execution_status' = "RUNNING"
  /\ UNCHANGED <<vars, answer, ended>>

(* conversation.send_message() tells the callback of the user's message    *)
(* like of any other, and the run begins.                                  *)
SendMessage(l) ==
  /\ Handing(l)
  /\ llm_messages' = Append(llm_messages, [task |-> current[l], role |-> "user"])
  /\ thread' = [thread EXCEPT ![current[l]] = "running"]
  /\ execution_status' = "RUNNING"
  /\ UNCHANGED <<vars, answer, ended>>

(* send_message() or the run raised.                                       *)
ProcessRaises(l) ==
  /\ loop[l] = "processing"
  /\ thread[current[l]] \in {"none", "failed"}
  /\ Raises(l)
  /\ UNCHANGED sdkVars

(* Mutants: an error is no failure; the conversation's first message is    *)
(* the answer; and the run is not awaited.                                 *)
OutcomeWithoutError(s) ==
  CASE s = "PAUSED" -> "WAITING_FOR_USER_INPUT"
    [] s = "FINISHED" -> "TASK_COMPLETED"
    [] s = "STUCK" -> "TASK_FAILED"
    [] OTHER -> "NONE"

FirstResponse == IF llm_messages = <<>> THEN None ELSE Head(llm_messages)

OutcomeOf(s) ==
  CASE s = "PAUSED" -> "WAITING_FOR_USER_INPUT"
    [] s = "FINISHED" -> "TASK_COMPLETED"
    [] s \in {"STUCK", "ERROR"} -> "TASK_FAILED"
    [] OTHER -> "NONE"

Response == IF llm_messages = <<>> THEN None ELSE llm_messages[Len(llm_messages)]

SDKProcessReturnsEarly(l) ==
  /\ loop[l] = "processing"
  /\ thread[current[l]] \in {"running", "finished"}
  /\ ProcessReturns(l, [outcome |-> OutcomeOf(execution_status), category |-> "NONE"])
  /\ answer' = [answer EXCEPT ![current[l]] = Response]
  /\ UNCHANGED <<thread, execution_status, llm_messages, ended>>

(* The event loop resumes process() some time after the run has ended.     *)
SDKProcessReturns(l) ==
  /\ loop[l] = "processing"
  /\ thread[current[l]] = "finished"
  /\ ProcessReturns(l, [outcome |-> OutcomeOf(execution_status), category |-> "NONE"])
  /\ answer' = [answer EXCEPT ![current[l]] = Response]
  /\ UNCHANGED <<thread, execution_status, llm_messages, ended>>

------------------------------------------------------------------------------
(* conversation.run() in its thread, with the callback it calls there.     *)

RunSpeaks(m) ==
  /\ thread[m] = "running"
  /\ Len(SelectSeq(llm_messages, LAMBDA w : w = [task |-> m, role |-> "agent"])) < MaxWords
  /\ llm_messages' = Append(llm_messages, [task |-> m, role |-> "agent"])
  /\ UNCHANGED <<vars, thread, execution_status, answer, ended>>

RunReturns(m, s) ==
  /\ thread[m] = "running"
  /\ thread' = [thread EXCEPT ![m] = "finished"]
  /\ execution_status' = s
  /\ ended' = [ended EXCEPT ![m] = s]
  /\ UNCHANGED <<vars, llm_messages, answer>>

RunRaises(m) ==
  /\ thread[m] = "running"
  /\ thread' = [thread EXCEPT ![m] = "failed"]
  /\ execution_status' = "ERROR"
  /\ UNCHANGED <<vars, llm_messages, answer, ended>>

------------------------------------------------------------------------------
(* The steps of AbstractURP that SDKURPAgent can take: up to a suspension, *)
(* and from one.                                                           *)
RunOn ==
  \/ \E s \in StartCalls : StartRun(s)
  \/ \E l \in StartCalls : PreconditionsPass(l) \/ PostconditionsPass(l)
  \/ \E c \in ShutdownCalls :
        ShutdownJoin(c) \/ (stop[c] = "cleaning" /\ ShutdownTerminate(c))

Resume ==
  \/ Initialize \/ InitializeRaises
  \/ \E m \in Messages : Send(m)
  \/ \E s \in StartCalls : StartBegin(s)
  \/ \E l \in StartCalls :
       \/ LoopBegin(l) \/ Receive(l) \/ PollTimeout(l) \/ Finish(l)
       \/ (loop[l] = "replying" /\ Raises(l)) \/ Cancelled(l) \/ CancelledUnborn(l)
  \/ \E c \in ShutdownCalls :
       \/ ShutdownBegin(c) \/ ShutdownJoinRaises(c)
       \/ (stop[c] = "joining" /\ ShutdownTerminate(c))

SDKNext ==
  \/ RunOn /\ UNCHANGED sdkVars
  \/ ~ Running /\ Resume /\ UNCHANGED sdkVars
  \/ ~ Running /\ \E l \in StartCalls : SDKProcessReturns(l)
  \/ \E l \in StartCalls :
       \/ SendMessage(l)
       \/ (~ Running \/ Handing(l)) /\ ProcessRaises(l)
  \/ \E m \in Messages :
       \/ RunSpeaks(m) \/ RunRaises(m)
       \/ \E s \in ExecutionStatus \ {"RUNNING"} : RunReturns(m, s)

SDKSpec == SDKInit /\ [][SDKNext]_<<vars, sdkVars>>

------------------------------------------------------------------------------
SDKTypeOK ==
  /\ TypeOK
  /\ thread \in [Messages -> {"none", "running", "finished", "failed"}]
  /\ execution_status \in ExecutionStatus
  /\ llm_messages \in Seq(LLMMessage)
  /\ answer \in [Messages -> LLMMessage \cup {None}]
  /\ ended \in [Messages -> ExecutionStatus \cup {None}]

(* The last LLM message of the whole conversation, which is what process() *)
(* answers with, is of the message's own run; the user's own words come    *)
(* back as the answer only when that run said nothing.                     *)
AnswersItsOwnTask ==
  \A m \in Messages : answer[m] # None =>
    /\ answer[m].task = m
    /\ answer[m].role = "user" =>
         [task |-> m, role |-> "agent"] \notin Range(llm_messages)

(* The outcome that is first reported for a message says how its own run   *)
(* ended, though the status is the conversation's and is read later.       *)
OutcomeOfItsOwnRun ==
  \A m \in Messages : \A i \in Answers(m) :
    (\A j \in Answers(m) : i <= j) =>
      \/ emitted[i].type = "TASK_COMPLETED" /\ ended[m] = "FINISHED"
      \/ emitted[i].type = "WAITING_FOR_USER_INPUT" /\ ended[m] = "PAUSED"
      \/ emitted[i].type = "NONE" /\ ended[m] = "IDLE"
      \/ emitted[i].type = "TASK_FAILED" /\ ended[m] \in {"STUCK", "ERROR"}
      \/ /\ emitted[i].result = Failed("INFRASTRUCTURE_FAILURE")
         /\ thread[m] \in {"none", "failed"}

(* One run at a time: the run of a message that is still going on is       *)
(* awaited by the loop, or the loop was cancelled while it awaited it, so  *)
(* the message has no answer and no other run follows.                     *)
OneRunAtATime ==
  \A m \in Messages : thread[m] = "running" =>
    /\ \A k \in Messages \ {m} : thread[k] # "running"
    /\ \E l \in StartCalls :
         \/ loop[l] = "processing" /\ current[l] = m
         \/ loop[l] = "exited" /\ Answers(m) = {}
==============================================================================
