----------------------------- MODULE AbstractURP -----------------------------
(***************************************************************************)
(* One agent: AbstractURPAgent of urp/abstract_urp.py.                     *)
(*                                                                         *)
(* Everything runs on one asyncio event loop, so a step is the code        *)
(* between two awaits that can suspend: a hook, process(), the emit        *)
(* callback, mailbox.get() on an empty queue, or the join of the lifecycle *)
(* task.  Three kinds of task interleave at those points: callers of       *)
(* start(), callers of shutdown(), and the lifecycle loops that start()    *)
(* spawned.  start() spawns at most one loop, so a loop has the name of    *)
(* the call that spawned it.  initialize(), send() and set_callback()      *)
(* never suspend (the mailbox is unbounded) and are one step each.  A call *)
(* whose guard raises changes nothing and is a stuttering step.            *)
(***************************************************************************)
EXTENDS DataTypes, Integers, Sequences, FiniteSets, Functions

CONSTANTS
  Messages,       \* the envelopes that may be sent, each at most once
  StartCalls,     \* the calls of start()
  ShutdownCalls,  \* the calls of shutdown() made by other tasks
  Results,        \* what process() may return: process results, or None
  HookCategories, \* what _check_postconditions may write in result.category
  None            \* Python's None

ASSUME ResultsAssumption == /\ Results \subseteq ProcessResult \cup {None}
                            /\ HookCategories \subseteq FailureCategory
ASSUME CallsAssumption == IsFiniteSet(StartCalls)
ASSUME NoneAssumption == None \notin ProcessResult \cup Messages \cup StartCalls

VARIABLES
  status,        \* _state.status
  callback,      \* is an emit callback bound?
  shutdownEvent, \* _shutdown_event.is_set()
  task,          \* _task: the loop spawned last, or None
  mailbox,       \* the envelopes in the asyncio.Queue
  unfinished,    \* the queue's count of items put and not yet task_done()
  lastResult,    \* _state.last_process_result
  start,         \* where each start() call is
  stop,          \* where each shutdown() call is
  awaited,       \* the task a shutdown() call awaits
  loop,          \* where each lifecycle loop is
  current,       \* the loop's local `message`
  result,        \* the loop's local `result`
  accepted,      \* history: the envelopes put in the mailbox, in order
  emitted        \* history: the calls of the emit callback, in order

callVars == <<start, stop, awaited>>
loopVars == <<loop, current, result>>
vars == <<status, callback, shutdownEvent, task, mailbox, unfinished,
          lastResult, callVars, loopVars, accepted, emitted>>

------------------------------------------------------------------------------
(* Where a task can be suspended.  A loop is "replying" while the callback *)
(* handles the outcome of process(), inside the try, and "reporting" while *)
(* it handles the event of one of the except clauses, outside of it.       *)
StartPc == {"idle", "checking", "returned", "raised"}
StopPc == {"idle", "cleaning", "joining", "returned", "raised"}
InFlightPc == {"prechecking", "processing", "postchecking", "replying", "reporting"}
LivePc == {"scheduled", "polling"} \cup InFlightPc
DonePc == {"exited", "cancelled"}
LoopPc == {"absent"} \cup LivePc \cup DonePc

Init ==
  /\ status = "UNINITIALIZED"
  /\ callback = FALSE
  /\ shutdownEvent = FALSE
  /\ task = None
  /\ mailbox = <<>>
  /\ unfinished = 0
  /\ lastResult = None
  /\ start = [s \in StartCalls |-> "idle"]
  /\ stop = [c \in ShutdownCalls |-> "idle"]
  /\ awaited = [c \in ShutdownCalls |-> None]
  /\ loop = [l \in StartCalls |-> "absent"]
  /\ current = [l \in StartCalls |-> None]
  /\ result = [l \in StartCalls |-> None]
  /\ accepted = <<>>
  /\ emitted = <<>>

(* emit(): the callback is called at once, or the event is dropped when    *)
(* none is bound; what the callback then awaits is another step.           *)
Emit(type, m, r) ==
  emitted' = IF callback
             THEN Append(emitted, [type |-> type, msg |-> m, result |-> r])
             ELSE emitted

------------------------------------------------------------------------------
(* initialize(), set_callback(), send().                                   *)

Initialize ==
  /\ status = "UNINITIALIZED"
  /\ callback' = TRUE
  /\ status' = "INITIALIZED"
  /\ UNCHANGED <<shutdownEvent, task, mailbox, unfinished, lastResult,
                 callVars, loopVars, accepted, emitted>>

(* _on_initialize raises: the callback stays bound, the status stays.      *)
InitializeRaises ==
  /\ status = "UNINITIALIZED"
  /\ callback' = TRUE
  /\ UNCHANGED <<status, shutdownEvent, task, mailbox, unfinished, lastResult,
                 callVars, loopVars, accepted, emitted>>

SetCallback ==
  /\ callback' = TRUE
  /\ UNCHANGED <<status, shutdownEvent, task, mailbox, unfinished, lastResult,
                 callVars, loopVars, accepted, emitted>>

Send(m) ==
  /\ status # "TERMINATED"
  /\ m \notin Range(accepted)
  /\ mailbox' = Append(mailbox, m)
  /\ unfinished' = unfinished + 1
  /\ accepted' = Append(accepted, m)
  /\ UNCHANGED <<status, callback, shutdownEvent, task, lastResult, callVars,
                 loopVars, emitted>>

------------------------------------------------------------------------------
(* start().  The status is read before _check_start_preconditions is       *)
(* awaited and not again after it.                                         *)

StartBegin(s) ==
  /\ start[s] = "idle"
  /\ status = "INITIALIZED"
  /\ start' = [start EXCEPT ![s] = "checking"]
  /\ UNCHANGED <<status, callback, shutdownEvent, task, mailbox, unfinished,
                 lastResult, stop, awaited, loopVars, accepted, emitted>>

StartRefused(s) ==
  /\ start[s] = "checking"
  /\ start' = [start EXCEPT ![s] = "raised"]
  /\ Emit("AGENT_START_PRECONDITIONS_VIOLATED", None, None)
  /\ UNCHANGED <<status, callback, shutdownEvent, task, mailbox, unfinished,
                 lastResult, stop, awaited, loopVars, accepted>>

StartHookRaises(s) ==
  /\ start[s] = "checking"
  /\ start' = [start EXCEPT ![s] = "raised"]
  /\ UNCHANGED <<status, callback, shutdownEvent, task, mailbox, unfinished,
                 lastResult, stop, awaited, loopVars, accepted, emitted>>

(* Nothing follows the emit of AGENT_STARTED, so whether the callback then *)
(* returns or raises changes no state of the agent.                        *)
StartRun(s) ==
  /\ start[s] = "checking"
  /\ start' = [start EXCEPT ![s] = "returned"]
  /\ status' = "WAITING"
  /\ lastResult' = [outcome |-> "NONE", category |-> "NONE"]
  /\ task' = s
  /\ loop' = [loop EXCEPT ![s] = "scheduled"]
  /\ Emit("AGENT_STARTED", None, None)
  /\ UNCHANGED <<callback, shutdownEvent, mailbox, unfinished, stop, awaited,
                 current, result, accepted>>

StartStep(s) == StartRefused(s) \/ StartHookRaises(s) \/ StartRun(s)

------------------------------------------------------------------------------
(* _lifecycle_loop().                                                      *)

(* Mutant: the mailbox is last in, first out.                              *)
PopNewest(l) ==
  /\ mailbox # <<>>
  /\ mailbox' = SubSeq(mailbox, 1, Len(mailbox) - 1)
  /\ current' = [current EXCEPT ![l] = mailbox[Len(mailbox)]]
  /\ loop' = [loop EXCEPT ![l] = "prechecking"]

(* get() on a mailbox that holds a message returns without suspending.     *)
Pop(l) ==
  /\ mailbox # <<>>
  /\ mailbox' = Tail(mailbox)
  /\ current' = [current EXCEPT ![l] = Head(mailbox)]
  /\ loop' = [loop EXCEPT ![l] = "prechecking"]

(* Mutant: the loop drains the mailbox before it honours the event.        *)
NextIterationDraining(l) ==
  \/ /\ shutdownEvent /\ mailbox = <<>>
     /\ loop' = [loop EXCEPT ![l] = "exited"]
     /\ current' = [current EXCEPT ![l] = None]
     /\ UNCHANGED <<status, mailbox>>
  \/ /\ status' = "WAITING"
     /\ Pop(l)
  \/ /\ ~ shutdownEvent /\ mailbox = <<>>
     /\ status' = "WAITING"
     /\ loop' = [loop EXCEPT ![l] = "polling"]
     /\ current' = [current EXCEPT ![l] = None]
     /\ UNCHANGED mailbox

(* Mutant: WAITING is set once, before the while statement.                *)
NextIterationUnmarked(l) ==
  /\ UNCHANGED status
  /\ \/ /\ shutdownEvent
        /\ loop' = [loop EXCEPT ![l] = "exited"]
        /\ current' = [current EXCEPT ![l] = None]
        /\ UNCHANGED mailbox
     \/ /\ ~ shutdownEvent
        /\ \/ Pop(l)
           \/ /\ mailbox = <<>>
              /\ loop' = [loop EXCEPT ![l] = "polling"]
              /\ current' = [current EXCEPT ![l] = None]
              /\ UNCHANGED mailbox

(* From the while test to the next suspension: leave, or set WAITING and   *)
(* take a message or wait for one.                                         *)
NextIteration(l) ==
  \/ /\ shutdownEvent
     /\ loop' = [loop EXCEPT ![l] = "exited"]
     /\ current' = [current EXCEPT ![l] = None]
     /\ UNCHANGED <<status, mailbox>>
  \/ /\ ~ shutdownEvent
     /\ status' = "WAITING"
     /\ \/ Pop(l)
        \/ /\ mailbox = <<>>
           /\ loop' = [loop EXCEPT ![l] = "polling"]
           /\ current' = [current EXCEPT ![l] = None]
           /\ UNCHANGED mailbox

LoopBegin(l) ==
  /\ loop[l] = "scheduled"
  /\ NextIteration(l)
  /\ UNCHANGED <<callback, shutdownEvent, task, unfinished, lastResult,
                 callVars, result, accepted, emitted>>

(* The pending get() is woken by a put.                                    *)
Receive(l) ==
  /\ loop[l] = "polling"
  /\ Pop(l)
  /\ UNCHANGED <<status, callback, shutdownEvent, task, unfinished, lastResult,
                 callVars, result, accepted, emitted>>

(* Mutant: after a timeout the loop polls again without testing the event. *)
PollTimeoutUntested(l) ==
  /\ loop[l] = "polling"
  /\ UNCHANGED vars

(* The poll interval ends first: whatever is in the mailbox stays there.   *)
PollTimeout(l) ==
  /\ loop[l] = "polling"
  /\ NextIteration(l)
  /\ UNCHANGED <<callback, shutdownEvent, task, unfinished, lastResult,
                 callVars, result, accepted, emitted>>

(* Mutant: the status is left to process().                                *)
PreconditionsPassUnmarked(l) ==
  /\ loop[l] = "prechecking"
  /\ loop' = [loop EXCEPT ![l] = "processing"]
  /\ UNCHANGED <<status, callback, shutdownEvent, task, mailbox, unfinished,
                 lastResult, callVars, current, result, accepted, emitted>>

PreconditionsPass(l) ==
  /\ loop[l] = "prechecking"
  /\ loop' = [loop EXCEPT ![l] = "processing"]
  /\ status' = "PROCESSING"
  /\ UNCHANGED <<callback, shutdownEvent, task, mailbox, unfinished, lastResult,
                 callVars, current, result, accepted, emitted>>

(* Mutant: the event is built from last_process_result before it is set.   *)
ReportStale(l, type, r, pc) ==
  /\ lastResult' = r
  /\ Emit(type, current[l], lastResult)
  /\ loop' = [loop EXCEPT ![l] = pc]
  /\ UNCHANGED <<status, callback, shutdownEvent, task, mailbox, unfinished,
                 callVars, current, result, accepted>>

(* Store a result and emit the event that carries it.                      *)
Report(l, type, r, pc) ==
  /\ lastResult' = r
  /\ Emit(type, current[l], r)
  /\ loop' = [loop EXCEPT ![l] = pc]
  /\ UNCHANGED <<status, callback, shutdownEvent, task, mailbox, unfinished,
                 callVars, current, result, accepted>>

Failed(cat) == [outcome |-> "TASK_FAILED", category |-> cat]

(* Mutant: the loop skips to the next message without an event.            *)
PreconditionsFailSilently(l) ==
  /\ loop[l] = "prechecking"
  /\ loop' = [loop EXCEPT ![l] = "reporting"]
  /\ UNCHANGED <<status, callback, shutdownEvent, task, mailbox, unfinished,
                 lastResult, callVars, current, result, accepted, emitted>>

PreconditionsFail(l) ==
  /\ loop[l] = "prechecking"
  /\ Report(l, "TASK_PRECONDITIONS_VIOLATED", Failed("PRECONDITION_FAILURE"),
            "reporting")

ProcessReturns(l, r) ==
  /\ loop[l] = "processing"
  /\ loop' = [loop EXCEPT ![l] = "postchecking"]
  /\ result' = [result EXCEPT ![l] = r]
  /\ UNCHANGED <<status, callback, shutdownEvent, task, mailbox, unfinished,
                 lastResult, callVars, current, accepted, emitted>>

ReportInfrastructureFailure(l) ==
  Report(l, "TASK_FAILED", Failed("INFRASTRUCTURE_FAILURE"), "reporting")

(* A result of None is stored, and reading its outcome raises.             *)
PostconditionsPass(l) ==
  /\ loop[l] = "postchecking"
  /\ \/ /\ result[l] # None
        /\ Report(l, result[l].outcome, result[l], "replying")
     \/ /\ result[l] = None
        /\ ReportInfrastructureFailure(l)

(* Mutant: the arguments of ProcessResult(...) are swapped.                *)
ViolatedSwapped(r, cat) ==
  [outcome |-> IF cat = "NONE" THEN "POSTCONDITION_FAILURE" ELSE cat,
   category |-> r.outcome]

(* The hook may have written a category, else the failure is a plain       *)
(* POSTCONDITION_FAILURE; the outcome of process() is kept.                *)
Violated(r, cat) ==
  [outcome |-> r.outcome,
   category |-> IF cat = "NONE" THEN "POSTCONDITION_FAILURE" ELSE cat]

(* Mutant: the event is emitted inside the try, not in its except clause.  *)
PostconditionsFailInside(l) ==
  /\ loop[l] = "postchecking"
  /\ result[l] # None
  /\ \E cat \in HookCategories \cup {result[l].category} :
        Report(l, "TASK_POSTCONDITIONS_VIOLATED", Violated(result[l], cat),
               "replying")

PostconditionsFail(l) ==
  /\ loop[l] = "postchecking"
  /\ result[l] # None
  /\ \E cat \in HookCategories \cup {result[l].category} :
        Report(l, "TASK_POSTCONDITIONS_VIOLATED", Violated(result[l], cat),
               "reporting")

(* Mutant: the catch-all clause also guards the except clauses.            *)
RaisesAgain(l) ==
  /\ loop[l] \in InFlightPc
  /\ ReportInfrastructureFailure(l)

(* An exception in a hook, in process() or in the callback of the outcome  *)
(* reaches the catch-all clause.  Assumed of the child class: it does not  *)
(* raise PreconditionsViolatedError or PostconditionsViolatedError of its  *)
(* own accord, which would reach the clauses that the runtime has for its  *)
(* own use of them.                                                        *)
Raises(l) ==
  /\ loop[l] \in InFlightPc \ {"reporting"}
  /\ ReportInfrastructureFailure(l)

(* The finally clause, and on to the next iteration.                       *)
TaskDone(l) ==
  /\ unfinished' = unfinished - 1
  /\ result' = [result EXCEPT ![l] = None]
  /\ NextIteration(l)
  /\ UNCHANGED <<callback, shutdownEvent, task, lastResult, callVars, accepted,
                 emitted>>

(* Mutant: the loop waits for mailbox.join() before it calls task_done().  *)
FinishAfterJoin(l) ==
  /\ loop[l] \in {"replying", "reporting"}
  /\ unfinished = 0
  /\ TaskDone(l)

(* The callback is done with the event.  When that of an except clause     *)
(* raises, the outer clause logs it and the loop goes on in the same way.  *)
Finish(l) ==
  /\ loop[l] \in {"replying", "reporting"}
  /\ TaskDone(l)

(* Postconditions that fail on a result of None: reading its outcome       *)
(* raises inside the except clause, and the outer clause only logs.        *)
PostconditionsPanic(l) ==
  /\ loop[l] = "postchecking"
  /\ result[l] = None
  /\ TaskDone(l)

(* Mutant: task_done() is not in a finally clause.                         *)
CancelledWithoutFinally(l) ==
  /\ loop[l] \in InFlightPc
  /\ loop' = [loop EXCEPT ![l] = "exited"]
  /\ current' = [current EXCEPT ![l] = None]
  /\ result' = [result EXCEPT ![l] = None]
  /\ UNCHANGED <<status, callback, shutdownEvent, task, mailbox, unfinished,
                 lastResult, callVars, accepted, emitted>>

(* CancelledError ends the loop: the task was cancelled by way of the call *)
(* that awaits it, or process() let one of its own escape.                 *)
Cancelled(l) ==
  /\ \/ loop[l] \in InFlightPc
     \/ loop[l] = "polling" /\ \E c \in ShutdownCalls :
                                  stop[c] = "joining" /\ awaited[c] = l
  /\ unfinished' = IF loop[l] \in InFlightPc THEN unfinished - 1 ELSE unfinished
  /\ loop' = [loop EXCEPT ![l] = "exited"]
  /\ current' = [current EXCEPT ![l] = None]
  /\ result' = [result EXCEPT ![l] = None]
  /\ UNCHANGED <<status, callback, shutdownEvent, task, mailbox, lastResult,
                 callVars, accepted, emitted>>

(* Cancelled before its first step, the coroutine never runs, and whoever  *)
(* awaits the task gets the CancelledError.                                *)
CancelledUnborn(l) ==
  /\ loop[l] = "scheduled"
  /\ \E c \in ShutdownCalls : stop[c] = "joining" /\ awaited[c] = l
  /\ loop' = [loop EXCEPT ![l] = "cancelled"]
  /\ UNCHANGED <<status, callback, shutdownEvent, task, mailbox, unfinished,
                 lastResult, callVars, current, result, accepted, emitted>>

(* A hook, process() or the callback calls shutdown() inside the loop: the *)
(* event is set, and awaiting its own task raises.  That is Raises, unless *)
(* the caller catches it.                                                  *)
ShutdownFromInside(l) ==
  /\ loop[l] \in InFlightPc
  /\ task = l
  /\ shutdownEvent' = TRUE
  /\ UNCHANGED <<status, callback, task, mailbox, unfinished, lastResult,
                 callVars, loopVars, accepted, emitted>>

LoopStep(l) ==
  \/ LoopBegin(l) \/ Receive(l) \/ PollTimeout(l)
  \/ PreconditionsPass(l) \/ PreconditionsFail(l)
  \/ \E r \in Results : ProcessReturns(l, r)
  \/ PostconditionsPass(l) \/ PostconditionsFail(l) \/ PostconditionsPanic(l)
  \/ Raises(l) \/ Finish(l)

------------------------------------------------------------------------------
(* shutdown().  It has no guard, so it can be called at any time and more  *)
(* than once.                                                              *)

ShutdownBegin(c) ==
  /\ stop[c] = "idle"
  /\ stop' = [stop EXCEPT ![c] = "cleaning"]
  /\ shutdownEvent' = TRUE
  /\ UNCHANGED <<status, callback, task, mailbox, unfinished, lastResult, start,
                 awaited, loopVars, accepted, emitted>>

(* _on_shutdown raises, or the caller is cancelled inside it.              *)
ShutdownHookRaises(c) ==
  /\ stop[c] = "cleaning"
  /\ stop' = [stop EXCEPT ![c] = "raised"]
  /\ UNCHANGED <<status, callback, shutdownEvent, task, mailbox, unfinished,
                 lastResult, start, awaited, loopVars, accepted, emitted>>

(* _task is read once _on_shutdown has returned.                           *)
ShutdownJoin(c) ==
  /\ stop[c] = "cleaning"
  /\ task # None
  /\ stop' = [stop EXCEPT ![c] = "joining"]
  /\ awaited' = [awaited EXCEPT ![c] = task]
  /\ UNCHANGED <<status, callback, shutdownEvent, task, mailbox, unfinished,
                 lastResult, start, loopVars, accepted, emitted>>

(* Mutants: the task is not awaited at all, or the join gives up waiting.  *)
ShutdownTerminateAtOnce(c) ==
  /\ stop[c] = "cleaning"
  /\ status' = "TERMINATED"
  /\ stop' = [stop EXCEPT ![c] = "returned"]
  /\ Emit("AGENT_TERMINATED", None, None)
  /\ UNCHANGED <<callback, shutdownEvent, task, mailbox, unfinished, lastResult,
                 start, awaited, loopVars, accepted>>

ShutdownTerminateImpatient(c) ==
  /\ \/ stop[c] = "cleaning" /\ task = None
     \/ stop[c] = "joining"
  /\ status' = "TERMINATED"
  /\ stop' = [stop EXCEPT ![c] = "returned"]
  /\ Emit("AGENT_TERMINATED", None, None)
  /\ UNCHANGED <<callback, shutdownEvent, task, mailbox, unfinished, lastResult,
                 start, awaited, loopVars, accepted>>

(* With no task there is nothing to await.                                 *)
ShutdownTerminate(c) ==
  /\ \/ stop[c] = "cleaning" /\ task = None
     \/ stop[c] = "joining" /\ loop[awaited[c]] = "exited"
  /\ status' = "TERMINATED"
  /\ stop' = [stop EXCEPT ![c] = "returned"]
  /\ Emit("AGENT_TERMINATED", None, None)
  /\ UNCHANGED <<callback, shutdownEvent, task, mailbox, unfinished, lastResult,
                 start, awaited, loopVars, accepted>>

(* The awaited task was cancelled, or it has ended and the caller is       *)
(* cancelled before it runs again: a cancellation that comes while the     *)
(* task still runs goes to the task, which absorbs it (Cancelled).         *)
ShutdownJoinRaises(c) ==
  /\ stop[c] = "joining"
  /\ loop[awaited[c]] \in DonePc
  /\ stop' = [stop EXCEPT ![c] = "raised"]
  /\ UNCHANGED <<status, callback, shutdownEvent, task, mailbox, unfinished,
                 lastResult, start, awaited, loopVars, accepted, emitted>>

ShutdownStep(c) ==
  \/ ShutdownHookRaises(c) \/ ShutdownJoin(c) \/ ShutdownTerminate(c)
  \/ ShutdownJoinRaises(c)

------------------------------------------------------------------------------
Next ==
  \/ Initialize \/ InitializeRaises \/ SetCallback
  \/ \E m \in Messages : Send(m)
  \/ \E s \in StartCalls : StartBegin(s) \/ StartStep(s)
  \/ \E l \in StartCalls : \/ LoopStep(l) \/ Cancelled(l) \/ CancelledUnborn(l)
                           \/ ShutdownFromInside(l)
  \/ \E c \in ShutdownCalls : ShutdownBegin(c) \/ ShutdownStep(c)

Spec == Init /\ [][Next]_vars

(* The event loop runs every task that can run, and the hooks, process()   *)
(* and the callback come back.  Nobody is obliged to call anything.        *)
Fairness ==
  /\ \A s \in StartCalls : WF_vars(StartStep(s)) /\ WF_vars(LoopStep(s))
  /\ \A c \in ShutdownCalls : WF_vars(ShutdownStep(c))

FairSpec == Spec /\ Fairness
==============================================================================
