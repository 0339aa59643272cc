------------------------------- MODULE URPHost -------------------------------
(***************************************************************************)
(* One URPHost of urp/host.py, its methods called by tasks that may        *)
(* overlap, hosting any child class of AbstractURPAgent.  Each call of     *)
(* initialize_and_start() creates an agent, which has the name of the      *)
(* call.  Of an agent the host sees what AbstractURP establishes: start()  *)
(* suspends in its hook, shutdown() until the loop has ended, and whatever *)
(* is emitted goes through the host's handler, which puts the event in the *)
(* queue at once and may then suspend in the external callback.            *)
(***************************************************************************)
EXTENDS Sequences, FiniteSets, Naturals, Functions

CONSTANTS
  Starts,      \* the calls of initialize_and_start()
  Stops,       \* the calls of shutdown()
  Getters,     \* the tasks that call get_next_event(), again and again
  Timeouts,    \* the timeouts get_next_event() is given: None, 0 or positive
  MaxMessages, \* bound: how many messages are sent
  None

ASSUME NoneAssumption == None \notin Starts \cup Nat
ASSUME TimeoutsAssumption == Timeouts \subseteq Nat \cup {None}
ASSUME BoundAssumption == MaxMessages \in Nat

VARIABLES
  agent,      \* self.agent
  start,      \* where each initialize_and_start() is
  returned,   \* what it returned
  loop,       \* the lifecycle loop of each agent
  asked,      \* has the agent been told to shut down?
  terminated, \* is its status TERMINATED?
  owed,       \* how many events it may still emit about its messages
  queue,      \* self.event_queue
  stop,       \* where each shutdown() is
  target,     \* the agent it shuts down
  get,        \* where each getter is
  timeout,    \* the argument of its get_next_event()
  sent,       \* history: how many messages were sent
  log,        \* history: the events emitted
  delivered,  \* history: the events get_next_event() returned
  overlapped  \* history: were the calls that start and stop not sequential?

agentVars == <<loop, asked, terminated, owed, sent>>
getVars == <<get, timeout, delivered>>
vars == <<agent, start, returned, agentVars, queue, stop, target, getVars, log,
          overlapped>>

Event == [agent : Starts, type : {"AGENT_START_PRECONDITIONS_VIOLATED",
                                  "AGENT_STARTED", "ANSWER", "AGENT_TERMINATED"}]
StartPc == {"idle", "checking", "announcing", "returned", "raised"}
StopPc == {"idle", "stopping", "reporting", "done"}

Init ==
  /\ agent = None
  /\ start = [i \in Starts |-> "idle"]
  /\ returned = [i \in Starts |-> None]
  /\ loop = [i \in Starts |-> "absent"]
  /\ asked = [i \in Starts |-> FALSE]
  /\ terminated = [i \in Starts |-> FALSE]
  /\ owed = [i \in Starts |-> 0]
  /\ queue = <<>>
  /\ stop = [c \in Stops |-> "idle"]
  /\ target = [c \in Stops |-> None]
  /\ get = [g \in Getters |-> "idle"]
  /\ timeout = [g \in Getters |-> None]
  /\ sent = 0
  /\ log = <<>>
  /\ delivered = <<>>
  /\ overlapped = FALSE

Pending == \/ \E i \in Starts : start[i] \in {"checking", "announcing"}
           \/ \E c \in Stops : stop[c] \in {"stopping", "reporting"}
Running == {i \in Starts : loop[i] = "running"}

(* Mutant: the event carries whatever agent the host has now.              *)
EmitOfCurrent(i, type) ==
  /\ queue' = Append(queue, [agent |-> agent, type |-> type])
  /\ log' = Append(log, [agent |-> agent, type |-> type])

(* _internal_emit_handler().                                               *)
Emit(i, type) ==
  /\ queue' = Append(queue, [agent |-> i, type |-> type])
  /\ log' = Append(log, [agent |-> i, type |-> type])

------------------------------------------------------------------------------
(* initialize_and_start().                                                 *)

(* The agent is created and kept, and its initialize() raises or its       *)
(* start() suspends.                                                       *)
InitializeAndStart(i) ==
  /\ start[i] = "idle"
  /\ agent' = i
  /\ start' \in {[start EXCEPT ![i] = pc] : pc \in {"checking", "raised"}}
  /\ overlapped' = (overlapped \/ Pending \/ Running # {})
  /\ UNCHANGED <<returned, agentVars, queue, stop, target, getVars, log>>

StartRuns(i) ==
  /\ start[i] = "checking"
  /\ start' = [start EXCEPT ![i] = "announcing"]
  /\ loop' = [loop EXCEPT ![i] = "running"]
  /\ terminated' = [terminated EXCEPT ![i] = FALSE]
  /\ Emit(i, "AGENT_STARTED")
  /\ UNCHANGED <<agent, returned, asked, owed, sent, stop, target,
                 getVars, overlapped>>

(* The hook refuses, which is reported first, or it raises.  Nothing but   *)
(* raising follows the callback of that report, whether it suspends or not.*)
StartFails(i) ==
  /\ start[i] = "checking"
  /\ start' = [start EXCEPT ![i] = "raised"]
  /\ \/ Emit(i, "AGENT_START_PRECONDITIONS_VIOLATED")
     \/ UNCHANGED <<queue, log>>
  /\ UNCHANGED <<agent, returned, agentVars, stop, target, getVars, overlapped>>

(* The callback has handled AGENT_STARTED; it may raise.  What is returned *)
(* is the agent the host has by then.                                      *)
StartReturns(i) ==
  /\ start[i] = "announcing"
  /\ \/ /\ start' = [start EXCEPT ![i] = "returned"]
        /\ returned' = [returned EXCEPT ![i] = agent]
     \/ /\ start' = [start EXCEPT ![i] = "raised"]
        /\ UNCHANGED returned
  /\ UNCHANGED <<agent, agentVars, queue, stop, target, getVars, log,
                 overlapped>>

------------------------------------------------------------------------------
(* shutdown().                                                             *)

(* Mutant: the host lets go of the agent before it shuts it down.          *)
StopBeginClearing(c) ==
  /\ stop[c] = "idle"
  /\ agent # None
  /\ agent' = None
  /\ stop' = [stop EXCEPT ![c] = "stopping"]
  /\ target' = [target EXCEPT ![c] = agent]
  /\ asked' = [asked EXCEPT ![agent] = TRUE]
  /\ overlapped' = (overlapped \/ Pending)
  /\ UNCHANGED <<start, returned, loop, terminated, owed, sent, queue,
                 getVars, log>>

(* Without an agent shutdown() does nothing.                               *)
StopBegin(c) ==
  /\ stop[c] = "idle"
  /\ agent # None
  /\ stop' = [stop EXCEPT ![c] = "stopping"]
  /\ target' = [target EXCEPT ![c] = agent]
  /\ asked' = [asked EXCEPT ![agent] = TRUE]
  /\ overlapped' = (overlapped \/ Pending)
  /\ UNCHANGED <<agent, start, returned, loop, terminated, owed, sent, queue,
                 getVars, log>>

(* Mutant: the loop is told to end, and not awaited.                       *)
StopReportsAtOnce(c) ==
  /\ stop[c] = "stopping"
  /\ stop' = [stop EXCEPT ![c] = "reporting"]
  /\ terminated' = [terminated EXCEPT ![target[c]] = TRUE]
  /\ Emit(target[c], "AGENT_TERMINATED")
  /\ UNCHANGED <<agent, start, returned, loop, asked, owed, sent, target,
                 getVars, overlapped>>

(* The agent's shutdown hook has returned and no loop is left to wait for. *)
StopReports(c) ==
  /\ stop[c] = "stopping"
  /\ loop[target[c]] # "running"
  /\ stop' = [stop EXCEPT ![c] = "reporting"]
  /\ terminated' = [terminated EXCEPT ![target[c]] = TRUE]
  /\ Emit(target[c], "AGENT_TERMINATED")
  /\ UNCHANGED <<agent, start, returned, loop, asked, owed, sent, target,
                 getVars, overlapped>>

StopDone(c) ==
  /\ stop' = [stop EXCEPT ![c] = "done"]
  /\ target' = [target EXCEPT ![c] = None]

(* Mutant: the host forgets the agent only if it is still the same one,    *)
(* and waits until it is.                                                  *)
StopReturnsWaiting(c) ==
  /\ stop[c] = "reporting"
  /\ agent = target[c]
  /\ StopDone(c)
  /\ agent' = None
  /\ UNCHANGED <<start, returned, agentVars, queue, getVars, log, overlapped>>

(* The host forgets the agent it has now, which may be another one.        *)
StopReturns(c) ==
  /\ stop[c] = "reporting"
  /\ StopDone(c)
  /\ agent' = None
  /\ UNCHANGED <<start, returned, agentVars, queue, getVars, log, overlapped>>

(* The hook, the join or the callback raises: the host keeps the agent.    *)
StopRaises(c) ==
  /\ stop[c] \in {"stopping", "reporting"}
  /\ StopDone(c)
  /\ UNCHANGED <<agent, start, returned, agentVars, queue, getVars, log,
                 overlapped>>

------------------------------------------------------------------------------
(* send_message() and the agents.                                          *)

(* The agent emits two events about a message at most: an outcome, and the *)
(* failure that takes it back (AtMostOneRetraction of AbstractURP).        *)
SendMessage ==
  /\ agent # None
  /\ ~ terminated[agent]
  /\ sent < MaxMessages
  /\ sent' = sent + 1
  /\ owed' = [owed EXCEPT ![agent] = @ + 2]
  /\ UNCHANGED <<agent, start, returned, loop, asked, terminated, queue, stop,
                 target, getVars, log, overlapped>>

AgentAnswers(i) ==
  /\ loop[i] = "running"
  /\ owed[i] > 0
  /\ owed' = [owed EXCEPT ![i] = @ - 1]
  /\ Emit(i, "ANSWER")
  /\ UNCHANGED <<agent, start, returned, loop, asked, terminated, sent, stop,
                 target, getVars, overlapped>>

(* A loop that was told to end does, and one ends untold if its child      *)
(* class lets a CancelledError out.                                        *)
LoopEnds(i) ==
  /\ loop[i] = "running"
  /\ loop' = [loop EXCEPT ![i] = "ended"]
  /\ UNCHANGED <<agent, start, returned, asked, terminated, owed, sent, queue,
                 stop, target, getVars, log, overlapped>>

------------------------------------------------------------------------------
(* get_next_event().                                                       *)

GetBegin(g, t) ==
  /\ get[g] = "idle"
  /\ get' = [get EXCEPT ![g] = "waiting"]
  /\ timeout' = [timeout EXCEPT ![g] = t]
  /\ UNCHANGED <<agent, start, returned, agentVars, queue, stop, target, log,
                 delivered, overlapped>>

GetDone(g) ==
  /\ get' = [get EXCEPT ![g] = "idle"]
  /\ timeout' = [timeout EXCEPT ![g] = None]

GetReturns(g) ==
  /\ get[g] = "waiting"
  /\ queue # <<>>
  /\ queue' = Tail(queue)
  /\ delivered' = Append(delivered, Head(queue))
  /\ GetDone(g)
  /\ UNCHANGED <<agent, start, returned, agentVars, stop, target, log, overlapped>>

(* Mutant: the event was taken when the timeout strikes, and is dropped.   *)
GetTimesOutLosing(g) ==
  /\ get[g] = "waiting"
  /\ timeout[g] \notin {None, 0}
  /\ queue # <<>>
  /\ queue' = Tail(queue)
  /\ GetDone(g)
  /\ UNCHANGED <<agent, start, returned, agentVars, stop, target, log, delivered,
                 overlapped>>

(* `if timeout:` takes 0 for no timeout at all.                            *)
GetTimesOut(g) ==
  /\ get[g] = "waiting"
  /\ timeout[g] \notin {None, 0}
  /\ GetDone(g)
  /\ UNCHANGED <<agent, start, returned, agentVars, queue, stop, target, log,
                 delivered, overlapped>>

------------------------------------------------------------------------------
StopStep(c) == StopReports(c) \/ StopReturns(c)
GetStep(g) == GetReturns(g) \/ GetTimesOut(g)

Next ==
  \/ \E i \in Starts : \/ InitializeAndStart(i) \/ StartRuns(i) \/ StartFails(i)
                       \/ StartReturns(i) \/ AgentAnswers(i) \/ LoopEnds(i)
  \/ \E c \in Stops : StopBegin(c) \/ StopStep(c) \/ StopRaises(c)
  \/ \E g \in Getters : GetStep(g) \/ \E t \in Timeouts : GetBegin(g, t)
  \/ SendMessage

Spec == Init /\ [][Next]_vars

(* Tasks that can run do, timers fire, hooks and the callback come back,   *)
(* and a loop that was told to end does.  Nothing need raise, and a loop   *)
(* need not answer.                                                        *)
Fairness ==
  /\ \A i \in Starts : WF_vars(asked[i] /\ LoopEnds(i))
  /\ \A c \in Stops : WF_vars(StopStep(c))
  /\ \A g \in Getters : WF_vars(GetStep(g))

FairSpec == Spec /\ Fairness

------------------------------------------------------------------------------
(* What the host has of each agent.                                        *)
Hosted(i) == INSTANCE HostedAgent WITH
               loop <- loop[i], asked <- asked[i], terminated <- terminated[i],
               events <- [n \in {m \in DOMAIN log : log[m].agent = i} |->
                            log[n].type]

TypeOK ==
  /\ agent \in Starts \cup {None}
  /\ start \in [Starts -> StartPc]
  /\ returned \in [Starts -> Starts \cup {None}]
  /\ loop \in [Starts -> {"absent", "running", "ended"}]
  /\ asked \in [Starts -> BOOLEAN]
  /\ terminated \in [Starts -> BOOLEAN]
  /\ owed \in [Starts -> 0..(2 * MaxMessages)]
  /\ sent \in 0..MaxMessages
  /\ queue \in Seq(Event)
  /\ stop \in [Stops -> StopPc]
  /\ target \in [Stops -> Starts \cup {None}]
  /\ get \in [Getters -> {"idle", "waiting"}]
  /\ timeout \in [Getters -> Timeouts \cup {None}]
  /\ log \in Seq(Event)
  /\ delivered \in Seq(Event)
  /\ overlapped \in BOOLEAN

(* As long as calls that start and stop do not overlap, and none starts an *)
(* agent beside a running one, the host refers to the agent that runs,     *)
(* whichever of the calls fail at whichever await; and                     *)
(* initialize_and_start() returns the agent it created.                    *)
KeepsItsAgent ==
  ~ overlapped =>
    /\ \A i \in Running : agent = i
    /\ \A i \in Starts : start[i] = "returned" => returned[i] = i

(* Whatever calls overlap, every event emitted is handed to one            *)
(* get_next_event(), in the order of emission; one that times out takes    *)
(* none with it.                                                           *)
QueueConserves == delivered \o queue = log

(* shutdown() comes to an end whatever it overlaps with: also when         *)
(* start() creates the loop after the agent was told to shut down.         *)
ShutdownReturns ==
  \A c \in Stops : stop[c] = "stopping" ~> stop[c] = "done"

(* Whatever calls overlap and fail, each agent the host ever had is, in    *)
(* what it emits and in the order of it, an agent as AbstractURP has them: *)
(* also one the host let go of, or started after it was told to shut down. *)
AgentsAreHosted ==
  /\ \A i \in Starts : Hosted(i)!Init
  /\ [][\A i \in Starts : Hosted(i)!Next \/ UNCHANGED Hosted(i)!vars]_vars
==============================================================================
