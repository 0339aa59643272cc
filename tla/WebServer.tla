------------------------------ MODULE WebServer ------------------------------
(***************************************************************************)
(* The web server of urp/web_server.py and the URPHost objects of          *)
(* urp/host.py it creates: requests that (re)initialise the agent, the     *)
(* events of the agents, and the websocket clients they are streamed to.   *)
(*                                                                         *)
(* Each call of initialize_agent() creates at most one URPHost with one    *)
(* agent in it, and both have the name of the call.  The agents are the    *)
(* two the server knows, EchoAgent and SDKURPAgent.  They override no      *)
(* asynchronous hook, so start() does not suspend, and of shutdown() only  *)
(* the join of the lifecycle loop does: everything else that               *)
(* initialize_agent() does happens without a suspension.  Of an agent      *)
(* itself the host sees that it emits, and that its loop ends after        *)
(* shutdown() was called (AbstractURP has the details).                    *)
(***************************************************************************)
EXTENDS Integers, Sequences, FiniteSets, Functions

CONSTANTS
  Inits,      \* the calls of initialize_agent(), that of startup included
  Clients,    \* the websocket connections
  MaxAnswers, \* bound: how many events the agents emit about messages
  None

ASSUME NoneAssumption == None \notin Inits
ASSUME ClientsAssumption == IsFiniteSet(Clients)
ASSUME BoundAssumption == MaxAnswers \in Nat

VARIABLES
  host,       \* the global: the host created last, or None
  agent,      \* is host.agent set?
  life,       \* the agent in each host
  queue,      \* host.event_queue, of positions in event_log
  event_log,  \* every event: log_event() runs where it is queued
  init,       \* where each initialize_agent() is
  target,     \* the host an initialize_agent() shuts down
  ws,         \* where each websocket_endpoint() is
  source,     \* the host whose get_next_event() it awaits
  hand,       \* its local `event`
  connected,  \* is the browser still there?
  streamed,   \* history: the events written to its socket
  overlapped  \* history: has one initialize_agent() begun during another?

hostVars == <<host, agent, life, queue, event_log>>
initVars == <<init, target, overlapped>>
wsVars == <<ws, source, hand, connected, streamed>>
vars == <<hostVars, initVars, wsVars>>

(* An agent is broken when initialize() raised, and leaving when its loop  *)
(* was told to end.                                                        *)
Life == {"absent", "broken", "live", "leaving", "exited"}
InitPc == {"idle", "stopping", "done", "raised"}
WsPc == {"away", "pulling", "sending", "closed"}
EventType == {"AGENT_STARTED", "ANSWER", "AGENT_TERMINATED"}

Init ==
  /\ host = None
  /\ agent = [i \in Inits |-> FALSE]
  /\ life = [i \in Inits |-> "absent"]
  /\ queue = [i \in Inits |-> <<>>]
  /\ event_log = <<>>
  /\ init = [i \in Inits |-> "idle"]
  /\ target = [i \in Inits |-> None]
  /\ ws = [k \in Clients |-> "away"]
  /\ source = [k \in Clients |-> None]
  /\ hand = [k \in Clients |-> 0]
  /\ connected = [k \in Clients |-> FALSE]
  /\ streamed = [k \in Clients |-> <<>>]
  /\ overlapped = FALSE

------------------------------------------------------------------------------
(* Mutant: the arguments are swapped.                                      *)
EventSwapped(h, type) == [host |-> type, type |-> h]

Event(h, type) == [host |-> h, type |-> type]

(* URPHost._internal_emit_handler() with log_event() as the callback: the  *)
(* event is put in the queue of its host and logged.  Put and Logged are   *)
(* queue and event_log after it.                                           *)
Put(q, log, e) == [q EXCEPT ![e.host] = Append(@, Len(log) + 1)]
Logged(log, e) == Append(log, e)

(* create_host() and URPHost.initialize_and_start(), once the shutdown     *)
(* before them has left q and log: the agent starts, or its initialize()   *)
(* raises and the new host keeps it.                                       *)
Create(i, q, log) ==
  /\ host' = i
  /\ \/ /\ init' = [init EXCEPT ![i] = "done"]
        /\ life' = [life EXCEPT ![i] = "live"]
        /\ queue' = Put(q, log, Event(i, "AGENT_STARTED"))
        /\ event_log' = Logged(log, Event(i, "AGENT_STARTED"))
     \/ /\ init' = [init EXCEPT ![i] = "raised"]
        /\ life' = [life EXCEPT ![i] = "broken"]
        /\ queue' = q
        /\ event_log' = log

(* The end of URPHost.shutdown() for the host h, and the creation of the   *)
(* next one.                                                               *)
Supersede(h, i) ==
  /\ Create(i, Put(queue, event_log, Event(h, "AGENT_TERMINATED")),
               Logged(event_log, Event(h, "AGENT_TERMINATED")))
  /\ agent' = [agent EXCEPT ![h] = FALSE, ![i] = TRUE]

Begins(i) ==
  /\ init[i] = "idle"
  /\ overlapped' = (overlapped \/ \E j \in Inits : init[j] = "stopping")

(* No host yet, or one that was shut down already.                         *)
InitAtOnce(i) ==
  /\ Begins(i)
  /\ host # None => ~ agent[host]
  /\ Create(i, queue, event_log)
  /\ agent' = [agent EXCEPT ![i] = TRUE]
  /\ UNCHANGED <<target, wsVars>>

(* URPHost.shutdown() of an agent whose loop never began or has ended has  *)
(* nothing to wait for.                                                    *)
InitReplaces(i) ==
  /\ Begins(i)
  /\ host # None
  /\ agent[host] /\ life[host] \in {"broken", "exited"}
  /\ Supersede(host, i)
  /\ UNCHANGED <<target, wsVars>>

(* Mutant: the running host is replaced first and shut down afterwards.    *)
InitStopsReplacing(i) ==
  /\ Begins(i)
  /\ host # None
  /\ agent[host] /\ life[host] \in {"live", "leaving"}
  /\ host' = i
  /\ target' = [target EXCEPT ![i] = host]
  /\ init' = [init EXCEPT ![i] = "stopping"]
  /\ life' = [life EXCEPT ![i] = "live"]
  /\ agent' = [agent EXCEPT ![i] = TRUE]
  /\ queue' = Put(queue, event_log, Event(i, "AGENT_STARTED"))
  /\ event_log' = Logged(event_log, Event(i, "AGENT_STARTED"))
  /\ UNCHANGED wsVars

(* URPHost.shutdown() awaits AbstractURPAgent.shutdown(), and that the     *)
(* loop: the host is the one the global names now.                         *)
InitStops(i) ==
  /\ Begins(i)
  /\ host # None
  /\ agent[host] /\ life[host] \in {"live", "leaving"}
  /\ target' = [target EXCEPT ![i] = host]
  /\ init' = [init EXCEPT ![i] = "stopping"]
  /\ life' = [life EXCEPT ![host] = IF @ = "live" THEN "leaving" ELSE @]
  /\ UNCHANGED <<host, agent, queue, event_log, wsVars>>

(* Mutant: the loop is told to end, and not awaited.                       *)
InitResumesEarly(i) ==
  /\ init[i] = "stopping"
  /\ Supersede(target[i], i)
  /\ target' = [target EXCEPT ![i] = None]
  /\ UNCHANGED <<overlapped, wsVars>>

(* The loop has ended: AGENT_TERMINATED is emitted, the old host lets go   *)
(* of its agent, and a new host is created.                                *)
InitResumes(i) ==
  /\ init[i] = "stopping"
  /\ life[target[i]] = "exited"
  /\ Supersede(target[i], i)
  /\ target' = [target EXCEPT ![i] = None]
  /\ UNCHANGED <<overlapped, wsVars>>

------------------------------------------------------------------------------
(* The agents.                                                             *)

(* A loop emits while it handles a message, the last of which may be one   *)
(* it took before it was told to end.                                      *)
AgentEmits(h) ==
  /\ life[h] \in {"live", "leaving"}
  /\ Cardinality({n \in DOMAIN event_log : event_log[n].type = "ANSWER"}) < MaxAnswers
  /\ queue' = Put(queue, event_log, Event(h, "ANSWER"))
  /\ event_log' = Logged(event_log, Event(h, "ANSWER"))
  /\ UNCHANGED <<host, agent, life, initVars, wsVars>>

AgentExits(h) ==
  /\ life[h] = "leaving"
  /\ life' = [life EXCEPT ![h] = "exited"]
  /\ UNCHANGED <<host, agent, queue, event_log, initVars, wsVars>>

------------------------------------------------------------------------------
(* websocket_endpoint() and URPHost.get_next_event() without a timeout.    *)

Connect(k) ==
  /\ ws[k] = "away"
  /\ host # None
  /\ ws' = [ws EXCEPT ![k] = "pulling"]
  /\ source' = [source EXCEPT ![k] = host]
  /\ connected' = [connected EXCEPT ![k] = TRUE]
  /\ UNCHANGED <<hostVars, initVars, hand, streamed>>

(* Mutant: the event stays in the queue until it is sent.                  *)
PullPeeks(k) ==
  /\ ws[k] = "pulling"
  /\ queue[source[k]] # <<>>
  /\ hand' = [hand EXCEPT ![k] = Head(queue[source[k]])]
  /\ ws' = [ws EXCEPT ![k] = "sending"]
  /\ UNCHANGED <<host, agent, life, queue, event_log, initVars, source, connected,
                 streamed>>

(* Mutant: the endpoint takes what is there and streams the first of it.   *)
PullDrains(k) ==
  /\ ws[k] = "pulling"
  /\ queue[source[k]] # <<>>
  /\ hand' = [hand EXCEPT ![k] = Head(queue[source[k]])]
  /\ queue' = [queue EXCEPT ![source[k]] = <<>>]
  /\ ws' = [ws EXCEPT ![k] = "sending"]
  /\ UNCHANGED <<host, agent, life, event_log, initVars, source, connected,
                 streamed>>

Pull(k) ==
  /\ ws[k] = "pulling"
  /\ queue[source[k]] # <<>>
  /\ hand' = [hand EXCEPT ![k] = Head(queue[source[k]])]
  /\ queue' = [queue EXCEPT ![source[k]] = Tail(@)]
  /\ ws' = [ws EXCEPT ![k] = "sending"]
  /\ UNCHANGED <<host, agent, life, event_log, initVars, source, connected,
                 streamed>>

(* Mutant: the endpoint keeps the host it began with.                      *)
SentToTheSame(k) ==
  /\ ws[k] = "sending"
  /\ streamed' = [streamed EXCEPT ![k] = Append(@, hand[k])]
  /\ ws' = [ws EXCEPT ![k] = "pulling"]
  /\ hand' = [hand EXCEPT ![k] = 0]
  /\ UNCHANGED <<hostVars, initVars, source, connected>>

(* send_text() returns, and the host is looked up anew.  The socket takes  *)
(* the event for a while although the browser has gone.                    *)
Sent(k) ==
  /\ ws[k] = "sending"
  /\ streamed' = [streamed EXCEPT ![k] = Append(@, hand[k])]
  /\ ws' = [ws EXCEPT ![k] = "pulling"]
  /\ source' = [source EXCEPT ![k] = host]
  /\ hand' = [hand EXCEPT ![k] = 0]
  /\ UNCHANGED <<hostVars, initVars, connected>>

(* The browser goes away, which the endpoint learns when a send fails: the *)
(* event in its hand is gone.                                              *)
Disconnect(k) ==
  /\ connected[k]
  /\ connected' = [connected EXCEPT ![k] = FALSE]
  /\ UNCHANGED <<hostVars, initVars, ws, source, hand, streamed>>

SendFails(k) ==
  /\ ws[k] = "sending"
  /\ ~ connected[k]
  /\ ws' = [ws EXCEPT ![k] = "closed"]
  /\ hand' = [hand EXCEPT ![k] = 0]
  /\ source' = [source EXCEPT ![k] = None]
  /\ UNCHANGED <<hostVars, initVars, connected, streamed>>

------------------------------------------------------------------------------
WsStep(k) == Pull(k) \/ Sent(k) \/ SendFails(k)

Next ==
  \/ \E i \in Inits : \/ InitAtOnce(i) \/ InitReplaces(i) \/ InitStops(i)
                      \/ InitResumes(i) \/ AgentEmits(i) \/ AgentExits(i)
  \/ \E k \in Clients : Connect(k) \/ Disconnect(k) \/ WsStep(k)

Spec == Init /\ [][Next]_vars

(* Tasks that can run do; a loop that was told to end does.                *)
Fairness ==
  /\ \A i \in Inits : WF_vars(InitResumes(i)) /\ WF_vars(AgentExits(i))
  /\ \A k \in Clients : WF_vars(WsStep(k))

FairSpec == Spec /\ Fairness

------------------------------------------------------------------------------
(* What the server has of each agent.  A broken one was told to end once   *)
(* its host has let go of it.                                              *)
Hosted(h) == INSTANCE HostedAgent WITH
               loop <- CASE life[h] \in {"absent", "broken"} -> "absent"
                         [] life[h] \in {"live", "leaving"} -> "running"
                         [] life[h] = "exited" -> "ended",
               asked <- \/ life[h] \in {"leaving", "exited"}
                        \/ life[h] = "broken" /\ ~ agent[h],
               terminated <- life[h] # "absent" /\ ~ agent[h],
               events <- [n \in {m \in DOMAIN event_log : event_log[m].host = h} |->
                            event_log[n].type]

TypeOK ==
  /\ host \in Inits \cup {None}
  /\ agent \in [Inits -> BOOLEAN]
  /\ life \in [Inits -> Life]
  /\ queue \in [Inits -> Seq(Nat)]
  /\ event_log \in Seq([host : Inits, type : EventType])
  /\ init \in [Inits -> InitPc]
  /\ target \in [Inits -> Inits \cup {None}]
  /\ ws \in [Clients -> WsPc]
  /\ source \in [Clients -> Inits \cup {None}]
  /\ hand \in [Clients -> Nat]
  /\ connected \in [Clients -> BOOLEAN]
  /\ streamed \in [Clients -> Seq(Nat)]
  /\ overlapped \in BOOLEAN

Running == {h \in Inits : life[h] \in {"live", "leaving"}}

(* As long as requests to initialise do not overlap, an agent that runs is *)
(* the one of the global host, and the host still refers to it: whether    *)
(* initialisations succeed or raise, nobody is left behind.                *)
SoleAgent == ~ overlapped => \A h \in Running : h = host /\ agent[h]

(* As long as requests to initialise do not overlap, the log tells the     *)
(* life of one agent after the other: from an event to a later one the     *)
(* agent changes if and only if the first was reported terminated in       *)
(* between.  So each speaks only after the one before it has been reported *)
(* terminated, which is the last that is heard of that one.                *)
LivesFollowEachOther ==
  ~ overlapped =>
    \A n, m \in DOMAIN event_log : n < m =>
      (event_log[m].host # event_log[n].host <=>
         \E r \in n .. m - 1 : /\ event_log[r].type = "AGENT_TERMINATED"
                               /\ event_log[r].host = event_log[n].host)

(* What a browser gets of a host it gets once and in the order of          *)
(* emission, though several endpoints take turns at the queue, each with   *)
(* an event in its hand while others take and send the next.               *)
StreamedInOrder ==
  \A k \in Clients : \A a, b \in DOMAIN streamed[k] :
    (a < b /\ event_log[streamed[k][a]].host = event_log[streamed[k][b]].host)
      => streamed[k][a] < streamed[k][b]

(* An event waits in a queue, is in an endpoint's hand or was written to a *)
(* socket: it is lost on the way only where a send failed, one event for   *)
(* each endpoint that ended, however hosts are replaced meanwhile.  What a *)
(* socket still holds when its browser leaves is not followed.             *)
EventsConserved ==
  LET queued == UNION {Range(queue[h]) : h \in Inits}
      held == {hand[k] : k \in {j \in Clients : ws[j] = "sending"}}
      written == UNION {Range(streamed[k]) : k \in Clients}
  IN  Cardinality(DOMAIN event_log \ (queued \cup held \cup written))
        = Cardinality({k \in Clients : ws[k] = "closed"})

(* A browser that is alone follows a re-initialisation: AGENT_TERMINATED   *)
(* wakes its endpoint, which then waits at the new host's queue.           *)
ClientFollows ==
  \A k \in Clients :
    (ws[k] = "pulling" /\ source[k] # host)
      ~> \/ source[k] = host
         \/ ws[k] = "closed" \/ \E j \in Clients \ {k} : ws[j] # "away"
         \/ overlapped \/ \E i \in Inits : init[i] = "stopping"

(* The agents of the server are agents as AbstractURP has them.            *)
AgentsAreHosted ==
  /\ \A h \in Inits : Hosted(h)!Init
  /\ [][\A h \in Inits : Hosted(h)!Next \/ UNCHANGED Hosted(h)!vars]_vars

------------------------------------------------------------------------------
(* web_server.py:179: the console's button is "Initialize/Restart          *)
(* Agent": a restarted agent replaces the one that ran.                    *)
RestartReplaces == Cardinality(Running) <= 1
==============================================================================
