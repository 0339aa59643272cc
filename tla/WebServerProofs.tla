--------------------------- MODULE WebServerProofs ---------------------------
(***************************************************************************)
(* Proofs about WebServer, for every value of its constants: any number of *)
(* requests to initialise, and of clients.                                 *)
(***************************************************************************)
EXTENDS WebServer, FiniteSetTheorems, TLAPS

(* The types of what decides which agents run.                             *)
ControlOK ==
  /\ host \in Inits \cup {None}
  /\ agent \in [Inits -> BOOLEAN]
  /\ life \in [Inits -> Life]
  /\ init \in [Inits -> InitPc]
  /\ target \in [Inits -> Inits \cup {None}]
  /\ \A i \in Inits : init[i] = "stopping" => target[i] \in Inits
  /\ overlapped \in BOOLEAN

LEMMA CreateControl ==
  ASSUME ControlOK, NEW i \in Inits, NEW STATE q, NEW STATE log, Create(i, q, log)
  PROVE  /\ host' = i
         /\ init' \in [Inits -> InitPc] /\ life' \in [Inits -> Life]
         /\ init'[i] \in {"done", "raised"} /\ life'[i] \in {"live", "broken"}
         /\ \A j \in Inits : j # i => init'[j] = init[j] /\ life'[j] = life[j]
  BY DEF Create, ControlOK, InitPc, Life

LEMMA InitControl == Init => ControlOK
  BY DEF Init, ControlOK, Life, InitPc

LEMMA StepControl == ControlOK /\ [Next]_vars => ControlOK'
<1> SUFFICES ASSUME ControlOK, [Next]_vars PROVE ControlOK'
  OBVIOUS
<1> USE DEF hostVars, initVars, wsVars
<1>1. CASE UNCHANGED <<host, agent, life, init, target, overlapped>>
  BY <1>1 DEF ControlOK
<1>2. ASSUME NEW i \in Inits, InitAtOnce(i)
      PROVE  ControlOK'
  <2>1. /\ overlapped' \in BOOLEAN /\ UNCHANGED target
        /\ agent' \in [Inits -> BOOLEAN]
    BY <1>2 DEF InitAtOnce, Begins, ControlOK
  <2>2. QED
    BY <1>2, <2>1, CreateControl DEF InitAtOnce, ControlOK
<1>3. ASSUME NEW i \in Inits, InitReplaces(i)
      PROVE  ControlOK'
  <2>1. /\ overlapped' \in BOOLEAN /\ UNCHANGED target
        /\ agent' \in [Inits -> BOOLEAN]
    BY <1>3 DEF InitReplaces, Supersede, Begins, ControlOK
  <2>2. QED
    BY <1>3, <2>1, CreateControl DEF InitReplaces, Supersede, ControlOK
<1>4. ASSUME NEW i \in Inits, InitStops(i)
      PROVE  ControlOK'
  <2>1. host \in Inits /\ overlapped' \in BOOLEAN
    BY <1>4 DEF InitStops, Begins, ControlOK
  <2>2. life' \in [Inits -> Life]
    BY <1>4, <2>1 DEF InitStops, ControlOK, Life
  <2>3. QED
    BY <1>4, <2>1, <2>2 DEF InitStops, ControlOK, InitPc
<1>5. ASSUME NEW i \in Inits, InitResumes(i)
      PROVE  ControlOK'
  <2>1. /\ agent' \in [Inits -> BOOLEAN]
        /\ target' = [target EXCEPT ![i] = None]
        /\ UNCHANGED overlapped
    BY <1>5 DEF InitResumes, Supersede, ControlOK
  <2>2. /\ host' = i
        /\ init' \in [Inits -> InitPc] /\ life' \in [Inits -> Life]
        /\ init'[i] # "stopping"
        /\ \A j \in Inits : j # i => init'[j] = init[j]
    BY <1>5, CreateControl DEF InitResumes, Supersede
  <2>3. /\ target' \in [Inits -> Inits \cup {None}]
        /\ \A j \in Inits : j # i => target'[j] = target[j]
    BY <2>1 DEF ControlOK
  <2>4. QED
    BY <2>1, <2>2, <2>3 DEF ControlOK
<1>6. ASSUME NEW h \in Inits, AgentExits(h)
      PROVE  ControlOK'
  BY <1>6 DEF AgentExits, ControlOK, Life
<1>7. QED
  BY <1>1, <1>2, <1>3, <1>4, <1>5, <1>6
     DEF Next, AgentEmits, Connect, Disconnect, WsStep, Pull, Sent, SendFails, vars

------------------------------------------------------------------------------
(* As long as requests do not overlap, at most one is waiting for a loop,  *)
(* and it is that of the global host, which was told to end.               *)
OneStopping ==
  \A i \in Inits : init[i] = "stopping" =>
    /\ target[i] = host
    /\ agent[host]
    /\ life[host] \in {"leaving", "exited"}
    /\ \A j \in Inits : init[j] = "stopping" => j = i

Alone == \A h \in Inits : life[h] \in {"live", "leaving"} => h = host /\ agent[h]

Sequential == ~ overlapped => OneStopping /\ Alone

LEMMA AlwaysSequential == Spec => [](ControlOK /\ Sequential)
<1>1. Init => Sequential
  BY DEF Init, Sequential, OneStopping, Alone
<1>2. ControlOK /\ Sequential /\ [Next]_vars => Sequential'
  <2> SUFFICES ASSUME ControlOK, Sequential, [Next]_vars, ~ overlapped'
               PROVE  OneStopping' /\ Alone'
    BY DEF Sequential
  <2> USE DEF hostVars, initVars, wsVars
  <2>1. CASE UNCHANGED <<host, agent, life, init, target, overlapped>>
    BY <2>1 DEF Sequential, OneStopping, Alone
  <2>2. ASSUME NEW i \in Inits, Begins(i)
        PROVE  /\ OneStopping /\ Alone
               /\ \A j \in Inits : init[j] # "stopping"
    BY <2>2 DEF Begins, Sequential
  (* Where nobody runs and nobody waits, an agent may be created. *)
  <2>3. ASSUME NEW i \in Inits, NEW STATE q, NEW STATE log, Create(i, q, log), agent'[i],
               \A h \in Inits : life[h] \notin {"live", "leaving"},
               \A j \in Inits : j # i => init[j] # "stopping"
        PROVE  OneStopping' /\ Alone'
    BY <2>3, CreateControl DEF OneStopping, Alone
  <2>4. ASSUME NEW i \in Inits, InitAtOnce(i)
        PROVE  OneStopping' /\ Alone'
    <3>1. /\ Alone /\ \A j \in Inits : init[j] # "stopping"
          /\ host \in Inits => ~ agent[host]
          /\ Create(i, queue, event_log) /\ agent'[i]
      BY <2>2, <2>4, NoneAssumption DEF InitAtOnce, ControlOK
    <3>2. QED
      BY <2>3, <3>1 DEF Alone
  <2>5. ASSUME NEW i \in Inits, InitReplaces(i)
        PROVE  OneStopping' /\ Alone'
    <3>1. /\ Alone /\ \A j \in Inits : init[j] # "stopping"
          /\ life[host] \notin {"live", "leaving"}
          /\ Create(i, Put(queue, event_log, Event(host, "AGENT_TERMINATED")),
                       Logged(event_log, Event(host, "AGENT_TERMINATED")))
          /\ agent'[i]
      BY <2>2, <2>5 DEF InitReplaces, Supersede, ControlOK
    <3>2. QED
      BY <2>3, <3>1 DEF Alone
  <2>6. ASSUME NEW i \in Inits, InitStops(i)
        PROVE  OneStopping' /\ Alone'
    <3>1. /\ Alone /\ \A j \in Inits : init[j] # "stopping"
          /\ host \in Inits /\ agent[host]
          /\ target'[i] = host
          /\ \A j \in Inits : j # i => init'[j] = init[j]
          /\ UNCHANGED <<host, agent>>
      BY <2>2, <2>6 DEF InitStops, ControlOK
    <3>2. /\ life'[host] = "leaving"
          /\ \A h \in Inits : h # host => life'[h] = life[h]
      BY <2>6, <3>1 DEF InitStops, ControlOK
    <3>3. QED
      BY <3>1, <3>2 DEF OneStopping, Alone
  <2>7. ASSUME NEW i \in Inits, InitResumes(i)
        PROVE  OneStopping' /\ Alone'
    <3>1. /\ OneStopping /\ Alone
          /\ init[i] = "stopping" /\ life[target[i]] = "exited"
          /\ Create(i, Put(queue, event_log, Event(target[i], "AGENT_TERMINATED")),
                       Logged(event_log, Event(target[i], "AGENT_TERMINATED")))
      BY <2>7 DEF InitResumes, Supersede, Sequential
    <3>2. agent'[i]
      BY <2>7 DEF InitResumes, Supersede, ControlOK
    <3>3. /\ \A h \in Inits : life[h] \notin {"live", "leaving"}
          /\ \A j \in Inits : j # i => init[j] # "stopping"
      BY <3>1 DEF OneStopping, Alone
    <3>4. QED
      BY <2>3, <3>1, <3>2, <3>3
  <2>8. ASSUME NEW h \in Inits, AgentExits(h)
        PROVE  OneStopping' /\ Alone'
    <3>1. /\ OneStopping /\ Alone
          /\ life[h] = "leaving" /\ life'[h] = "exited"
          /\ \A j \in Inits : j # h => life'[j] = life[j]
          /\ UNCHANGED <<host, agent, init, target>>
      BY <2>8 DEF AgentExits, Sequential, ControlOK
    <3>2. QED
      BY <3>1 DEF OneStopping, Alone
  <2>9. QED
    BY <2>1, <2>4, <2>5, <2>6, <2>7, <2>8
       DEF Next, AgentEmits, Connect, Disconnect, WsStep, Pull, Sent, SendFails, vars
<1>3. QED
  BY <1>1, <1>2, InitControl, StepControl, PTL DEF Spec

(* In every reachable state, as long as requests to initialise have not    *)
(* overlapped, the only agent that runs is that of the global host.        *)
THEOREM Sole == Spec => []SoleAgent
<1>1. Sequential => SoleAgent
  BY DEF Sequential, Alone, SoleAgent, Running
<1>2. QED
  BY <1>1, AlwaysSequential, PTL

------------------------------------------------------------------------------
(* The queues, each of which holds positions of its host's events in the   *)
(* log, in their order.                                                    *)
EventRecord == [host : Inits, type : EventType]

InQueues(q, log) ==
  /\ q \in [Inits -> Seq(Nat)]
  /\ log \in Seq(EventRecord)
  /\ \A h \in Inits : \A a \in DOMAIN q[h] :
       /\ q[h][a] \in DOMAIN log
       /\ log[q[h][a]].host = h
       /\ \A b \in DOMAIN q[h] : a < b => q[h][a] < q[h][b]

(* What appending does to a sequence, and what Put does to the queues.     *)
LEMMA Appended ==
  ASSUME NEW S, NEW s \in Seq(S), NEW e \in S
  PROVE  LET u == Append(s, e)
         IN  /\ Len(s) \in Nat /\ u \in Seq(S)
             /\ DOMAIN u = 1 .. Len(s) + 1 /\ DOMAIN s = 1 .. Len(s)
             /\ u[Len(s) + 1] = e
             /\ \A n \in 1 .. Len(s) : u[n] = s[n]
  OBVIOUS

LEMMA Putting ==
  ASSUME NEW q, NEW log, InQueues(q, log), NEW e \in EventRecord
  PROVE  /\ Put(q, log, e) \in [Inits -> Seq(Nat)]
         /\ \A h \in Inits : h # e.host => Put(q, log, e)[h] = q[h]
         /\ Put(q, log, e)[e.host] = Append(q[e.host], Len(log) + 1)
         /\ Len(log) + 1 \in Nat
  BY DEF Put, InQueues, EventRecord

LEMMA PutInQueues ==
  ASSUME NEW q, NEW log, InQueues(q, log), NEW e \in EventRecord
  PROVE  InQueues(Put(q, log, e), Logged(log, e))
<1> DEFINE p == Put(q, log, e)
           u == Logged(log, e)
<1>1. /\ Len(log) \in Nat /\ u \in Seq(EventRecord)
      /\ DOMAIN u = 1 .. Len(log) + 1 /\ DOMAIN log = 1 .. Len(log)
      /\ u[Len(log) + 1] = e
      /\ \A n \in 1 .. Len(log) : u[n] = log[n]
  BY Appended DEF InQueues, Logged
<1>2. /\ p \in [Inits -> Seq(Nat)]
      /\ \A h \in Inits : h # e.host => p[h] = q[h]
      /\ p[e.host] = Append(q[e.host], Len(log) + 1)
  BY Putting
<1>3. ASSUME NEW h \in Inits, NEW a \in DOMAIN p[h]
      PROVE  /\ p[h][a] \in DOMAIN u
             /\ u[p[h][a]].host = h
             /\ \A b \in DOMAIN p[h] : a < b => p[h][a] < p[h][b]
  <2>1. ASSUME NEW c \in DOMAIN q[h]
        PROVE  /\ q[h][c] \in 1 .. Len(log) /\ u[q[h][c]].host = h
               /\ \A b \in DOMAIN q[h] : c < b => q[h][c] < q[h][b]
    BY <1>1, <2>1 DEF InQueues
  <2>2. CASE h # e.host
    <3>1. p[h] = q[h]
      BY <1>2, <2>2
    <3>2. QED
      BY <1>1, <1>3, <2>1, <3>1
  <2>3. CASE h = e.host
    <3> DEFINE l == Len(q[h])
    <3>1. /\ l \in Nat /\ DOMAIN q[h] = 1 .. l /\ DOMAIN p[h] = 1 .. l + 1
          /\ p[h][l + 1] = Len(log) + 1
          /\ \A n \in 1 .. l : p[h][n] = q[h][n]
      BY <1>1, <1>2, <2>3, Appended DEF InQueues
    <3>2. a \in 1 .. l \/ a = l + 1
      BY <3>1
    <3>3. CASE a = l + 1
      BY <1>1, <2>3, <3>1, <3>3
    <3>4. CASE a \in 1 .. l
      <4>1. ASSUME NEW b \in DOMAIN p[h], a < b
            PROVE  p[h][a] < p[h][b]
        <5>1. b \in 1 .. l \/ b = l + 1
          BY <3>1
        <5>2. QED
          BY <1>1, <2>1, <3>1, <3>4, <4>1, <5>1
      <4>2. QED
        BY <1>1, <2>1, <3>1, <3>4, <4>1
    <3>5. QED
      BY <3>2, <3>3, <3>4
  <2>4. QED
    BY <2>2, <2>3
<1>4. QED
  BY <1>1, <1>2, <1>3 DEF InQueues

(* How a step changes queues and log: it emits an event, or two, or an     *)
(* endpoint takes one.                                                     *)
Emits(e) ==
  /\ queue' = Put(queue, event_log, e)
  /\ event_log' = Logged(event_log, e)

EmitsBoth(e, f) ==
  /\ queue' = Put(Put(queue, event_log, e), Logged(event_log, e), f)
  /\ event_log' = Logged(Logged(event_log, e), f)

LEMMA LogMoves ==
  ASSUME ControlOK, [Next]_vars
  PROVE  \/ UNCHANGED <<queue, event_log>>
         \/ (\E k \in Clients : Pull(k))
         \/ /\ UNCHANGED wsVars
            /\ \E e \in EventRecord :
                 Emits(e) \/ \E f \in EventRecord : EmitsBoth(e, f)
<1> DEFINE Some == \E e \in EventRecord :
                      Emits(e) \/ \E f \in EventRecord : EmitsBoth(e, f)
<1>1. \A h \in Inits, type \in EventType : Event(h, type) \in EventRecord
  BY DEF Event, EventRecord
<1>2. ASSUME NEW i \in Inits, InitAtOnce(i)
      PROVE  (UNCHANGED <<queue, event_log>> \/ Some) /\ UNCHANGED wsVars
  BY <1>1, <1>2 DEF InitAtOnce, Create, Emits, EventType
<1>3. ASSUME NEW i \in Inits, NEW h \in Inits, Supersede(h, i)
      PROVE  Some
  BY <1>1, <1>3 DEF Supersede, Create, Emits, EmitsBoth, EventType
<1>4. ASSUME NEW i \in Inits, InitReplaces(i) \/ InitResumes(i)
      PROVE  Some /\ UNCHANGED wsVars
  BY <1>3, <1>4 DEF InitReplaces, InitResumes, ControlOK
<1>5. ASSUME NEW i \in Inits, InitStops(i) \/ AgentExits(i)
      PROVE  UNCHANGED <<queue, event_log>>
  BY <1>5 DEF InitStops, AgentExits
<1>6. ASSUME NEW i \in Inits, AgentEmits(i)
      PROVE  Some /\ UNCHANGED wsVars
  BY <1>1, <1>6 DEF AgentEmits, Emits, EventType
<1>7. ASSUME NEW k \in Clients, Connect(k) \/ Disconnect(k) \/ Sent(k) \/ SendFails(k)
      PROVE  UNCHANGED <<queue, event_log>>
  BY <1>7 DEF Connect, Disconnect, Sent, SendFails, hostVars
<1>8. QED
  BY <1>2, <1>4, <1>5, <1>6, <1>7 DEF Next, WsStep, vars, hostVars

------------------------------------------------------------------------------
(* The endpoints.                                                          *)
WsOK ==
  /\ ws \in [Clients -> WsPc]
  /\ source \in [Clients -> Inits \cup {None}]
  /\ hand \in [Clients -> Nat]
  /\ connected \in [Clients -> BOOLEAN]
  /\ streamed \in [Clients -> Seq(Nat)]
  /\ \A k \in Clients : ws[k] \in {"pulling", "sending"} =>
        source[k] \in Inits /\ host \in Inits

LEMMA StepWs ==
  ControlOK /\ InQueues(queue, event_log) /\ WsOK /\ [Next]_vars => WsOK'
<1> SUFFICES ASSUME ControlOK, InQueues(queue, event_log), WsOK, [Next]_vars
             PROVE  WsOK'
  OBVIOUS
<1>1. host \in Inits => host' \in Inits
  BY CreateControl
     DEF Next, vars, hostVars, initVars, wsVars, InitAtOnce, InitReplaces, InitStops,
         InitResumes, Supersede, Create, AgentEmits, AgentExits, Connect, Disconnect,
         WsStep, Pull, Sent, SendFails
<1>2. CASE UNCHANGED wsVars
  BY <1>1, <1>2 DEF WsOK, wsVars
<1>3. ASSUME NEW k \in Clients, Connect(k)
      PROVE  WsOK'
  <2>1. host \in Inits
    BY <1>3 DEF Connect, ControlOK
  <2>2. QED
    BY <1>1, <1>3, <2>1 DEF Connect, WsOK, WsPc
<1>4. ASSUME NEW k \in Clients, Pull(k)
      PROVE  WsOK'
  <2>1. /\ source[k] \in Inits /\ queue[source[k]] \in Seq(Nat)
        /\ queue[source[k]] # <<>>
    BY <1>4 DEF Pull, WsOK, InQueues
  <2>2. Head(queue[source[k]]) \in Nat
    BY <2>1
  <2>3. QED
    BY <1>1, <1>4, <2>1, <2>2 DEF Pull, WsOK, WsPc
<1>5. ASSUME NEW k \in Clients, Sent(k)
      PROVE  WsOK'
  <2>1. host \in Inits /\ Append(streamed[k], hand[k]) \in Seq(Nat)
    BY <1>5 DEF Sent, WsOK
  <2>2. QED
    BY <1>1, <1>5, <2>1 DEF Sent, WsOK, WsPc
<1>6. ASSUME NEW k \in Clients, SendFails(k) \/ Disconnect(k)
      PROVE  WsOK'
  <2>1. CASE SendFails(k)
    BY <1>1, <2>1 DEF SendFails, WsOK, WsPc
  <2>2. CASE Disconnect(k)
    BY <1>1, <2>2 DEF Disconnect, WsOK
  <2>3. QED
    BY <1>6, <2>1, <2>2
<1>7. QED
  BY <1>2, <1>3, <1>4, <1>5, <1>6
     DEF Next, WsStep, vars, InitAtOnce, InitReplaces, InitStops, InitResumes,
         AgentEmits, AgentExits

(* What an endpoint takes from the queue of its host.                      *)
LEMMA Pulling ==
  ASSUME InQueues(queue, event_log), WsOK, NEW k \in Clients, Pull(k)
  PROVE  LET h == source[k]
             n == hand'[k]
         IN  /\ h \in Inits /\ n \in DOMAIN event_log /\ event_log[n].host = h
             /\ 1 \in DOMAIN queue[h] /\ queue[h][1] = n
             /\ queue' \in [Inits -> Seq(Nat)]
             /\ \A g \in Inits : g # h => queue'[g] = queue[g]
             /\ \A a \in DOMAIN queue'[h] :
                  a + 1 \in DOMAIN queue[h] /\ queue'[h][a] = queue[h][a + 1]
             /\ \A a \in DOMAIN queue[h] :
                  a = 1 \/ (a - 1 \in DOMAIN queue'[h] /\ queue'[h][a - 1] = queue[h][a])
             /\ \A a \in DOMAIN queue'[h] : n < queue'[h][a]
             /\ \A a \in DOMAIN queue'[h] : a \in Nat /\ a >= 1
<1> DEFINE h == source[k]
           s == queue[h]
<1>1. /\ h \in Inits /\ s \in Seq(Nat) /\ s # <<>>
      /\ hand'[k] = Head(s) /\ queue' = [queue EXCEPT ![h] = Tail(s)]
  BY DEF Pull, WsOK, InQueues
<1> HIDE DEF s
<1>2. /\ 1 \in DOMAIN s /\ Head(s) = s[1] /\ Len(s) \in Nat /\ Len(s) >= 1
      /\ DOMAIN s = 1 .. Len(s)
      /\ Tail(s) \in Seq(Nat) /\ DOMAIN Tail(s) = 1 .. Len(s) - 1
      /\ \A a \in 1 .. Len(s) - 1 : Tail(s)[a] = s[a + 1]
  BY <1>1
<1>3. /\ queue' \in [Inits -> Seq(Nat)] /\ queue'[h] = Tail(s)
      /\ \A g \in Inits : g # h => queue'[g] = queue[g]
  BY <1>1, <1>2 DEF InQueues
<1>4. \A a \in 1 .. Len(s) - 1 : a + 1 \in DOMAIN s /\ 1 < a + 1 /\ a \in Nat /\ a >= 1
  BY <1>2
<1>5. \A a \in DOMAIN s : a = 1 \/ (a - 1 \in 1 .. Len(s) - 1 /\ (a - 1) + 1 = a)
  BY <1>2
<1>6. /\ s[1] \in DOMAIN event_log /\ event_log[s[1]].host = h
      /\ \A b \in DOMAIN s : 1 < b => s[1] < s[b]
  BY <1>1, <1>2 DEF InQueues, s
<1>7. \A a \in DOMAIN queue'[h] : hand'[k] < queue'[h][a]
  BY <1>1, <1>2, <1>3, <1>4, <1>6
<1>8. \A a \in DOMAIN s :
        a = 1 \/ (a - 1 \in DOMAIN queue'[h] /\ queue'[h][a - 1] = s[a])
  BY <1>2, <1>3, <1>5
<1>9. QED
  BY <1>1, <1>2, <1>3, <1>4, <1>6, <1>7, <1>8 DEF s

LEMMA PullInQueues ==
  ASSUME InQueues(queue, event_log), WsOK, NEW k \in Clients, Pull(k)
  PROVE  InQueues(queue', event_log')
<1> DEFINE h == source[k]
<1>1. event_log' = event_log
  BY DEF Pull
<1>2. ASSUME NEW g \in Inits, NEW a \in DOMAIN queue'[g]
      PROVE  /\ queue'[g][a] \in DOMAIN event_log
             /\ event_log[queue'[g][a]].host = g
             /\ \A b \in DOMAIN queue'[g] : a < b => queue'[g][a] < queue'[g][b]
  <2>1. CASE g # h
    <3>1. queue'[g] = queue[g]
      BY <2>1, Pulling
    <3>2. QED
      BY <1>2, <3>1 DEF InQueues
  <2>2. CASE g = h
    <3>1. \A b \in DOMAIN queue'[g] :
            /\ b + 1 \in DOMAIN queue[g] /\ queue'[g][b] = queue[g][b + 1]
            /\ b \in Nat
      BY <2>2, Pulling
    <3>2. \A b \in DOMAIN queue'[g] : a < b => a + 1 < b + 1
      BY <1>2, <3>1
    <3>3. QED
      BY <1>2, <3>1, <3>2 DEF InQueues
  <2>3. QED
    BY <2>1, <2>2
<1>3. QED
  BY <1>1, <1>2, Pulling DEF InQueues

LEMMA StepInQueues ==
  ASSUME ControlOK, WsOK, InQueues(queue, event_log), [Next]_vars
  PROVE  InQueues(queue', event_log')
<1>1. ASSUME NEW e \in EventRecord, Emits(e)
      PROVE  InQueues(queue', event_log')
  BY <1>1, PutInQueues DEF Emits
<1>2. ASSUME NEW e \in EventRecord, NEW f \in EventRecord, EmitsBoth(e, f)
      PROVE  InQueues(queue', event_log')
  <2>1. InQueues(Put(queue, event_log, e), Logged(event_log, e))
    BY PutInQueues
  <2>2. QED
    BY <1>2, <2>1, PutInQueues DEF EmitsBoth
<1>3. QED
  BY <1>1, <1>2, LogMoves, PullInQueues

(* Every variable keeps its type in every reachable state.                 *)
THEOREM Typing == Spec => []TypeOK
<1> DEFINE Queues == InQueues(queue, event_log)
<1>1. Init => ControlOK /\ WsOK /\ Queues
  BY InitControl DEF Init, WsOK, WsPc, InQueues
<1>2. ControlOK /\ WsOK /\ Queues /\ [Next]_vars => ControlOK' /\ WsOK' /\ Queues'
  BY StepControl, StepWs, StepInQueues
<1>3. ControlOK /\ WsOK /\ Queues => TypeOK
  BY DEF ControlOK, WsOK, InQueues, EventRecord, TypeOK
<1>4. QED
  BY <1>1, <1>2, <1>3, PTL DEF Spec

------------------------------------------------------------------------------
(* What was taken from a queue: every event in an endpoint's hand or with  *)
(* a browser is older than what its host's queue holds, no two of them are *)
(* the same, and each browser has those of a host in order.                *)
Behind(q, log, n) ==
  /\ n \in DOMAIN log
  /\ \A a \in DOMAIN q[log[n].host] : n < q[log[n].host][a]

Taken(q, log) ==
  \A k \in Clients :
    /\ ws[k] = "sending" => Behind(q, log, hand[k])
    /\ \A a \in DOMAIN streamed[k] : Behind(q, log, streamed[k][a])

Apart ==
  \A k, j \in Clients :
    /\ ws[k] = "sending" =>
         /\ \A b \in DOMAIN streamed[j] : streamed[j][b] # hand[k]
         /\ ws[j] = "sending" /\ j # k => hand[j] # hand[k]
    /\ k # j => \A a \in DOMAIN streamed[k], b \in DOMAIN streamed[j] :
                   streamed[k][a] # streamed[j][b]

Ordered(log) ==
  \A k \in Clients : \A a \in DOMAIN streamed[k] :
    /\ \A b \in DOMAIN streamed[k] :
         a < b /\ log[streamed[k][a]].host = log[streamed[k][b]].host
           => streamed[k][a] < streamed[k][b]
    /\ ws[k] = "sending" /\ log[streamed[k][a]].host = log[hand[k]].host
         => streamed[k][a] < hand[k]

Streaming(q, log) == InQueues(q, log) /\ Taken(q, log) /\ Apart /\ Ordered(log)

LEMMA HostsLogged ==
  ASSUME NEW log \in Seq(EventRecord), NEW n \in DOMAIN log
  PROVE  log[n].host \in Inits /\ n \in Nat
<1>1. log[n] \in EventRecord /\ n \in Nat
  OBVIOUS
<1>2. QED
  BY <1>1 DEF EventRecord

LEMMA PutBehind ==
  ASSUME NEW q, NEW log, InQueues(q, log), NEW e \in EventRecord,
         NEW n, Behind(q, log, n)
  PROVE  /\ Behind(Put(q, log, e), Logged(log, e), n)
         /\ Logged(log, e)[n] = log[n]
<1> DEFINE p == Put(q, log, e)
           u == Logged(log, e)
           h == log[n].host
<1>1. /\ Len(log) \in Nat
      /\ DOMAIN u = 1 .. Len(log) + 1 /\ DOMAIN log = 1 .. Len(log)
      /\ \A m \in 1 .. Len(log) : u[m] = log[m]
  BY Appended DEF InQueues, Logged
<1>2. n \in 1 .. Len(log) /\ n \in DOMAIN u /\ u[n] = log[n] /\ n < Len(log) + 1
  BY <1>1 DEF Behind
<1>3. h \in Inits
  BY HostsLogged DEF Behind, InQueues
<1>4. ASSUME NEW a \in DOMAIN p[h]
      PROVE  n < p[h][a]
  <2>1. CASE h # e.host
    BY <1>3, <1>4, <2>1, Putting DEF Behind
  <2>2. CASE h = e.host
    <3>1. /\ Len(q[h]) \in Nat /\ DOMAIN q[h] = 1 .. Len(q[h])
          /\ DOMAIN p[h] = 1 .. Len(q[h]) + 1
          /\ p[h][Len(q[h]) + 1] = Len(log) + 1
          /\ \A m \in 1 .. Len(q[h]) : p[h][m] = q[h][m]
      <4>1. q[h] \in Seq(Nat) /\ Len(log) + 1 \in Nat
        BY <1>1, <1>3 DEF InQueues
      <4>2. p[h] = Append(q[h], Len(log) + 1)
        BY <2>2, Putting
      <4>3. QED
        BY <4>1, <4>2, Appended
    <3>2. a \in 1 .. Len(q[h]) \/ a = Len(q[h]) + 1
      BY <3>1, <1>4
    <3>3. QED
      BY <1>2, <3>1, <3>2 DEF Behind
  <2>3. QED
    BY <2>1, <2>2
<1>5. QED
  BY <1>2, <1>4 DEF Behind

LEMMA PutStreaming ==
  ASSUME NEW STATE q, NEW STATE log, WsOK, Streaming(q, log), NEW e \in EventRecord
  PROVE  Streaming(Put(q, log, e), Logged(log, e))
<1> DEFINE p == Put(q, log, e)
           u == Logged(log, e)
<1>1. InQueues(p, u)
  BY PutInQueues DEF Streaming
<1>2. \A n : Behind(q, log, n) => Behind(p, u, n) /\ u[n] = log[n]
  BY PutBehind DEF Streaming
<1> HIDE DEF p, u
<1>3. Taken(p, u)
  BY <1>2 DEF Streaming, Taken
<1>4. Ordered(u)
  BY <1>2 DEF Streaming, Taken, Ordered
<1>5. QED
  BY <1>1, <1>3, <1>4 DEF Streaming, p, u

LEMMA PullStreaming ==
  ASSUME WsOK, Streaming(queue, event_log), NEW k \in Clients, Pull(k)
  PROVE  Taken(queue, event_log)' /\ Apart' /\ Ordered(event_log)'
<1> DEFINE h == source[k]
           n == hand'[k]
<1>1. InQueues(queue, event_log) /\ Taken(queue, event_log) /\ Apart /\ Ordered(event_log)
  BY DEF Streaming
<1>2. /\ h \in Inits /\ n \in DOMAIN event_log /\ event_log[n].host = h
      /\ 1 \in DOMAIN queue[h] /\ queue[h][1] = n
      /\ \A g \in Inits : g # h => queue'[g] = queue[g]
      /\ \A a \in DOMAIN queue'[h] :
           a + 1 \in DOMAIN queue[h] /\ queue'[h][a] = queue[h][a + 1]
      /\ \A a \in DOMAIN queue'[h] : n < queue'[h][a]
  BY <1>1, Pulling
<1>3. /\ ws[k] = "pulling" /\ ws'[k] = "sending"
      /\ \A j \in Clients : j # k => ws'[j] = ws[j] /\ hand'[j] = hand[j]
      /\ UNCHANGED <<event_log, streamed>>
  BY DEF Pull, WsOK
<1> HIDE DEF n, h
<1>4. ASSUME NEW m, Behind(queue, event_log, m)
      PROVE  /\ m \in DOMAIN event_log
             /\ \A a \in DOMAIN queue'[event_log[m].host] :
                  m < queue'[event_log[m].host][a]
             /\ m # n
             /\ event_log[m].host = h => m < n
  <2>1. event_log[m].host \in Inits
    BY <1>1, <1>4, HostsLogged DEF Behind, InQueues
  <2>2. event_log[m].host = h => m < n
    BY <1>2, <1>4 DEF Behind
  <2>3. m \in Nat /\ n \in Nat
    BY <1>1, <1>2, <1>4 DEF Behind, InQueues
  <2>4. \A a \in DOMAIN queue'[event_log[m].host] :
          m < queue'[event_log[m].host][a]
    BY <1>2, <1>4, <2>1 DEF Behind
  <2>5. m # n
    BY <1>2, <2>2, <2>3
  <2>6. QED
    BY <1>4, <2>2, <2>4, <2>5 DEF Behind
<1>5. Taken(queue, event_log)'
  <2> SUFFICES ASSUME NEW j \in Clients
               PROVE  /\ ws'[j] = "sending" => Behind(queue', event_log', hand'[j])
                      /\ \A a \in DOMAIN streamed'[j] :
                           Behind(queue', event_log', streamed'[j][a])
    BY DEF Taken
  <2>1. \A a \in DOMAIN streamed'[j] : Behind(queue', event_log', streamed'[j][a])
    BY <1>1, <1>3, <1>4 DEF Taken, Behind
  <2>2. CASE j = k
    BY <1>2, <1>3, <2>1, <2>2 DEF Behind, n
  <2>3. CASE j # k
    BY <1>1, <1>3, <1>4, <2>1, <2>3 DEF Taken, Behind
  <2>4. QED
    BY <2>2, <2>3
<1>6. Apart'
  BY <1>1, <1>3, <1>4 DEF Apart, Taken, n
<1>7. Ordered(event_log)'
  BY <1>1, <1>2, <1>3, <1>4 DEF Ordered, Taken, n
<1>8. QED
  BY <1>5, <1>6, <1>7

LEMMA Sending ==
  ASSUME WsOK, NEW k \in Clients, Sent(k)
  PROVE  /\ ws[k] = "sending" /\ ws'[k] # "sending"
         /\ \A j \in Clients : j # k =>
              ws'[j] = ws[j] /\ hand'[j] = hand[j] /\ streamed'[j] = streamed[j]
         /\ \A a \in DOMAIN streamed'[k] :
              \/ a \in DOMAIN streamed[k] /\ streamed'[k][a] = streamed[k][a]
              \/ /\ streamed'[k][a] = hand[k]
                 /\ \A b \in DOMAIN streamed[k] : b < a
                 /\ \A b \in DOMAIN streamed'[k] : ~ a < b
         /\ UNCHANGED hostVars
<1>1. streamed[k] \in Seq(Nat) /\ hand[k] \in Nat
  BY DEF WsOK
<1>2. streamed'[k] = Append(streamed[k], hand[k])
  BY DEF Sent, WsOK
<1> DEFINE l == Len(streamed[k])
<1>3. /\ l \in Nat /\ DOMAIN streamed[k] = 1 .. l /\ DOMAIN streamed'[k] = 1 .. l + 1
      /\ streamed'[k][l + 1] = hand[k]
      /\ \A a \in 1 .. l : streamed'[k][a] = streamed[k][a]
  BY <1>1, <1>2, Appended
<1>4. \A a \in 1 .. l + 1 : a \in 1 .. l \/ a = l + 1
  BY <1>3
<1>5. (\A b \in 1 .. l : b < l + 1) /\ (\A b \in 1 .. l + 1 : ~ l + 1 < b)
  BY <1>3
<1>6. QED
  BY <1>3, <1>4, <1>5 DEF Sent, WsOK

LEMMA SentStreaming ==
  ASSUME WsOK, Streaming(queue, event_log), NEW k \in Clients, Sent(k)
  PROVE  Taken(queue, event_log)' /\ Apart' /\ Ordered(event_log)'
<1>1. Taken(queue, event_log) /\ Apart /\ Ordered(event_log)
  BY DEF Streaming
<1>2. /\ ws[k] = "sending" /\ ws'[k] # "sending"
      /\ \A j \in Clients : j # k =>
           ws'[j] = ws[j] /\ hand'[j] = hand[j] /\ streamed'[j] = streamed[j]
      /\ UNCHANGED <<queue, event_log>>
  BY Sending DEF hostVars
<1>3. \A a \in DOMAIN streamed'[k] :
        \/ a \in DOMAIN streamed[k] /\ streamed'[k][a] = streamed[k][a]
        \/ /\ streamed'[k][a] = hand[k]
           /\ \A b \in DOMAIN streamed[k] : b < a
           /\ \A b \in DOMAIN streamed'[k] : ~ a < b
  BY Sending
<1>4. Taken(queue, event_log)'
  <2> SUFFICES ASSUME NEW j \in Clients
               PROVE  /\ ws'[j] = "sending" => Behind(queue, event_log, hand'[j])
                      /\ \A a \in DOMAIN streamed'[j] :
                           Behind(queue, event_log, streamed'[j][a])
    BY <1>2 DEF Taken, Behind
  <2>1. CASE j = k
    BY <1>1, <1>2, <1>3, <2>1 DEF Taken
  <2>2. CASE j # k
    BY <1>1, <1>2, <2>2 DEF Taken
  <2>3. QED
    BY <2>1, <2>2
<1>5. Apart'
  <2> SUFFICES ASSUME NEW i \in Clients, NEW j \in Clients
               PROVE  /\ ws'[i] = "sending" =>
                           /\ \A b \in DOMAIN streamed'[j] : streamed'[j][b] # hand'[i]
                           /\ ws'[j] = "sending" /\ j # i => hand'[j] # hand'[i]
                      /\ i # j => \A a \in DOMAIN streamed'[i], b \in DOMAIN streamed'[j] :
                                     streamed'[i][a] # streamed'[j][b]
    BY DEF Apart
  <2>1. CASE i = k
    BY <1>1, <1>2, <1>3, <2>1 DEF Apart
  <2>2. CASE j = k /\ i # k
    BY <1>1, <1>2, <1>3, <2>2 DEF Apart
  <2>3. CASE j # k /\ i # k
    BY <1>1, <1>2, <2>3 DEF Apart
  <2>4. QED
    BY <2>1, <2>2, <2>3
<1>6. Ordered(event_log)'
  BY <1>1, <1>2, <1>3 DEF Ordered
<1>7. QED
  BY <1>4, <1>5, <1>6

LEMMA StepStreaming ==
  ASSUME ControlOK, WsOK, Streaming(queue, event_log), [Next]_vars
  PROVE  Streaming(queue, event_log)'
<1>1. InQueues(queue, event_log) /\ InQueues(queue', event_log')
  BY StepInQueues DEF Streaming
<1>2. ASSUME NEW e \in EventRecord, Emits(e), UNCHANGED wsVars
      PROVE  Taken(queue, event_log)' /\ Apart' /\ Ordered(event_log)'
  <2>1. Streaming(Put(queue, event_log, e), Logged(event_log, e))
    BY PutStreaming
  <2>2. QED
    BY <1>2, <2>1 DEF Emits, Streaming, Taken, Behind, Apart, Ordered, wsVars
<1>3. ASSUME NEW e \in EventRecord, NEW f \in EventRecord, EmitsBoth(e, f),
             UNCHANGED wsVars
      PROVE  Taken(queue, event_log)' /\ Apart' /\ Ordered(event_log)'
  <2> DEFINE q == Put(queue, event_log, e)
             log == Logged(event_log, e)
  <2>1. Streaming(q, log)
    BY PutStreaming
  <2> HIDE DEF q, log
  <2>2. Streaming(Put(q, log, f), Logged(log, f))
    BY <2>1, PutStreaming
  <2>3. queue' = Put(q, log, f) /\ event_log' = Logged(log, f)
    BY <1>3 DEF EmitsBoth, q, log
  <2>4. QED
    BY <1>3, <2>2, <2>3 DEF Streaming, Taken, Behind, Apart, Ordered, wsVars
<1>4. ASSUME UNCHANGED <<queue, event_log>>
      PROVE  Taken(queue, event_log)' /\ Apart' /\ Ordered(event_log)'
  <2>1. CASE UNCHANGED wsVars
    BY <1>4, <2>1 DEF Streaming, Taken, Behind, Apart, Ordered, wsVars
  <2>2. ASSUME NEW k \in Clients, Connect(k) \/ Disconnect(k) \/ SendFails(k)
        PROVE  Taken(queue, event_log)' /\ Apart' /\ Ordered(event_log)'
    <3>1. /\ UNCHANGED streamed
          /\ \A j \in Clients : ws'[j] = "sending" =>
               ws[j] = "sending" /\ hand'[j] = hand[j]
      BY <2>2 DEF Connect, Disconnect, SendFails, WsOK
    <3>2. Taken(queue, event_log)'
      BY <1>4, <3>1 DEF Streaming, Taken, Behind
    <3>3. Apart'
      BY <1>4, <3>1 DEF Streaming, Apart
    <3>4. Ordered(event_log)'
      BY <1>4, <3>1 DEF Streaming, Ordered
    <3>5. QED
      BY <3>2, <3>3, <3>4
  <2>3. QED
    BY <2>1, <2>2, SentStreaming, PullStreaming
       DEF Next, WsStep, vars, InitAtOnce, InitReplaces, InitStops, InitResumes,
           AgentEmits, AgentExits
<1>5. QED
  BY <1>1, <1>2, <1>3, <1>4, LogMoves, PullStreaming DEF Streaming

(* In every reachable state, however many browsers come and go and however *)
(* hosts are replaced: what a browser got of a host it got once, and in    *)
(* the order of emission.                                                  *)
THEOREM OnceInOrder == Spec => []StreamedInOrder
<1> DEFINE Queues == InQueues(queue, event_log)
           Stream == Streaming(queue, event_log)
<1>1. Init => ControlOK /\ WsOK /\ Stream
  BY InitControl
     DEF Init, WsOK, WsPc, InQueues, Streaming, Taken, Apart, Ordered
<1>2. ControlOK /\ WsOK /\ Stream /\ [Next]_vars => ControlOK' /\ WsOK' /\ Stream'
  BY StepControl, StepWs, StepStreaming DEF Streaming
<1>3. Stream => StreamedInOrder
  BY DEF Streaming, Ordered, StreamedInOrder
<1>4. QED
  BY <1>1, <1>2, <1>3, PTL DEF Spec

------------------------------------------------------------------------------
(* The log, event by event: a host is logged once its request came to      *)
(* create it, and lets go of its agent as its end is logged.               *)
Ended(log, h) == \E n \in DOMAIN log : log[n].type = "AGENT_TERMINATED" /\ log[n].host = h

Over(log, n, m) ==
  \E r \in n .. m - 1 : /\ log[r].type = "AGENT_TERMINATED"
                        /\ log[r].host = log[n].host

Lives(log) ==
  \A n, m \in DOMAIN log : n < m => (log[m].host # log[n].host <=> Over(log, n, m))

(* Whose turn to speak it is: nobody else who did is yet to be ended.      *)
Turn(log, h) ==
  /\ ~ Ended(log, h)
  /\ \A n \in DOMAIN log : log[n].host # h => Ended(log, log[n].host)

Settled ==
  \A i \in Inits :
    /\ agent[i] \/ life[i] # "absent" => init[i] \in {"done", "raised"}
    /\ init[i] = "stopping" => init[target[i]] \in {"done", "raised"}

Created ==
  /\ \A n \in DOMAIN event_log : init[event_log[n].host] \in {"done", "raised"}
  /\ \A h \in Inits : Ended(event_log, h) => ~ agent[h]

LEMMA SettledStep == ControlOK /\ Settled /\ [Next]_vars => Settled'
<1> SUFFICES ASSUME ControlOK, Settled, [Next]_vars PROVE Settled'
  OBVIOUS
<1> USE DEF hostVars, initVars, wsVars
<1>1. CASE UNCHANGED <<agent, life, init, target>>
  BY <1>1 DEF Settled
<1>2. ASSUME NEW i \in Inits, NEW STATE q, NEW STATE log, Create(i, q, log),
             \A h \in Inits : agent'[h] => h = i \/ agent[h],
             init[i] \notin {"done", "raised"},
             target'[i] = None \/ UNCHANGED target,
             \A h \in Inits : h # i => target'[h] = target[h]
      PROVE  Settled'
  BY <1>2, CreateControl DEF Settled, ControlOK
<1>3. ASSUME NEW i \in Inits, InitAtOnce(i)
      PROVE  Settled'
  BY <1>2, <1>3 DEF InitAtOnce, Begins, ControlOK
<1>4. ASSUME NEW i \in Inits, InitReplaces(i)
      PROVE  Settled'
  BY <1>2, <1>4 DEF InitReplaces, Supersede, Begins, ControlOK
<1>5. ASSUME NEW i \in Inits, InitResumes(i)
      PROVE  Settled'
  BY <1>2, <1>5 DEF InitResumes, Supersede, ControlOK
<1>6. ASSUME NEW i \in Inits, InitStops(i)
      PROVE  Settled'
  <2>1. /\ host \in Inits /\ host # i /\ init[host] \in {"done", "raised"}
        /\ target'[i] = host /\ init'[i] = "stopping" /\ UNCHANGED agent
        /\ init[i] = "idle" /\ life[i] = "absent" /\ ~ agent[i]
        /\ \A j \in Inits : j # i => init'[j] = init[j] /\ target'[j] = target[j]
        /\ \A j \in Inits : j # host => life'[j] = life[j]
    BY <1>6 DEF InitStops, Begins, ControlOK, Settled
  <2>2. QED
    BY <2>1 DEF Settled, ControlOK
<1>7. ASSUME NEW h \in Inits, AgentExits(h)
      PROVE  Settled'
  BY <1>7 DEF AgentExits, Settled, ControlOK
<1>8. QED
  BY <1>1, <1>3, <1>4, <1>5, <1>6, <1>7
     DEF Next, AgentEmits, Connect, Disconnect, WsStep, Pull, Sent, SendFails, vars

LEMMA LogsOne ==
  ASSUME NEW log \in Seq(EventRecord), NEW e \in EventRecord
  PROVE  /\ Logged(log, e) \in Seq(EventRecord)
         /\ \A n \in DOMAIN Logged(log, e) :
              (n \in DOMAIN log /\ Logged(log, e)[n] = log[n]) \/ Logged(log, e)[n] = e
         /\ \A h : Ended(Logged(log, e), h) =>
              Ended(log, h) \/ (h = e.host /\ e.type = "AGENT_TERMINATED")
         /\ \A h : Ended(log, h) => Ended(Logged(log, e), h)
         /\ (Lives(log) /\ Turn(log, e.host)) => Lives(Logged(log, e))
<1> DEFINE u == Logged(log, e)
<1>1. /\ Len(log) \in Nat /\ u \in Seq(EventRecord) /\ Len(u) = Len(log) + 1
      /\ DOMAIN u = 1 .. Len(log) + 1 /\ DOMAIN log = 1 .. Len(log)
      /\ u[Len(log) + 1] = e
      /\ \A n \in 1 .. Len(log) : u[n] = log[n]
  BY DEF Logged
<1> HIDE DEF u
<1>2. \A n \in DOMAIN u :
        \/ n \in DOMAIN log /\ u[n] = log[n]
        \/ n = Len(log) + 1 /\ u[n] = e
  <2>1. \A n \in 1 .. Len(log) + 1 : n \in 1 .. Len(log) \/ n = Len(log) + 1
    BY <1>1
  <2>2. QED
    BY <1>1, <2>1
<1>3. \A h : Ended(u, h) =>
              Ended(log, h) \/ (h = e.host /\ e.type = "AGENT_TERMINATED")
  BY <1>2 DEF Ended
<1>4. \A h : Ended(log, h) => Ended(u, h)
  BY <1>1 DEF Ended
<1>5. ASSUME Lives(log), Turn(log, e.host)
      PROVE  Lives(u)
  <2> SUFFICES ASSUME NEW n \in 1 .. Len(log) + 1, NEW m \in 1 .. Len(log) + 1, n < m
               PROVE  u[m].host # u[n].host <=> Over(u, n, m)
    BY <1>1 DEF Lives
  <2>1. /\ n \in 1 .. Len(log) /\ n \in DOMAIN log /\ n \in Nat /\ m \in Nat
        /\ u[n] = log[n]
        /\ m \in 1 .. Len(log) \/ m = Len(log) + 1
    BY <1>1
  <2>2. Over(u, n, m) <=> Over(log, n, m)
    <3>1. \A x \in n .. m - 1 : x \in 1 .. Len(log)
      BY <1>1, <2>1
    <3>2. \A x \in n .. m - 1 : u[x] = log[x]
      BY <1>1, <3>1
    <3>3. QED
      BY <2>1, <3>2 DEF Over
  <2>3. CASE m \in 1 .. Len(log)
    <3>1. u[m] = log[m] /\ m \in DOMAIN log
      BY <1>1, <2>3
    <3>2. log[m].host # log[n].host <=> Over(log, n, m)
      BY <1>5, <2>1, <3>1 DEF Lives
    <3>3. QED
      BY <2>1, <2>2, <3>1, <3>2
  <2>4. CASE m = Len(log) + 1
    <3>1. u[m] = e
      BY <1>1, <2>4
    <3>2. ASSUME log[n].host # e.host
          PROVE  Over(log, n, m)
      <4>1. PICK r \in DOMAIN log : /\ log[r].type = "AGENT_TERMINATED"
                                    /\ log[r].host = log[n].host
        BY <1>5, <2>1, <3>2 DEF Turn, Ended
      <4>2. r \in 1 .. Len(log) /\ r \in Nat
        BY <1>1, <4>1
      (* An end before n would have made n somebody else's. *)
      <4>3. ~ r < n
        <5>1. ASSUME r < n PROVE Over(log, r, n)
          <6>1. r \in r .. n - 1
            BY <2>1, <4>2, <5>1
          <6>2. QED
            BY <4>1, <6>1 DEF Over
        <5>2. QED
          BY <1>5, <2>1, <4>1, <5>1 DEF Lives
      <4>4. r \in n .. m - 1
        BY <1>1, <2>1, <2>4, <4>2, <4>3
      <4>5. QED
        BY <4>1, <4>4 DEF Over
    <3>3. ASSUME Over(log, n, m)
          PROVE  log[n].host # e.host
      <4>1. PICK r \in n .. m - 1 : /\ log[r].type = "AGENT_TERMINATED"
                                    /\ log[r].host = log[n].host
        BY <3>3 DEF Over
      <4>2. r \in DOMAIN log
        BY <1>1, <2>1, <2>4, <4>1
      <4>3. QED
        BY <1>5, <4>1, <4>2 DEF Turn, Ended
    <3>4. QED
      BY <2>1, <2>2, <3>1, <3>2, <3>3
  <2>5. QED
    BY <2>1, <2>3, <2>4
<1>6. QED
  BY <1>1, <1>2, <1>3, <1>4, <1>5 DEF u

(* As long as requests do not overlap, who has spoken and has not been     *)
(* ended is the agent of the global host.                                  *)
Quiet ==
  \A n \in DOMAIN event_log :
    \/ Ended(event_log, event_log[n].host)
    \/ event_log[n].host = host /\ agent[host]

Good == ~ overlapped => Quiet /\ Lives(event_log)

(* The log after a step, whose steps are now told apart by who emits.      *)
LEMMA StepLog ==
  ASSUME ControlOK, Sequential, Settled, Created, Good, event_log \in Seq(EventRecord),
         overlapped => overlapped', [Next]_vars
  PROVE  Created' /\ Good'
<1> USE DEF hostVars, initVars, wsVars
<1> DEFINE Goal == Created' /\ Good'
<1>1. CASE UNCHANGED <<host, agent, init, overlapped, event_log>>
  BY <1>1 DEF Created, Good, Quiet, Lives, Over, Ended
<1>2. \A h \in Inits, type \in EventType :
        /\ Event(h, type) \in EventRecord
        /\ Event(h, type).host = h /\ Event(h, type).type = type
  BY DEF Event, EventRecord
<1>3. \A n \in DOMAIN event_log : event_log[n].host \in Inits
  BY HostsLogged
(* The creation of a host with no event before, or that of the last end.   *)
<1>4. ASSUME NEW i \in Inits, NEW STATE q, NEW STATE log, Create(i, q, log),
             log \in Seq(EventRecord),
             agent' = [h \in Inits |-> h = i \/ (agent[h] /\ ~ Ended(log, h))],
             init[i] \notin {"done", "raised"},
             \A n \in DOMAIN log : log[n].host \in Inits /\ init[log[n].host] \in {"done", "raised"},
             ~ overlapped' => /\ Lives(log)
                              /\ \A n \in DOMAIN log : Ended(log, log[n].host)
      PROVE  Goal
  <2> DEFINE e == Event(i, "AGENT_STARTED")
  <2>1. e \in EventRecord /\ e.host = i /\ e.type # "AGENT_TERMINATED"
    BY <1>2 DEF EventType
  <2> HIDE DEF e
  <2>2. ~ Ended(log, i)
    BY <1>4 DEF Ended
  <2>3. /\ \A n \in DOMAIN event_log' :
             (n \in DOMAIN log /\ event_log'[n] = log[n]) \/ event_log'[n].host = i
        /\ \A h \in Inits : Ended(event_log', h) => Ended(log, h)
        /\ \A h \in Inits : Ended(log, h) => Ended(event_log', h)
        /\ ~ overlapped' => Lives(event_log')
    <3>1. CASE event_log' = log
      BY <1>4, <3>1
    <3>2. CASE event_log' = Logged(log, e)
      <4>1. /\ \A n \in DOMAIN event_log' :
                  (n \in DOMAIN log /\ event_log'[n] = log[n]) \/ event_log'[n] = e
            /\ \A h : Ended(event_log', h) => Ended(log, h)
            /\ \A h : Ended(log, h) => Ended(event_log', h)
            /\ Lives(log) /\ Turn(log, i) => Lives(event_log')
        BY <1>4, <2>1, <3>2, LogsOne
      <4>2. ~ overlapped' => Turn(log, i)
        BY <1>4, <2>2 DEF Turn
      <4>3. QED
        BY <1>4, <2>1, <4>1, <4>2
    <3>3. QED
      BY <1>4, <3>1, <3>2 DEF Create, e
  <2>4. init'[i] \in {"done", "raised"} /\ \A j \in Inits : j # i => init'[j] = init[j]
    BY <1>4, CreateControl
  <2>5. \A h \in Inits : agent'[h] => h = i \/ (agent[h] /\ ~ Ended(log, h))
    BY <1>4
  <2>6. Created'
    BY <1>4, <2>2, <2>3, <2>4, <2>5 DEF Created
  <2>7. ~ overlapped' => Quiet'
    <3>1. host' = i /\ agent'[i]
      BY <1>4, CreateControl
    <3>2. QED
      BY <1>4, <2>3, <3>1 DEF Quiet
  <2>8. QED
    BY <2>3, <2>6, <2>7 DEF Good
<1>5. ASSUME NEW i \in Inits, InitAtOnce(i)
      PROVE  Goal
  <2>1. agent' = [h \in Inits |-> h = i \/ (agent[h] /\ ~ Ended(event_log, h))]
    BY <1>5 DEF InitAtOnce, ControlOK, Created, Settled
  <2>2. Create(i, queue, event_log) /\ init[i] = "idle"
    BY <1>5 DEF InitAtOnce, Begins
  <2>3. ~ overlapped' => /\ Lives(event_log)
                         /\ \A n \in DOMAIN event_log :
                              Ended(event_log, event_log[n].host)
    BY <1>3, <1>5, NoneAssumption DEF InitAtOnce, Good, Quiet
  <2>4. QED
    BY <1>3, <1>4, <2>1, <2>2, <2>3 DEF Created
<1>6. ASSUME NEW i \in Inits, NEW h \in Inits, Supersede(h, i),
             init[i] \notin {"done", "raised"}, init[h] \in {"done", "raised"},
             ~ overlapped' => h = host /\ agent[h]
      PROVE  Goal
  <2> DEFINE e == Event(h, "AGENT_TERMINATED")
             log == Logged(event_log, e)
             q == Put(queue, event_log, e)
  <2>1. e \in EventRecord /\ e.host = h /\ e.type = "AGENT_TERMINATED"
    BY <1>2 DEF EventType
  <2>2. Create(i, q, log) /\ agent' = [agent EXCEPT ![h] = FALSE, ![i] = TRUE]
    BY <1>6 DEF Supersede
  <2> HIDE DEF e
  <2>3. /\ log \in Seq(EventRecord)
        /\ \A n \in DOMAIN log :
             (n \in DOMAIN event_log /\ log[n] = event_log[n]) \/ log[n] = e
        /\ \A g : Ended(log, g) => Ended(event_log, g) \/ g = h
        /\ \A g : Ended(event_log, g) => Ended(log, g)
        /\ (Lives(event_log) /\ Turn(event_log, h)) => Lives(log)
    BY <2>1, LogsOne
  <2>4. Ended(log, h)
    <3>1. Len(event_log) + 1 \in DOMAIN log /\ log[Len(event_log) + 1] = e
      BY <2>1, Appended DEF Logged
    <3>2. QED
      BY <2>1, <3>1 DEF Ended
  <2> HIDE DEF log, q
  <2>5. \A n \in DOMAIN log : log[n].host \in Inits /\ init[log[n].host] \in {"done", "raised"}
    BY <1>3, <1>6, <2>1, <2>3 DEF Created
  <2>6. ~ overlapped' => /\ Lives(log)
                         /\ \A n \in DOMAIN log : Ended(log, log[n].host)
    <3> SUFFICES ASSUME ~ overlapped'
                 PROVE  /\ Lives(log)
                        /\ \A n \in DOMAIN log : Ended(log, log[n].host)
      OBVIOUS
    <3>1. /\ Quiet /\ Lives(event_log)
          /\ h = host /\ agent[h] /\ ~ Ended(event_log, h)
      BY <1>6 DEF Good, Created
    <3>2. Turn(event_log, h)
      BY <3>1 DEF Quiet, Turn
    <3>3. \A n \in DOMAIN log : Ended(log, log[n].host)
      BY <2>1, <2>3, <2>4, <3>1 DEF Quiet
    <3>4. QED
      BY <2>3, <3>1, <3>2, <3>3
  <2>7. agent' = [g \in Inits |-> g = i \/ (agent[g] /\ ~ Ended(log, g))]
    <3>1. \A g \in Inits : agent'[g] = (g = i \/ (agent[g] /\ ~ Ended(log, g)))
      BY <1>6, <2>2, <2>3, <2>4 DEF Created, Settled, ControlOK
    <3>2. agent' \in [Inits -> BOOLEAN]
      BY <2>2 DEF ControlOK
    <3>3. QED
      BY <3>1, <3>2
  <2>8. QED
    BY <1>4, <1>6, <2>2, <2>3, <2>5, <2>6, <2>7
<1>7. ASSUME NEW i \in Inits, InitReplaces(i)
      PROVE  Goal
  <2>1. host \in Inits /\ agent[host] /\ init[i] = "idle" /\ Supersede(host, i)
    BY <1>7 DEF InitReplaces, Begins, ControlOK
  <2>2. QED
    BY <1>6, <2>1 DEF Settled
<1>8. ASSUME NEW i \in Inits, InitResumes(i)
      PROVE  Goal
  <2>1. /\ target[i] \in Inits /\ init[target[i]] \in {"done", "raised"}
        /\ init[i] = "stopping" /\ Supersede(target[i], i)
    BY <1>8 DEF InitResumes, ControlOK, Settled
  <2>2. ~ overlapped' => target[i] = host /\ agent[target[i]]
    BY <1>8, <2>1 DEF InitResumes, Sequential, OneStopping
  <2>3. QED
    BY <1>6, <2>1, <2>2
<1>9. ASSUME NEW i \in Inits, InitStops(i)
      PROVE  Goal
  <2>1. /\ init[i] = "idle" /\ UNCHANGED <<host, agent, event_log>>
        /\ \A j \in Inits : j # i => init'[j] = init[j]
    BY <1>9 DEF InitStops, Begins, ControlOK
  <2>2. Created'
    BY <1>3, <2>1 DEF Created
  <2>3. Good'
    BY <2>1 DEF Good, Quiet, Lives, Over, Ended
  <2>4. QED
    BY <2>2, <2>3
<1>10. ASSUME NEW h \in Inits, AgentEmits(h)
       PROVE  Goal
  <2> DEFINE e == Event(h, "ANSWER")
  <2>1. e \in EventRecord /\ e.host = h /\ e.type # "AGENT_TERMINATED"
    BY <1>2 DEF EventType
  <2>2. /\ event_log' = Logged(event_log, e)
        /\ UNCHANGED <<host, agent, init, overlapped>>
    BY <1>10 DEF AgentEmits
  <2>3. ~ overlapped => h = host /\ agent[h]
    BY <1>10 DEF AgentEmits, Sequential, Alone
  <2>4. init[h] \in {"done", "raised"}
    BY <1>10 DEF AgentEmits, Settled
  <2> HIDE DEF e
  <2>5. /\ \A n \in DOMAIN event_log' :
             \/ n \in DOMAIN event_log /\ event_log'[n] = event_log[n]
             \/ event_log'[n] = e
        /\ \A g : Ended(event_log', g) <=> Ended(event_log, g)
        /\ Lives(event_log) /\ Turn(event_log, h) => Lives(event_log')
    BY <2>1, <2>2, LogsOne
  <2>6. Created'
    BY <2>1, <2>2, <2>4, <2>5 DEF Created
  <2>7. Good'
    <3> SUFFICES ASSUME ~ overlapped' PROVE Quiet' /\ Lives(event_log')
      BY DEF Good
    <3>1. /\ Quiet /\ Lives(event_log)
          /\ h = host /\ agent[h] /\ ~ Ended(event_log, h)
      BY <2>2, <2>3 DEF Good, Created
    <3>2. Turn(event_log, h)
      BY <3>1 DEF Quiet, Turn
    <3>3. Quiet'
      BY <2>1, <2>2, <2>5, <3>1 DEF Quiet
    <3>4. QED
      BY <2>5, <3>1, <3>2, <3>3
  <2>8. QED
    BY <2>6, <2>7
<1>11. QED
  BY <1>1, <1>5, <1>7, <1>8, <1>9, <1>10
     DEF Next, AgentExits, Connect, Disconnect, WsStep, Pull, Sent, SendFails, vars

(* In every reachable state, as long as requests to initialise have not    *)
(* overlapped, the log goes from one agent to another exactly where the    *)
(* first is reported terminated.                                           *)
THEOREM OneLifeAfterAnother == Spec => []LivesFollowEachOther
<1> DEFINE Logs == event_log \in Seq(EventRecord)
<1>1. Init => Settled /\ Created /\ Good
  BY DEF Init, Settled, Created, Ended, Good, Quiet, Lives
<1>2. /\ ControlOK /\ Sequential /\ Settled /\ Created /\ Logs /\ Good
      /\ [Next]_vars
      => (Settled' /\ Created' /\ Good')
  <2> SUFFICES ASSUME ControlOK, Sequential, Settled, Created, Logs, Good, [Next]_vars
               PROVE  Settled' /\ Created' /\ Good'
    OBVIOUS
  <2>1. overlapped => overlapped'
    BY DEF Next, vars, hostVars, initVars, wsVars, Begins, InitAtOnce, InitReplaces,
           InitStops, InitResumes, AgentEmits, AgentExits, Connect, Disconnect,
           WsStep, Pull, Sent, SendFails
  <2>2. QED
    BY <2>1, SettledStep, StepLog
<1>3. TypeOK => Logs
  BY DEF TypeOK, EventRecord
<1>4. Good => LivesFollowEachOther
  BY DEF Good, Lives, Over, LivesFollowEachOther
<1>5. QED
  BY <1>1, <1>2, <1>3, <1>4, AlwaysSequential, Typing, PTL DEF Spec

------------------------------------------------------------------------------
(* Where the events are: in a queue, in an endpoint's hand, with a         *)
(* browser, or lost.                                                       *)
Waiting(q) == UNION {Range(q[h]) : h \in Inits}
InHand == {hand[k] : k \in {j \in Clients : ws[j] = "sending"}}
Arrived == UNION {Range(streamed[k]) : k \in Clients}
Lost(q, log) == DOMAIN log \ (Waiting(q) \cup InHand \cup Arrived)
Closed == {k \in Clients : ws[k] = "closed"}

LEMMA Places ==
  ASSUME NEW n, NEW q
  PROVE  /\ n \in Waiting(q) <=> \E h \in Inits : \E a \in DOMAIN q[h] : n = q[h][a]
         /\ n \in InHand <=> \E k \in Clients : ws[k] = "sending" /\ n = hand[k]
         /\ n \in Arrived <=>
              \E k \in Clients : \E a \in DOMAIN streamed[k] : n = streamed[k][a]
  BY DEF Waiting, InHand, Arrived, Range

(* An event is put in the queue of its host as it is logged.               *)
LEMMA PutLoses ==
  ASSUME NEW STATE q, NEW STATE log, Streaming(q, log), NEW e \in EventRecord
  PROVE  Lost(Put(q, log, e), Logged(log, e)) = Lost(q, log)
<1> DEFINE new == Len(log) + 1
           p == Put(q, log, e)
<1>1. /\ Len(log) \in Nat /\ DOMAIN log = 1 .. Len(log)
      /\ DOMAIN Logged(log, e) = 1 .. Len(log) + 1
  BY Appended DEF Streaming, InQueues, Logged
<1>2. DOMAIN Logged(log, e) = DOMAIN log \cup {new} /\ new \notin DOMAIN log
  BY <1>1
<1>3. e.host \in Inits
  BY DEF EventRecord
<1>4. /\ p[e.host] = Append(q[e.host], new)
      /\ \A h \in Inits : h # e.host => p[h] = q[h]
      /\ q[e.host] \in Seq(Nat) /\ new \in Nat
  BY <1>1, <1>3, Putting DEF Streaming, InQueues
<1>5. Range(p[e.host]) = Range(q[e.host]) \cup {new}
  <2> DEFINE s == q[e.host]
             t == p[e.host]
  <2>1. /\ Len(s) \in Nat /\ DOMAIN t = 1 .. Len(s) + 1 /\ DOMAIN s = 1 .. Len(s)
        /\ t[Len(s) + 1] = new /\ \A n \in 1 .. Len(s) : t[n] = s[n]
    BY <1>4, Appended
  <2>2. \A n \in DOMAIN t : n \in DOMAIN s \/ n = Len(s) + 1
    BY <2>1
  <2>3. \A n \in DOMAIN s : n \in DOMAIN t
    BY <2>1
  <2>4. Len(s) + 1 \in DOMAIN t
    BY <2>1
  <2> HIDE DEF s, t
  <2>5. QED
    BY <2>1, <2>2, <2>3, <2>4 DEF Range, s, t
<1> HIDE DEF p
<1>6. Waiting(p) = Waiting(q) \cup {new}
  <2>1. \A h \in Inits : Range(q[h]) \subseteq Range(p[h])
    BY <1>4, <1>5
  <2>2. \A h \in Inits : Range(p[h]) \subseteq Range(q[h]) \cup {new}
    BY <1>4, <1>5
  <2>3. new \in Range(p[e.host])
    BY <1>5
  <2>4. ASSUME NEW n PROVE n \in Waiting(p) <=> \E h \in Inits : n \in Range(p[h])
    BY DEF Waiting
  <2>5. ASSUME NEW n PROVE n \in Waiting(q) <=> \E h \in Inits : n \in Range(q[h])
    BY DEF Waiting
  <2> HIDE DEF new
  <2>6. QED
    BY <1>3, <2>1, <2>2, <2>3, <2>4, <2>5
<1>7. new \notin InHand /\ new \notin Arrived
  BY <1>2, Places DEF Streaming, Taken, Behind
<1> HIDE DEF new
<1>8. QED
  BY <1>2, <1>6, <1>7 DEF Lost, p

(* Nothing is lost as an endpoint takes an event from a queue.             *)
LEMMA PullLoses ==
  ASSUME WsOK, Streaming(queue, event_log), NEW k \in Clients, Pull(k)
  PROVE  UNCHANGED <<Lost(queue, event_log), Closed>>
<1> DEFINE h == source[k]
           n == hand'[k]
<1>1. InQueues(queue, event_log)
  BY DEF Streaming
<1>2. /\ h \in Inits /\ 1 \in DOMAIN queue[h] /\ queue[h][1] = n
      /\ \A g \in Inits : g # h => queue'[g] = queue[g]
      /\ \A a \in DOMAIN queue'[h] :
           a + 1 \in DOMAIN queue[h] /\ queue'[h][a] = queue[h][a + 1]
      /\ \A a \in DOMAIN queue[h] :
           a = 1 \/ (a - 1 \in DOMAIN queue'[h] /\ queue'[h][a - 1] = queue[h][a])
  BY <1>1, Pulling
<1>3. /\ ws[k] = "pulling" /\ ws'[k] = "sending"
      /\ \A j \in Clients : j # k => ws'[j] = ws[j] /\ hand'[j] = hand[j]
      /\ UNCHANGED <<event_log, streamed>>
  BY DEF Pull, WsOK
<1> HIDE DEF n, h
<1>4. Waiting(queue) = Waiting(queue') \cup {n}
  <2>1. Range(queue[h]) = Range(queue'[h]) \cup {n}
    BY <1>2 DEF Range
  <2>2. ASSUME NEW m PROVE m \in Waiting(queue) <=> \E g \in Inits : m \in Range(queue[g])
    BY DEF Waiting
  <2>3. ASSUME NEW m PROVE m \in Waiting(queue') <=> \E g \in Inits : m \in Range(queue'[g])
    BY DEF Waiting
  <2>4. QED
    BY <1>2, <2>1, <2>2, <2>3
<1>5. InHand' = InHand \cup {n}
  BY <1>3 DEF InHand, n
<1>6. UNCHANGED <<Arrived, Closed>>
  BY <1>3 DEF Arrived, Closed
<1>7. QED
  BY <1>3, <1>4, <1>5, <1>6 DEF Lost

(* Nor as it sends it.                                                     *)
LEMMA SentLoses ==
  ASSUME WsOK, NEW k \in Clients, Sent(k)
  PROVE  UNCHANGED <<Lost(queue, event_log), Closed>>
<1> DEFINE n == hand[k]
<1>1. /\ ws[k] = "sending" /\ ws'[k] = "pulling"
      /\ \A j \in Clients : j # k =>
           ws'[j] = ws[j] /\ hand'[j] = hand[j] /\ streamed'[j] = streamed[j]
      /\ UNCHANGED hostVars
      /\ streamed'[k] = Append(streamed[k], n)
      /\ streamed[k] \in Seq(Nat) /\ n \in Nat
  BY DEF Sent, WsOK
<1>2. Range(streamed'[k]) = Range(streamed[k]) \cup {n}
  <2> DEFINE s == streamed[k]
             t == streamed'[k]
  <2>1. /\ Len(s) \in Nat /\ DOMAIN t = 1 .. Len(s) + 1 /\ DOMAIN s = 1 .. Len(s)
        /\ t[Len(s) + 1] = n /\ \A a \in 1 .. Len(s) : t[a] = s[a]
    BY <1>1, Appended
  <2>2. \A a \in DOMAIN t : a \in DOMAIN s \/ a = Len(s) + 1
    BY <2>1
  <2>3. \A a \in DOMAIN s : a \in DOMAIN t
    BY <2>1
  <2>4. Len(s) + 1 \in DOMAIN t
    BY <2>1
  <2> HIDE DEF s, t
  <2>5. QED
    BY <2>1, <2>2, <2>3, <2>4 DEF Range, s, t
<1>3. InHand = InHand' \cup {n}
  BY <1>1 DEF InHand
<1>4. Arrived' = Arrived \cup {n}
  <2>1. ASSUME NEW m PROVE m \in Arrived <=> \E j \in Clients : m \in Range(streamed[j])
    BY DEF Arrived
  <2>2. ASSUME NEW m PROVE m \in Arrived' <=> \E j \in Clients : m \in Range(streamed'[j])
    BY DEF Arrived
  <2>3. QED
    BY <1>1, <1>2, <2>1, <2>2
<1>5. UNCHANGED Closed /\ UNCHANGED <<queue, event_log>>
  BY <1>1 DEF Closed, hostVars
<1>6. QED
  BY <1>3, <1>4, <1>5 DEF Lost, Waiting

(* As a connection breaks, what its endpoint held is lost, and only that.  *)
LEMMA FailLoses ==
  ASSUME WsOK, Streaming(queue, event_log), NEW k \in Clients, SendFails(k)
  PROVE  /\ Lost(queue, event_log)' = Lost(queue, event_log) \cup {hand[k]}
         /\ hand[k] \notin Lost(queue, event_log)
         /\ Closed' = Closed \cup {k} /\ k \notin Closed
<1> DEFINE n == hand[k]
<1>1. /\ ws[k] = "sending" /\ ws'[k] = "closed"
      /\ \A j \in Clients : j # k => ws'[j] = ws[j] /\ hand'[j] = hand[j]
      /\ UNCHANGED <<queue, event_log, streamed>>
  BY DEF SendFails, WsOK, hostVars
<1>2. Behind(queue, event_log, n) /\ n \in Nat
  BY <1>1 DEF Streaming, Taken, WsOK
<1>3. n \notin Waiting(queue)
  <2>1. ASSUME NEW h \in Inits, NEW a \in DOMAIN queue[h], n = queue[h][a]
        PROVE  FALSE
    <3>1. event_log[n].host = h
      BY <2>1 DEF Streaming, InQueues
    <3>2. n < queue[h][a]
      BY <1>2, <2>1, <3>1 DEF Behind
    <3>3. QED
      BY <1>2, <2>1, <3>2
  <2>2. QED
    BY <2>1, Places
<1>4. n \notin Arrived
  <2>1. \A j \in Clients : \A b \in DOMAIN streamed[j] : streamed[j][b] # n
    BY <1>1 DEF Streaming, Apart
  <2>2. n \in Arrived <=>
          \E j \in Clients : \E b \in DOMAIN streamed[j] : n = streamed[j][b]
    BY Places
  <2>3. QED
    BY <2>1, <2>2
<1>5. InHand = InHand' \cup {n} /\ n \notin InHand'
  BY <1>1 DEF InHand, Streaming, Apart
<1>6. n \in DOMAIN event_log /\ n \in InHand
  BY <1>2, <1>5 DEF Behind
<1>7. UNCHANGED <<Arrived, queue, event_log>>
  BY <1>1 DEF Arrived
<1>8. Lost(queue, event_log)' = Lost(queue, event_log) \cup {n}
  BY <1>3, <1>4, <1>5, <1>6, <1>7 DEF Lost, Waiting
<1>9. QED
  BY <1>1, <1>6, <1>8 DEF Lost, Closed

LEMMA StepLoses ==
  ASSUME ControlOK, WsOK, Streaming(queue, event_log), [Next]_vars
  PROVE  \/ UNCHANGED <<Lost(queue, event_log), Closed>>
         \/ \E k \in Clients : SendFails(k)
<1>1. ASSUME NEW e \in EventRecord, Emits(e), UNCHANGED wsVars
      PROVE  UNCHANGED <<Lost(queue, event_log), Closed>>
  <2>1. Lost(Put(queue, event_log, e), Logged(event_log, e)) = Lost(queue, event_log)
    BY PutLoses
  <2>2. QED
    BY <1>1, <2>1 DEF Emits, Lost, InHand, Arrived, Closed, wsVars
<1>2. ASSUME NEW e \in EventRecord, NEW f \in EventRecord, EmitsBoth(e, f),
             UNCHANGED wsVars
      PROVE  UNCHANGED <<Lost(queue, event_log), Closed>>
  <2> DEFINE q == Put(queue, event_log, e)
             log == Logged(event_log, e)
  <2>1. Streaming(q, log) /\ Lost(q, log) = Lost(queue, event_log)
    BY PutStreaming, PutLoses
  <2> HIDE DEF q, log
  <2>2. Lost(Put(q, log, f), Logged(log, f)) = Lost(q, log)
    BY <2>1, PutLoses
  <2>3. queue' = Put(q, log, f) /\ event_log' = Logged(log, f)
    BY <1>2 DEF EmitsBoth, q, log
  <2>4. QED
    BY <1>2, <2>1, <2>2, <2>3 DEF Lost, InHand, Arrived, Closed, wsVars
<1>3. ASSUME UNCHANGED <<queue, event_log>>
      PROVE  \/ UNCHANGED <<Lost(queue, event_log), Closed>>
             \/ \E k \in Clients : SendFails(k) \/ Pull(k)
  <2>1. CASE UNCHANGED wsVars
    BY <1>3, <2>1 DEF Lost, Waiting, InHand, Arrived, Closed, wsVars
  <2>2. ASSUME NEW k \in Clients, Connect(k) \/ Disconnect(k)
        PROVE  UNCHANGED <<Lost(queue, event_log), Closed>>
    <3>1. /\ UNCHANGED <<streamed, hand>>
          /\ \A j \in Clients : /\ ws'[j] = "sending" <=> ws[j] = "sending"
                                /\ ws'[j] = "closed" <=> ws[j] = "closed"
      BY <2>2 DEF Connect, Disconnect, WsOK
    <3>2. UNCHANGED <<InHand, Arrived, Closed>>
      BY <3>1 DEF InHand, Arrived, Closed
    <3>3. QED
      BY <1>3, <3>2 DEF Lost, Waiting
  <2>3. QED
    BY <2>1, <2>2, SentLoses
       DEF Next, WsStep, vars, InitAtOnce, InitReplaces, InitStops, InitResumes,
           AgentEmits, AgentExits
<1>4. QED
  BY <1>1, <1>2, <1>3, LogMoves, PullLoses

(* In every reachable state as many events are lost as connections broke,  *)
(* and every other event is in a queue, in an endpoint's hand or with a    *)
(* browser, however hosts are replaced.                                    *)
THEOREM Conserved == Spec => []EventsConserved
<1> DEFINE Queues == InQueues(queue, event_log)
           Stream == Streaming(queue, event_log)
           Gone == Lost(queue, event_log)
           Even == Cardinality(Gone) = Cardinality(Closed)
<1>1. Init => ControlOK /\ WsOK /\ Stream
  BY InitControl
     DEF Init, WsOK, WsPc, InQueues, Streaming, Taken, Apart, Ordered
<1>2. ControlOK /\ WsOK /\ Stream /\ [Next]_vars => ControlOK' /\ WsOK' /\ Stream'
  BY StepControl, StepWs, StepStreaming DEF Streaming
<1>3. Init => Even
  <2> SUFFICES ASSUME Init PROVE Gone = {} /\ Closed = {}
    OBVIOUS
  <2>1. QED
    BY DEF Init, Lost, Closed
<1>4. ControlOK /\ WsOK /\ Stream /\ Even /\ [Next]_vars => Even'
  <2> SUFFICES ASSUME ControlOK, WsOK, Stream, Even, [Next]_vars
               PROVE  Even'
    OBVIOUS
  <2>1. ASSUME NEW k \in Clients, SendFails(k)
        PROVE  Even'
    <3>1. /\ Gone' = Gone \cup {hand[k]} /\ hand[k] \notin Gone
          /\ Closed' = Closed \cup {k} /\ k \notin Closed
      BY <2>1, FailLoses
    <3>2. IsFiniteSet(Closed)
      BY ClientsAssumption, FS_Subset DEF Closed
    <3>3. IsFiniteSet(Gone)
      <4>1. Len(event_log) \in Nat /\ DOMAIN event_log = 1 .. Len(event_log)
        BY DEF Streaming, InQueues
      <4>2. IsFiniteSet(1 .. Len(event_log))
        BY <4>1, FS_Interval
      <4>3. Gone \subseteq 1 .. Len(event_log)
        BY <4>1 DEF Lost
      <4>4. QED
        BY <4>2, <4>3, FS_Subset
    <3> HIDE DEF Gone
    <3>4. /\ Cardinality(Gone \cup {hand[k]}) = Cardinality(Gone) + 1
          /\ Cardinality(Closed \cup {k}) = Cardinality(Closed) + 1
      BY <3>1, <3>2, <3>3, FS_AddElement
    <3>5. QED
      BY <3>1, <3>4
  <2>2. QED
    BY <2>1, StepLoses
<1>5. Even => EventsConserved
  BY DEF EventsConserved, Lost, Waiting, InHand, Arrived, Closed
<1>6. QED
  BY <1>1, <1>2, <1>3, <1>4, <1>5, PTL DEF Spec

------------------------------------------------------------------------------
(* The agents.  What a log tells of one of them, where it stands, and how  *)
(* that changes when an event is logged.                                   *)
Told(log, h) == [n \in {m \in DOMAIN log : log[m].host = h} |-> log[n].type]
Adds(before, after, type) ==
  \E now \in DOMAIN after \cap Nat :
    /\ \A n \in DOMAIN before : n < now
    /\ after = [n \in DOMAIN before \cup {now} |-> IF n = now THEN type ELSE before[n]]

LoopOf(h) == CASE life[h] \in {"absent", "broken"} -> "absent"
               [] life[h] \in {"live", "leaving"} -> "running"
               [] life[h] = "exited" -> "ended"
AskedOf(h) == life[h] \in {"leaving", "exited"} \/ (life[h] = "broken" /\ ~ agent[h])
OverOf(h) == life[h] # "absent" /\ ~ agent[h]

LEMMA Views ==
  ASSUME NEW g \in Inits
  PROVE  /\ (/\ LoopOf(g)' = LoopOf(g) /\ AskedOf(g)' = AskedOf(g)
             /\ OverOf(g)' = OverOf(g) /\ Told(event_log', g) = Told(event_log, g))
           => UNCHANGED Hosted(g)!vars
         /\ \A type : Hosted(g)!Says(type)
                        <=> Adds(Told(event_log, g), Told(event_log', g), type)
  BY DEF Hosted!vars, Hosted!Says, Told, Adds, LoopOf, AskedOf, OverOf

LEMMA LoopsOf ==
  ASSUME NEW g \in Inits
  PROVE  /\ life[g] \in {"absent", "broken"} => LoopOf(g) = "absent"
         /\ life[g] \in {"live", "leaving"} => LoopOf(g) = "running"
         /\ life[g] = "exited" => LoopOf(g) = "ended"
         /\ life'[g] \in {"absent", "broken"} => LoopOf(g)' = "absent"
         /\ life'[g] \in {"live", "leaving"} => LoopOf(g)' = "running"
         /\ life'[g] = "exited" => LoopOf(g)' = "ended"
  BY DEF LoopOf

LEMMA LoggedTells ==
  ASSUME NEW log \in Seq(EventRecord), NEW e \in EventRecord, NEW g
  PROVE  /\ g # e.host => Told(Logged(log, e), g) = Told(log, g)
         /\ g = e.host => Adds(Told(log, g), Told(Logged(log, e), g), e.type)
<1> DEFINE new == Logged(log, e)
           now == Len(log) + 1
           Own(l) == {n \in DOMAIN l : l[n].host = g}
<1>1. /\ DOMAIN new = DOMAIN log \cup {now}
      /\ \A n \in DOMAIN log : n < now /\ n # now /\ new[n] = log[n]
      /\ now \in Nat /\ new[now] = e
  <2>1. /\ Len(log) \in Nat /\ DOMAIN new = 1 .. Len(log) + 1
        /\ DOMAIN log = 1 .. Len(log) /\ new[Len(log) + 1] = e
        /\ \A n \in 1 .. Len(log) : new[n] = log[n]
    BY Appended DEF Logged
  <2> HIDE DEF new
  <2>2. QED
    BY <2>1
<1> HIDE DEF new, now
<1>2. ASSUME g # e.host
      PROVE  Told(new, g) = Told(log, g)
  <2>1. Own(new) = Own(log)
    BY <1>1, <1>2
  <2>2. QED
    BY <1>1, <2>1 DEF Told
<1>3. ASSUME g = e.host
      PROVE  Adds(Told(log, g), Told(new, g), e.type)
  <2>1. Own(new) = Own(log) \cup {now}
    BY <1>1, <1>3
  <2>2. DOMAIN Told(log, g) = Own(log) /\ DOMAIN Told(new, g) = Own(new)
    BY DEF Told
  <2>3. \A n \in Own(new) :
          new[n].type = IF n = now THEN e.type ELSE Told(log, g)[n]
    BY <1>1, <2>1 DEF Told
  <2>4. Told(new, g) = [n \in Own(new) |-> new[n].type]
    BY DEF Told
  <2>5. now \in DOMAIN Told(new, g) \cap Nat /\ \A n \in DOMAIN Told(log, g) : n < now
    BY <1>1, <2>1, <2>2
  <2>6. Told(new, g) = [n \in DOMAIN Told(log, g) \cup {now} |->
                          IF n = now THEN e.type ELSE Told(log, g)[n]]
    BY <2>1, <2>2, <2>3, <2>4
  <2>7. QED
    BY <2>5, <2>6 DEF Adds
<1>4. QED
  BY <1>2, <1>3 DEF new

LEMMA Records ==
  ASSUME NEW h \in Inits, NEW type \in EventType
  PROVE  /\ Event(h, type) \in EventRecord
         /\ Event(h, type).host = h /\ Event(h, type).type = type
  BY DEF Event, EventRecord

(* Creation tells nothing but the start of the new agent.                  *)
LEMMA CreateTells ==
  ASSUME ControlOK, NEW i \in Inits, NEW STATE q, NEW STATE log,
         log \in Seq(EventRecord), Create(i, q, log)
  PROVE  /\ \A g \in Inits \ {i} : Told(event_log', g) = Told(log, g)
         /\ \/ life'[i] = "broken" /\ event_log' = log
            \/ /\ life'[i] = "live"
               /\ Adds(Told(log, i), Told(event_log', i), "AGENT_STARTED")
<1>1. "AGENT_STARTED" \in EventType
  BY DEF EventType
<1>2. CASE event_log' = log /\ life' = [life EXCEPT ![i] = "broken"]
  BY <1>2 DEF ControlOK
<1>3. CASE /\ event_log' = Logged(log, Event(i, "AGENT_STARTED"))
           /\ life' = [life EXCEPT ![i] = "live"]
  <2>1. life'[i] = "live"
    BY <1>3 DEF ControlOK
  <2>2. QED
    BY <1>1, <1>3, <2>1, Records, LoggedTells
<1>4. QED
  BY <1>2, <1>3 DEF Create

(* What a step that creates the host i, after the log has come to be `log`,*)
(* is to the agents that log is silent about.                              *)
LEMMA CreateHosts ==
  ASSUME ControlOK, Settled, NEW i \in Inits, NEW STATE q, NEW STATE log,
         log \in Seq(EventRecord), Create(i, q, log),
         init[i] \notin {"done", "raised"}, agent'[i],
         NEW g \in Inits, Told(log, g) = Told(event_log, g),
         g # i => agent'[g] = agent[g]
  PROVE  Hosted(g)!Next \/ UNCHANGED Hosted(g)!vars
<1>1. CASE g # i
  <2>1. life'[g] = life[g] /\ Told(event_log', g) = Told(event_log, g)
    BY <1>1, CreateControl, CreateTells
  <2>2. QED
    BY <1>1, <2>1, Views DEF LoopOf, AskedOf, OverOf
<1>2. CASE g = i
  <2>1. life[i] = "absent" /\ ~ agent[i]
    BY DEF Settled
  <2>2. LoopOf(i) = "absent" /\ AskedOf(i) = FALSE /\ OverOf(i) = FALSE
    BY <2>1, LoopsOf DEF AskedOf, OverOf
  <2>3. CASE life'[i] = "broken" /\ event_log' = log
    <3>1. LoopOf(i)' = "absent" /\ AskedOf(i)' = FALSE /\ OverOf(i)' = FALSE
      BY <2>3, LoopsOf DEF AskedOf, OverOf
    <3>2. QED
      BY <1>2, <2>2, <2>3, <3>1, Views
  <2>4. CASE /\ life'[i] = "live"
             /\ Adds(Told(log, i), Told(event_log', i), "AGENT_STARTED")
    <3>1. LoopOf(i)' = "running" /\ AskedOf(i)' = FALSE /\ OverOf(i)' = FALSE
      BY <2>4, LoopsOf DEF AskedOf, OverOf
    <3>2. Hosted(i)!Says("AGENT_STARTED")
      BY <1>2, <2>4, Views
    <3>3. QED
      BY <1>2, <2>2, <3>1, <3>2
         DEF Hosted!Run, Hosted!Next, LoopOf, AskedOf, OverOf
  <2>5. QED
    BY <2>3, <2>4, CreateTells
<1>3. QED
  BY <1>1, <1>2

(* The agents of the server's hosts, whatever requests overlap and         *)
(* whatever initialisations fail, are what HostedAgent says: the server    *)
(* needs no more of an agent than AbstractURP has been proved to give.     *)
THEOREM Hosting == Spec => AgentsAreHosted
<1> DEFINE Logs == event_log \in Seq(EventRecord)
<1>1. Init => \A h \in Inits : Hosted(h)!Init
  <2> SUFFICES ASSUME Init, NEW g \in Inits PROVE Hosted(g)!Init
    OBVIOUS
  <2>1. life[g] = "absent" /\ event_log = <<>> /\ DOMAIN event_log = {}
    BY DEF Init
  <2>2. QED
    BY <2>1 DEF Hosted!Init
<1>2. ControlOK /\ Settled /\ Logs /\ [Next]_vars
        => \A h \in Inits : Hosted(h)!Next \/ UNCHANGED Hosted(h)!vars
  <2> SUFFICES ASSUME ControlOK, Settled, Logs, [Next]_vars, NEW g \in Inits
               PROVE  Hosted(g)!Next \/ UNCHANGED Hosted(g)!vars
    OBVIOUS
  <2> USE DEF hostVars, initVars, wsVars
  <2>1. CASE UNCHANGED <<agent, life, event_log>>
    BY <2>1, Views DEF LoopOf, AskedOf, OverOf
  <2>2. ASSUME NEW i \in Inits, InitAtOnce(i)
        PROVE  Hosted(g)!Next \/ UNCHANGED Hosted(g)!vars
    <3>1. /\ Create(i, queue, event_log) /\ init[i] \notin {"done", "raised"}
          /\ agent'[i] /\ (g # i => agent'[g] = agent[g])
      BY <2>2 DEF InitAtOnce, Begins, ControlOK
    <3>2. QED
      BY <3>1, CreateHosts
  <2>3. ASSUME NEW i \in Inits, NEW h \in Inits, Supersede(h, i),
               init[i] \notin {"done", "raised"}, init[h] \in {"done", "raised"},
               life[h] \in {"broken", "exited"}
        PROVE  Hosted(g)!Next \/ UNCHANGED Hosted(g)!vars
    <3> DEFINE e == Event(h, "AGENT_TERMINATED")
               log == Logged(event_log, e)
               q == Put(queue, event_log, e)
    <3>1. e \in EventRecord /\ e.host = h /\ e.type = "AGENT_TERMINATED"
      BY Records DEF EventType
    <3>2. Create(i, q, log) /\ agent' = [agent EXCEPT ![h] = FALSE, ![i] = TRUE]
      BY <2>3 DEF Supersede
    <3> HIDE DEF e
    <3>3. /\ log \in Seq(EventRecord)
          /\ g # h => Told(log, g) = Told(event_log, g)
          /\ g = h => Adds(Told(event_log, g), Told(log, g), "AGENT_TERMINATED")
      <4>1. log \in Seq(EventRecord)
        BY <3>1, LogsOne DEF Logs
      <4>2. /\ g # h => Told(log, g) = Told(event_log, g)
            /\ g = h => Adds(Told(event_log, g), Told(log, g), "AGENT_TERMINATED")
        BY <3>1, LoggedTells DEF Logs
      <4>3. QED
        BY <4>1, <4>2
    <3> HIDE DEF log, q
    <3>4. CASE g # h
      <4>1. agent'[i] /\ (g # i => agent'[g] = agent[g])
        BY <3>2, <3>4 DEF ControlOK
      <4>2. QED
        BY <2>3, <3>2, <3>3, <3>4, <4>1, CreateHosts
    <3>5. CASE g = h
      <4>1. g # i /\ life'[g] = life[g] /\ ~ agent'[g]
            /\ Told(event_log', g) = Told(log, g)
        BY <2>3, <3>2, <3>3, <3>5, CreateControl, CreateTells DEF ControlOK
      <4>2. /\ LoopOf(g) # "running" /\ LoopOf(g)' = LoopOf(g)
            /\ AskedOf(g)' = TRUE /\ OverOf(g)' = TRUE
        BY <2>3, <3>5, <4>1, LoopsOf DEF AskedOf, OverOf
      <4>3. Hosted(g)!Says("AGENT_TERMINATED")
        BY <3>3, <3>5, <4>1, Views
      <4>4. QED
        BY <4>2, <4>3 DEF Hosted!Terminate, Hosted!Next, LoopOf, AskedOf, OverOf
    <3>6. QED
      BY <3>4, <3>5
  <2>4. ASSUME NEW i \in Inits, InitReplaces(i)
        PROVE  Hosted(g)!Next \/ UNCHANGED Hosted(g)!vars
    <3>1. /\ host \in Inits /\ agent[host] /\ init[i] = "idle" /\ Supersede(host, i)
          /\ life[host] \in {"broken", "exited"}
      BY <2>4 DEF InitReplaces, Begins, ControlOK
    <3>2. QED
      BY <2>3, <3>1 DEF Settled
  <2>5. ASSUME NEW i \in Inits, InitResumes(i)
        PROVE  Hosted(g)!Next \/ UNCHANGED Hosted(g)!vars
    <3>1. /\ target[i] \in Inits /\ init[target[i]] \in {"done", "raised"}
          /\ init[i] = "stopping" /\ Supersede(target[i], i)
          /\ life[target[i]] = "exited"
      BY <2>5 DEF InitResumes, ControlOK, Settled
    <3>2. QED
      BY <2>3, <3>1
  <2>6. ASSUME NEW i \in Inits, InitStops(i)
        PROVE  Hosted(g)!Next \/ UNCHANGED Hosted(g)!vars
    <3>1. /\ host \in Inits /\ UNCHANGED <<agent, event_log>>
          /\ life[host] \in {"live", "leaving"} /\ life'[host] = "leaving"
          /\ \A h \in Inits : h # host => life'[h] = life[h]
      BY <2>6 DEF InitStops, ControlOK
    <3>2. LoopOf(g)' = LoopOf(g) /\ OverOf(g)' = OverOf(g)
      BY <3>1, LoopsOf DEF OverOf, LoopOf
    <3>3. AskedOf(g)' = AskedOf(g) \/ AskedOf(g)' = TRUE
      BY <3>1 DEF AskedOf
    <3>4. QED
      BY <3>1, <3>2, <3>3, Views
         DEF Hosted!Ask, Hosted!Next, LoopOf, AskedOf, OverOf
  <2>7. ASSUME NEW h \in Inits, AgentEmits(h)
        PROVE  Hosted(g)!Next \/ UNCHANGED Hosted(g)!vars
    <3>1. event_log' = Logged(event_log, Event(h, "ANSWER"))
          /\ UNCHANGED <<life, agent>> /\ life[h] \in {"live", "leaving"}
      BY <2>7 DEF AgentEmits
    <3>2. /\ g # h => Told(event_log', g) = Told(event_log, g)
          /\ g = h => Adds(Told(event_log, g), Told(event_log', g), "ANSWER")
      BY <3>1, Records, LoggedTells DEF EventType
    <3>3. LoopOf(g)' = LoopOf(g) /\ AskedOf(g)' = AskedOf(g) /\ OverOf(g)' = OverOf(g)
      BY <3>1 DEF LoopOf, AskedOf, OverOf
    <3>4. CASE g # h
      BY <3>2, <3>3, <3>4, Views
    <3>5. CASE g = h
      <4>1. LoopOf(g) = "running" /\ Hosted(g)!Says("ANSWER")
        BY <3>1, <3>2, <3>5, LoopsOf, Views
      <4>2. QED
        BY <3>3, <4>1 DEF Hosted!Answer, Hosted!Next, LoopOf, AskedOf, OverOf
    <3>6. QED
      BY <3>4, <3>5
  <2>8. ASSUME NEW h \in Inits, AgentExits(h)
        PROVE  Hosted(g)!Next \/ UNCHANGED Hosted(g)!vars
    <3>1. /\ UNCHANGED <<agent, event_log>>
          /\ life[h] = "leaving" /\ life'[h] = "exited"
          /\ \A j \in Inits : j # h => life'[j] = life[j]
      BY <2>8 DEF AgentExits, ControlOK
    <3>2. AskedOf(g)' = AskedOf(g) /\ OverOf(g)' = OverOf(g)
      BY <3>1 DEF AskedOf, OverOf
    <3>3. CASE g # h
      BY <3>1, <3>2, <3>3, Views DEF LoopOf
    <3>4. CASE g = h
      <4>1. LoopOf(g) = "running" /\ LoopOf(g)' = "ended"
        BY <3>1, <3>4, LoopsOf
      <4>2. QED
        BY <3>1, <3>2, <4>1 DEF Hosted!End, Hosted!Next, LoopOf, AskedOf, OverOf
    <3>5. QED
      BY <3>3, <3>4
  <2>9. QED
    BY <2>1, <2>2, <2>4, <2>5, <2>6, <2>7, <2>8
       DEF Next, Connect, Disconnect, WsStep, Pull, Sent, SendFails, vars
<1>3. Init => Settled
  BY DEF Init, Settled
<1>4. TypeOK => Logs
  BY DEF TypeOK, EventRecord
<1>5. Spec => [](ControlOK /\ Settled /\ Logs)
  BY <1>3, <1>4, AlwaysSequential, SettledStep, Typing, PTL DEF Spec
<1>6. Spec => \A h \in Inits : Hosted(h)!Init
  BY <1>1, PTL DEF Spec
<1>7. Spec => [][\A h \in Inits : Hosted(h)!Next \/ UNCHANGED Hosted(h)!vars]_vars
  BY <1>2, <1>5, PTL DEF Spec
<1>8. QED
  BY <1>6, <1>7, PTL DEF AgentsAreHosted
==============================================================================
