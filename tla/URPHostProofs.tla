---------------------------- MODULE URPHostProofs ----------------------------
(***************************************************************************)
(* Proofs about URPHost, for every value of its constants.                 *)
(***************************************************************************)
EXTENDS URPHost, TLAPS

(* No more is owed than two events a message, and a shutdown() that is     *)
(* under way has an agent.                                                 *)
Counts ==
  /\ \A i \in Starts : owed[i] <= 2 * sent
  /\ \A c \in Stops : stop[c] \in {"stopping", "reporting"} => target[c] \in Starts

LEMMA EmitType ==
  ASSUME queue \in Seq(Event), log \in Seq(Event), NEW i \in Starts,
         NEW type \in {"AGENT_START_PRECONDITIONS_VIOLATED", "AGENT_STARTED",
                       "ANSWER", "AGENT_TERMINATED"},
         Emit(i, type)
  PROVE  queue' \in Seq(Event) /\ log' \in Seq(Event)
<1>1. [agent |-> i, type |-> type] \in Event
  BY DEF Event
<1>2. QED
  BY <1>1 DEF Emit

LEMMA InitTyping == Init => TypeOK /\ Counts
<1> SUFFICES ASSUME Init PROVE TypeOK /\ Counts
  OBVIOUS
<1>1. /\ start \in [Starts -> StartPc] /\ stop \in [Stops -> StopPc]
      /\ owed \in [Starts -> 0..(2 * MaxMessages)] /\ sent \in 0..MaxMessages
  BY BoundAssumption DEF Init, StartPc, StopPc
<1>2. Counts
  BY DEF Init, Counts
<1>3. queue \in Seq(Event) /\ log \in Seq(Event) /\ delivered \in Seq(Event)
  BY DEF Init
<1>4. QED
  BY <1>1, <1>2, <1>3 DEF Init, TypeOK

LEMMA StepTyping == TypeOK /\ Counts /\ [Next]_vars => (TypeOK /\ Counts)'
<1> SUFFICES ASSUME TypeOK, Counts, [Next]_vars PROVE (TypeOK /\ Counts)'
  OBVIOUS
<1> USE DEF agentVars, getVars
<1>1. CASE UNCHANGED vars
  BY <1>1 DEF vars, TypeOK, Counts
<1>2. ASSUME NEW i \in Starts, InitializeAndStart(i)
      PROVE  (TypeOK /\ Counts)'
  <2>1. overlapped' \in BOOLEAN
    BY <1>2 DEF InitializeAndStart, TypeOK, Pending
  <2>2. start' \in [Starts -> StartPc]
    BY <1>2 DEF InitializeAndStart, TypeOK, StartPc
  <2>3. QED
    BY <1>2, <2>1, <2>2 DEF InitializeAndStart, TypeOK, Counts
<1>3. ASSUME NEW i \in Starts, StartRuns(i)
      PROVE  (TypeOK /\ Counts)'
  <2>1. queue' \in Seq(Event) /\ log' \in Seq(Event)
    BY <1>3, EmitType DEF StartRuns, TypeOK
  <2>2. QED
    BY <1>3, <2>1 DEF StartRuns, TypeOK, Counts, StartPc
<1>4. ASSUME NEW i \in Starts, StartFails(i)
      PROVE  (TypeOK /\ Counts)'
  <2>1. queue' \in Seq(Event) /\ log' \in Seq(Event)
    BY <1>4, EmitType DEF StartFails, TypeOK
  <2>2. QED
    BY <1>4, <2>1 DEF StartFails, TypeOK, Counts, StartPc
<1>5. ASSUME NEW i \in Starts, StartReturns(i)
      PROVE  (TypeOK /\ Counts)'
  <2>1. returned' \in [Starts -> Starts \cup {None}]
    BY <1>5 DEF StartReturns, TypeOK
  <2>2. start' \in [Starts -> StartPc]
    BY <1>5 DEF StartReturns, TypeOK, StartPc
  <2>3. QED
    BY <1>5, <2>1, <2>2 DEF StartReturns, TypeOK, Counts
<1>6. ASSUME NEW i \in Starts, AgentAnswers(i)
      PROVE  (TypeOK /\ Counts)'
  <2>1. queue' \in Seq(Event) /\ log' \in Seq(Event)
    BY <1>6, EmitType DEF AgentAnswers, TypeOK
  <2>2. /\ owed' \in [Starts -> 0..(2 * MaxMessages)]
        /\ \A j \in Starts : owed'[j] <= 2 * sent
    BY <1>6, BoundAssumption DEF AgentAnswers, TypeOK, Counts
  <2>3. QED
    BY <1>6, <2>1, <2>2 DEF AgentAnswers, TypeOK, Counts
<1>7. ASSUME NEW i \in Starts, LoopEnds(i)
      PROVE  (TypeOK /\ Counts)'
  BY <1>7 DEF LoopEnds, TypeOK, Counts
<1>8. ASSUME NEW c \in Stops, StopBegin(c)
      PROVE  (TypeOK /\ Counts)'
  <2>1. agent \in Starts
    BY <1>8 DEF StopBegin, TypeOK
  <2>2. overlapped' \in BOOLEAN
    BY <1>8 DEF StopBegin, TypeOK, Pending
  <2>3. QED
    BY <1>8, <2>1, <2>2 DEF StopBegin, TypeOK, Counts, StopPc
<1>9. ASSUME NEW c \in Stops, StopReports(c)
      PROVE  (TypeOK /\ Counts)'
  <2>1. target[c] \in Starts
    BY <1>9 DEF StopReports, Counts
  <2>2. queue' \in Seq(Event) /\ log' \in Seq(Event)
    BY <1>9, <2>1, EmitType DEF StopReports, TypeOK
  <2>3. QED
    BY <1>9, <2>1, <2>2 DEF StopReports, TypeOK, Counts, StopPc
<1>10. ASSUME NEW c \in Stops, StopReturns(c) \/ StopRaises(c)
       PROVE  (TypeOK /\ Counts)'
  <2>1. agent' \in Starts \cup {None}
    BY <1>10 DEF StopReturns, StopRaises, TypeOK
  <2>2. StopDone(c) /\ UNCHANGED <<start, returned, agentVars, queue, getVars,
                                   log, overlapped>>
    BY <1>10 DEF StopReturns, StopRaises
  <2>3. QED
    BY <2>1, <2>2 DEF StopDone, TypeOK, Counts, StopPc
<1>11. CASE SendMessage
  <2>1. agent \in Starts /\ owed[agent] + 2 \in 0..(2 * MaxMessages)
    BY <1>11, BoundAssumption DEF SendMessage, TypeOK, Counts
  <2>2. owed' \in [Starts -> 0..(2 * MaxMessages)]
    BY <1>11, <2>1 DEF SendMessage, TypeOK
  <2>3. sent' \in 0..MaxMessages
    BY <1>11, BoundAssumption DEF SendMessage, TypeOK
  <2>4. \A j \in Starts : owed'[j] <= 2 * sent'
    BY <1>11, <2>1, BoundAssumption DEF SendMessage, TypeOK, Counts
  <2>5. QED
    BY <1>11, <2>2, <2>3, <2>4 DEF SendMessage, TypeOK, Counts
<1>12. ASSUME NEW g \in Getters, NEW t \in Timeouts, GetBegin(g, t)
       PROVE  (TypeOK /\ Counts)'
  BY <1>12 DEF GetBegin, TypeOK, Counts
<1>13. ASSUME NEW g \in Getters, GetReturns(g)
       PROVE  (TypeOK /\ Counts)'
  <2>1. queue' \in Seq(Event) /\ delivered' \in Seq(Event)
    BY <1>13 DEF GetReturns, TypeOK
  <2>2. QED
    BY <1>13, <2>1 DEF GetReturns, GetDone, TypeOK, Counts
<1>14. ASSUME NEW g \in Getters, GetTimesOut(g)
       PROVE  (TypeOK /\ Counts)'
  BY <1>14 DEF GetTimesOut, GetDone, TypeOK, Counts
<1>15. QED
  BY <1>1, <1>2, <1>3, <1>4, <1>5, <1>6, <1>7, <1>8, <1>9, <1>10, <1>11, <1>12,
     <1>13, <1>14 DEF Next, StopStep, GetStep

(* Every variable of the host has its type in every reachable state.       *)
THEOREM Typing == Spec => []TypeOK
<1>1. Spec => [](TypeOK /\ Counts)
  BY InitTyping, StepTyping, PTL DEF Spec
<1>2. QED
  BY <1>1, PTL

------------------------------------------------------------------------------
(* An event emitted goes to the end of what is delivered or in the queue.  *)
LEMMA EmitConserves ==
  ASSUME queue \in Seq(Event), log \in Seq(Event), delivered \in Seq(Event),
         NEW i, NEW type, [agent |-> i, type |-> type] \in Event,
         Emit(i, type), delivered' = delivered, QueueConserves
  PROVE  QueueConserves'
<1> DEFINE e == [agent |-> i, type |-> type]
<1>1. queue' = Append(queue, e) /\ log' = Append(log, e)
  BY DEF Emit
<1> HIDE DEF e
<1>2. e \in Event
  BY DEF e
<1>3. delivered \o Append(queue, e) = Append(delivered \o queue, e)
  BY <1>2
<1>4. QED
  BY <1>1, <1>3 DEF QueueConserves

(* In every reachable state the events that were delivered, followed by    *)
(* those in the queue, are the events emitted, in that order.              *)
THEOREM Conserved == Spec => []QueueConserves
<1>1. Init => QueueConserves
  BY DEF Init, QueueConserves
<1>2. TypeOK /\ Counts /\ QueueConserves /\ [Next]_vars => QueueConserves'
  <2> SUFFICES ASSUME TypeOK, Counts, QueueConserves, [Next]_vars
               PROVE  QueueConserves'
    OBVIOUS
  <2>1. CASE UNCHANGED <<queue, log, delivered>>
    BY <2>1 DEF QueueConserves
  <2>2. queue \in Seq(Event) /\ log \in Seq(Event) /\ delivered \in Seq(Event)
    BY DEF TypeOK
  <2>3. ASSUME NEW i \in Starts, StartRuns(i) \/ AgentAnswers(i) \/ StartFails(i)
        PROVE  QueueConserves'
    <3>1. delivered' = delivered
      BY <2>3 DEF StartRuns, AgentAnswers, StartFails, getVars
    <3>2. \/ UNCHANGED <<queue, log>>
          \/ \E type \in {"AGENT_START_PRECONDITIONS_VIOLATED", "AGENT_STARTED",
                          "ANSWER"} :
               Emit(i, type) /\ [agent |-> i, type |-> type] \in Event
      BY <2>3 DEF StartRuns, AgentAnswers, StartFails, Event
    <3>3. QED
      BY <2>1, <2>2, <3>1, <3>2, EmitConserves
  <2>4. ASSUME NEW c \in Stops, StopReports(c)
        PROVE  QueueConserves'
    <3>1. /\ delivered' = delivered
          /\ Emit(target[c], "AGENT_TERMINATED")
          /\ [agent |-> target[c], type |-> "AGENT_TERMINATED"] \in Event
      BY <2>4 DEF StopReports, getVars, Counts, Event
    <3>2. QED
      BY <2>2, <3>1, EmitConserves
  <2>5. ASSUME NEW g \in Getters, GetReturns(g)
        PROVE  QueueConserves'
    <3>1. /\ queue # <<>>
          /\ queue' = Tail(queue)
          /\ delivered' = Append(delivered, Head(queue))
          /\ log' = log
      BY <2>5 DEF GetReturns
    <3>2. Append(delivered, Head(queue)) \o Tail(queue) = delivered \o queue
      BY <2>2, <3>1
    <3>3. QED
      BY <3>1, <3>2 DEF QueueConserves
  <2>6. QED
    BY <2>1, <2>3, <2>4, <2>5
       DEF Next, InitializeAndStart, StartReturns, LoopEnds, StopStep, GetStep,
           StopBegin, StopReturns, StopRaises, StopDone, SendMessage, GetBegin,
           GetTimesOut, GetDone, vars, getVars
<1>3. Spec => [](TypeOK /\ Counts)
  BY InitTyping, StepTyping, PTL DEF Spec
<1>4. QED
  BY <1>1, <1>2, <1>3, PTL DEF Spec

------------------------------------------------------------------------------
(* As long as the calls do not overlap, at most one is under way, it is    *)
(* about the host's agent, and an agent that is being reported as          *)
(* terminated has no loop.                                                 *)
Starting(i) == start[i] \in {"checking", "announcing"}
Stopping(c) == stop[c] \in {"stopping", "reporting"}

OneUnderWay ==
  /\ \A i, j \in Starts : Starting(i) /\ Starting(j) => i = j
  /\ \A c, d \in Stops : Stopping(c) /\ Stopping(d) => c = d
  /\ \A i \in Starts, c \in Stops : ~ (Starting(i) /\ Stopping(c))

AboutTheAgent ==
  /\ \A i \in Starts : Starting(i) => agent = i
  /\ \A c \in Stops : Stopping(c) => agent = target[c]
  /\ \A c \in Stops, i \in Starts : stop[c] = "reporting" => loop[i] # "running"

Kept ==
  /\ \A i \in Starts : loop[i] = "running" => agent = i
  /\ \A i \in Starts : start[i] = "returned" => returned[i] = i

Sequential == ~ overlapped => OneUnderWay /\ AboutTheAgent /\ Kept

(* In every reachable state, as long as calls that start and stop have not *)
(* overlapped, the agent that runs is the host's.                          *)
THEOREM Keeps == Spec => []KeepsItsAgent
<1>1. ASSUME Init PROVE Sequential
  BY <1>1 DEF Init, Sequential, OneUnderWay, AboutTheAgent, Kept, Starting, Stopping
<1>2. TypeOK /\ Sequential /\ [Next]_vars => Sequential'
  <2> SUFFICES ASSUME TypeOK, Sequential, [Next]_vars, ~ overlapped'
               PROVE  OneUnderWay' /\ AboutTheAgent' /\ Kept'
    BY DEF Sequential
  <2> USE DEF agentVars, getVars
  <2>1. CASE UNCHANGED <<agent, start, returned, loop, stop, target, overlapped>>
    BY <2>1 DEF Sequential, OneUnderWay, AboutTheAgent, Kept, Starting, Stopping
  <2>2. ASSUME NEW i \in Starts, InitializeAndStart(i)
        PROVE  OneUnderWay' /\ AboutTheAgent' /\ Kept'
    <3>1. /\ ~ overlapped /\ ~ Pending /\ Running = {}
          /\ agent' = i
          /\ start'[i] \in {"checking", "raised"}
          /\ \A j \in Starts : j # i => start'[j] = start[j]
          /\ UNCHANGED <<returned, loop, stop, target>>
      BY <2>2 DEF InitializeAndStart, TypeOK
    <3>2. /\ \A j \in Starts : ~ Starting(j) /\ loop[j] # "running"
          /\ \A c \in Stops : ~ Stopping(c)
      BY <3>1 DEF Pending, Running, Starting, Stopping
    <3>3. Kept
      BY <3>1 DEF Sequential
    <3>4. QED
      BY <3>1, <3>2, <3>3
         DEF OneUnderWay, AboutTheAgent, Kept, Starting, Stopping
  <2>3. ASSUME NEW c \in Stops, StopBegin(c)
        PROVE  OneUnderWay' /\ AboutTheAgent' /\ Kept'
    <3>1. /\ ~ overlapped /\ ~ Pending
          /\ stop'[c] = "stopping" /\ target'[c] = agent
          /\ \A d \in Stops : d # c => stop'[d] = stop[d] /\ target'[d] = target[d]
          /\ UNCHANGED <<agent, start, returned, loop>>
      BY <2>3 DEF StopBegin, TypeOK
    <3>2. /\ \A j \in Starts : ~ Starting(j)
          /\ \A d \in Stops : ~ Stopping(d)
      BY <3>1 DEF Pending, Starting, Stopping
    <3>3. Kept
      BY <3>1 DEF Sequential
    <3>4. QED
      BY <3>1, <3>2, <3>3
         DEF OneUnderWay, AboutTheAgent, Kept, Starting, Stopping
  <2>4. CASE ~ overlapped /\ UNCHANGED overlapped
    <3>1. OneUnderWay /\ AboutTheAgent /\ Kept
      BY <2>4 DEF Sequential
    <3>2. ASSUME NEW i \in Starts, StartRuns(i) \/ StartFails(i) \/ StartReturns(i)
          PROVE  OneUnderWay' /\ AboutTheAgent' /\ Kept'
      <4>1. /\ Starting(i)
            /\ \A j \in Starts : j # i => start'[j] = start[j] /\ returned'[j] = returned[j]
            /\ UNCHANGED <<agent, stop, target>>
            /\ \A j \in Starts : j # i => loop'[j] = loop[j]
        BY <3>2 DEF StartRuns, StartFails, StartReturns, Starting, TypeOK
      <4>2. start'[i] = "returned" => returned'[i] = agent
        BY <3>2 DEF StartRuns, StartFails, StartReturns, TypeOK
      <4>3. OneUnderWay'
        BY <3>1, <4>1 DEF OneUnderWay, Starting, Stopping
      <4>4. AboutTheAgent'
        BY <3>1, <4>1 DEF OneUnderWay, AboutTheAgent, Starting, Stopping
      <4>5. Kept'
        BY <3>1, <4>1, <4>2 DEF AboutTheAgent, Kept, Starting
      <4>6. QED
        BY <4>3, <4>4, <4>5
    <3>3. ASSUME NEW i \in Starts, LoopEnds(i)
          PROVE  OneUnderWay' /\ AboutTheAgent' /\ Kept'
      BY <3>1, <3>3
         DEF LoopEnds, TypeOK, OneUnderWay, AboutTheAgent, Kept, Starting, Stopping
    <3>4. ASSUME NEW c \in Stops, StopReports(c)
          PROVE  OneUnderWay' /\ AboutTheAgent' /\ Kept'
      <4>1. /\ Stopping(c) /\ loop[target[c]] # "running"
            /\ \A d \in Stops : d # c => stop'[d] = stop[d]
            /\ UNCHANGED <<agent, start, returned, loop, target>>
        BY <3>4 DEF StopReports, Stopping, TypeOK
      <4>2. \A i \in Starts : loop[i] # "running"
        BY <3>1, <4>1 DEF AboutTheAgent, Kept
      <4>3. QED
        BY <3>1, <4>1, <4>2
           DEF OneUnderWay, AboutTheAgent, Kept, Starting, Stopping
    <3>5. ASSUME NEW c \in Stops, StopReturns(c) \/ StopRaises(c)
          PROVE  OneUnderWay' /\ AboutTheAgent' /\ Kept'
      <4>1. /\ Stopping(c) /\ ~ Stopping(c)'
            /\ \A d \in Stops : d # c => stop'[d] = stop[d] /\ target'[d] = target[d]
            /\ UNCHANGED <<start, returned, loop>>
            /\ agent' = agent \/ \A i \in Starts : loop[i] # "running"
        BY <3>1, <3>5
           DEF StopReturns, StopRaises, StopDone, Stopping, TypeOK, AboutTheAgent
      <4>2. /\ \A i \in Starts : ~ Starting(i)'
            /\ \A d \in Stops : ~ Stopping(d)'
        BY <3>1, <4>1 DEF OneUnderWay, Starting, Stopping
      <4>3. OneUnderWay' /\ AboutTheAgent'
        BY <4>2 DEF OneUnderWay, AboutTheAgent, Stopping
      <4>4. Kept'
        BY <3>1, <4>1 DEF Kept
      <4>5. QED
        BY <4>3, <4>4
    <3>6. QED
      BY <2>1, <2>2, <2>3, <3>2, <3>3, <3>4, <3>5
         DEF Next, StopStep, GetStep, AgentAnswers, SendMessage, GetBegin,
             GetReturns, GetTimesOut, vars
  <2>5. QED
    BY <2>1, <2>2, <2>3, <2>4
       DEF Next, StopStep, GetStep, StartRuns, StartFails, StartReturns,
           AgentAnswers, LoopEnds, StopReports, StopReturns, StopRaises,
           SendMessage, GetBegin, GetReturns, GetTimesOut, vars
<1>3. ASSUME Sequential PROVE KeepsItsAgent
  BY <1>3 DEF Sequential, KeepsItsAgent, Kept, Running
<1>4. QED
  BY <1>1, <1>2, <1>3, Typing, PTL DEF Spec

------------------------------------------------------------------------------
(* The agents.  Those whose start() has not got through its hook have no   *)
(* loop, and whoever waits for an agent's end has asked for it.            *)
Unstarted ==
  /\ \A i \in Starts : start[i] \in {"idle", "checking"} => loop[i] = "absent"
  /\ \A c \in Stops : stop[c] \in {"stopping", "reporting"} => asked[target[c]]

LEMMA UnstartedStep == TypeOK /\ Counts /\ Unstarted /\ [Next]_vars => Unstarted'
<1> SUFFICES ASSUME TypeOK, Counts, Unstarted, [Next]_vars PROVE Unstarted'
  OBVIOUS
<1> USE DEF agentVars, getVars
<1>1. CASE UNCHANGED <<start, loop, asked, stop, target>>
  BY <1>1 DEF Unstarted
<1>2. ASSUME NEW i \in Starts,
             InitializeAndStart(i) \/ StartRuns(i) \/ StartFails(i) \/ StartReturns(i)
      PROVE  Unstarted'
  <2>1. CASE StartRuns(i)
    BY <2>1 DEF StartRuns, Unstarted, TypeOK
  <2>2. CASE InitializeAndStart(i) \/ StartFails(i) \/ StartReturns(i)
    <3>1. /\ UNCHANGED <<loop, asked, stop, target>>
          /\ start[i] # "checking" => start[i] = "idle" \/ start'[i] \notin {"idle", "checking"}
          /\ \A j \in Starts : j # i => start'[j] = start[j]
      BY <2>2 DEF InitializeAndStart, StartFails, StartReturns, TypeOK
    <3>2. QED
      BY <3>1 DEF Unstarted
  <2>3. QED
    BY <1>2, <2>1, <2>2
<1>3. ASSUME NEW i \in Starts, LoopEnds(i)
      PROVE  Unstarted'
  BY <1>3 DEF LoopEnds, Unstarted, TypeOK
<1>4. ASSUME NEW c \in Stops, StopBegin(c)
      PROVE  Unstarted'
  <2>1. agent \in Starts
    BY <1>4 DEF StopBegin, TypeOK
  <2>2. QED
    BY <1>4, <2>1 DEF StopBegin, Unstarted, TypeOK, Counts
<1>5. ASSUME NEW c \in Stops, StopReports(c) \/ StopReturns(c) \/ StopRaises(c)
      PROVE  Unstarted'
  BY <1>5 DEF StopReports, StopReturns, StopRaises, StopDone, Unstarted, TypeOK
<1>6. QED
  BY <1>1, <1>2, <1>3, <1>4, <1>5
     DEF Next, vars, AgentAnswers, SendMessage, StopStep, GetStep, GetReturns,
         GetTimesOut, GetBegin, GetDone

(* What is heard of an agent.                                              *)
Heard(j) == [n \in {m \in DOMAIN log : log[m].agent = j} |-> log[n].type]

LEMMA Unseen ==
  ASSUME NEW i \in Starts, loop'[i] = loop[i], asked'[i] = asked[i],
         terminated'[i] = terminated[i], Heard(i)' = Heard(i)
  PROVE  UNCHANGED Hosted(i)!vars
  BY DEF Hosted!vars, Heard

(* An event emitted is heard of the agent that emits it, and of no other.  *)
LEMMA EmitIsHeard ==
  ASSUME TypeOK, NEW i \in Starts, NEW type, Emit(i, type)
  PROVE  /\ Hosted(i)!Says(type)
         /\ \A j \in Starts \ {i} : Heard(j)' = Heard(j)
<1> DEFINE e == [agent |-> i, type |-> type]
           now == Len(log) + 1
           Own(events, j) == {n \in DOMAIN events : events[n].agent = j}
           Of(events, j) == [n \in Own(events, j) |-> events[n].type]
<1>1. log' = Append(log, e) /\ e.agent = i /\ e.type = type
  BY DEF Emit
<1>2. log \in Seq(Event) /\ Len(log) \in Nat /\ DOMAIN log = 1 .. Len(log)
  BY DEF TypeOK
<1> HIDE DEF e
<1>3. /\ DOMAIN log' = DOMAIN log \cup {now}
      /\ \A n \in DOMAIN log : n < now /\ log'[n] = log[n]
      /\ now \in Nat /\ log'[now] = e
  BY <1>1, <1>2
<1> HIDE DEF now
<1>4. now \notin DOMAIN log
  BY <1>2, <1>3
<1>5. Own(log', i) = Own(log, i) \cup {now}
  BY <1>1, <1>3
<1>6. Of(log', i) = [n \in Own(log, i) \cup {now} |->
                          IF n = now THEN type ELSE Of(log, i)[n]]
  <2>1. \A n \in Own(log', i) :
          log'[n].type = IF n = now THEN type ELSE Of(log, i)[n]
    BY <1>1, <1>3, <1>4, <1>5
  <2>2. QED
    BY <1>5, <2>1
<1>7. \A j \in Starts \ {i} : Own(log', j) = Own(log, j)
  BY <1>1, <1>3
<1>8. \A j \in Starts \ {i} : Of(log', j) = Of(log, j)
  BY <1>3, <1>7
<1>9. Hosted(i)!Says(type)
  <2>1. DOMAIN Of(log, i) = Own(log, i) /\ now \in DOMAIN Of(log', i) \cap Nat
    BY <1>3, <1>5
  <2>2. \A n \in Own(log, i) : n < now
    BY <1>3
  <2>3. QED
    BY <1>6, <2>1, <2>2 DEF Hosted!Says
<1>10. QED
  BY <1>8, <1>9 DEF Heard

(* The agents the host creates, starts and shuts down, with calls that     *)
(* overlap and fail as they like, are what HostedAgent says: the host      *)
(* needs no more of an agent than AbstractURP has been proved to give.     *)
THEOREM Hosting == Spec => AgentsAreHosted
<1>1. Init => \A i \in Starts : Hosted(i)!Init
  BY DEF Init, Hosted!Init
<1>2. TypeOK /\ Counts /\ Unstarted /\ [Next]_vars
        => \A i \in Starts : Hosted(i)!Next \/ UNCHANGED Hosted(i)!vars
  <2> SUFFICES ASSUME TypeOK, Counts, Unstarted, [Next]_vars, NEW i \in Starts
               PROVE  Hosted(i)!Next \/ UNCHANGED Hosted(i)!vars
    OBVIOUS
  <2> USE DEF agentVars, getVars
  <2>1. CASE UNCHANGED <<loop, asked, terminated, log>>
    BY <2>1 DEF Hosted!vars
  <2>2. ASSUME NEW j \in Starts, StartRuns(j)
        PROVE  Hosted(i)!Next \/ UNCHANGED Hosted(i)!vars
    <3>1. CASE j = i
      <4>1. Hosted(i)!Says("AGENT_STARTED")
        BY <2>2, <3>1, EmitIsHeard DEF StartRuns
      <4>2. /\ loop[i] = "absent" /\ loop'[i] = "running"
            /\ terminated'[i] = FALSE /\ asked' = asked
        BY <2>2, <3>1 DEF StartRuns, Unstarted, TypeOK
      <4>3. QED
        BY <4>1, <4>2 DEF Hosted!Run, Hosted!Next
    <3>2. CASE j # i
      <4>1. loop'[i] = loop[i] /\ asked' = asked /\ terminated'[i] = terminated[i]
        BY <2>2, <3>2 DEF StartRuns, TypeOK
      <4>2. QED
        BY <2>2, <3>2, <4>1, EmitIsHeard, Unseen DEF StartRuns
    <3>3. QED
      BY <3>1, <3>2
  <2>3. ASSUME NEW j \in Starts, StartFails(j)
        PROVE  Hosted(i)!Next \/ UNCHANGED Hosted(i)!vars
    <3>1. CASE UNCHANGED log
      BY <2>1, <2>3, <3>1 DEF StartFails
    <3>2. CASE Emit(j, "AGENT_START_PRECONDITIONS_VIOLATED")
      BY <2>3, <3>2, EmitIsHeard, Unseen DEF StartFails, Hosted!Refuse, Hosted!Next
    <3>3. QED
      BY <2>3, <3>1, <3>2 DEF StartFails
  <2>4. ASSUME NEW j \in Starts, AgentAnswers(j)
        PROVE  Hosted(i)!Next \/ UNCHANGED Hosted(i)!vars
    BY <2>4, EmitIsHeard, Unseen DEF AgentAnswers, Hosted!Answer, Hosted!Next
  <2>5. ASSUME NEW j \in Starts, LoopEnds(j)
        PROVE  Hosted(i)!Next \/ UNCHANGED Hosted(i)!vars
    BY <2>5 DEF LoopEnds, TypeOK, Hosted!vars, Hosted!End, Hosted!Next
  <2>6. ASSUME NEW c \in Stops, StopBegin(c)
        PROVE  Hosted(i)!Next \/ UNCHANGED Hosted(i)!vars
    <3>1. agent \in Starts /\ asked' = [asked EXCEPT ![agent] = TRUE]
          /\ UNCHANGED <<loop, terminated, log>>
      BY <2>6 DEF StopBegin, TypeOK
    <3>2. asked'[i] = asked[i] \/ asked'[i] = TRUE
      BY <3>1 DEF TypeOK
    <3>3. QED
      BY <3>1, <3>2 DEF Hosted!vars, Hosted!Ask, Hosted!Next
  <2>7. ASSUME NEW c \in Stops, StopReports(c)
        PROVE  Hosted(i)!Next \/ UNCHANGED Hosted(i)!vars
    <3> DEFINE j == target[c]
    <3>1. /\ j \in Starts /\ loop[j] # "running" /\ asked[j] = TRUE
          /\ terminated' = [terminated EXCEPT ![j] = TRUE]
          /\ Emit(j, "AGENT_TERMINATED")
          /\ UNCHANGED <<loop, asked>>
      BY <2>7 DEF StopReports, Counts, Unstarted, TypeOK
    <3> HIDE DEF j
    <3>2. CASE j = i
      <4>1. Hosted(i)!Says("AGENT_TERMINATED")
        BY <3>1, <3>2, EmitIsHeard
      <4>2. QED
        BY <3>1, <3>2, <4>1 DEF TypeOK, Hosted!Terminate, Hosted!Next
    <3>3. CASE j # i
      <4>1. terminated'[i] = terminated[i]
        BY <3>1, <3>3 DEF TypeOK
      <4>2. QED
        BY <3>1, <3>3, <4>1, EmitIsHeard, Unseen
    <3>4. QED
      BY <3>2, <3>3
  <2>8. QED
    BY <2>1, <2>2, <2>3, <2>4, <2>5, <2>6, <2>7
       DEF Next, vars, InitializeAndStart, StartReturns, StopStep, StopReturns,
           StopRaises, SendMessage, GetStep, GetReturns, GetTimesOut, GetBegin
<1>3. Init => Unstarted
  BY DEF Init, Unstarted
<1>4. QED
  BY <1>1, <1>2, <1>3, InitTyping, StepTyping, UnstartedStep, PTL
     DEF Spec, AgentsAreHosted
==============================================================================
