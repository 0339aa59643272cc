-------------------------- MODULE AbstractURPSingle --------------------------
(***************************************************************************)
(* Proofs about AbstractURP where start() spawned one loop at most: when   *)
(* the loop answers, in which order, that it leaves no message out, and    *)
(* what an observer may conclude from the handle.                          *)
(***************************************************************************)
EXTENDS AbstractURPMessages, AgentHandle

------------------------------------------------------------------------------
(* The lifetime of the agent, as its events tell it.                       *)
Told(type) == \E i \in DOMAIN emitted : emitted[i].type = type

Born == \A l \in StartCalls : loop[l] # "absent" => Told("AGENT_STARTED")

(* After AGENT_TERMINATED no loop is at work, and one that start() spawns  *)
(* yet finds the shutdown event set and takes nothing.                     *)
Buried == Told("AGENT_TERMINATED") =>
            /\ shutdownEvent
            /\ \A l \in StartCalls : loop[l] \in {"absent", "scheduled"} \cup DonePc

(* Events are only ever added, each with a known type.                     *)
LEMMA EventsGrow ==
  ASSUME TypeOK, SpawnedOnce, Wiring, [Next]_vars
  PROVE  UNCHANGED emitted \/ \E e \in Event : emitted' = Append(emitted, e)
<1>1. ASSUME NEW l \in StartCalls, NEW type \in TaskEvent, NEW r \in ProcessResult,
             NEW pc \in {"replying", "reporting"}, Says(l, type, r, pc)
      PROVE  \E e \in Event : emitted' = Append(emitted, e)
  <2>1. [type |-> type, msg |-> current[l], result |-> r] \in Event
    BY DEF Event, TypeOK
  <2>2. QED
    BY <1>1, <2>1 DEF Says
<1>2. QED
  BY <1>1, Moves DEF Aside, Send, Takes, Leaves, Advances

LEMMA ToldStays ==
  ASSUME TypeOK, SpawnedOnce, Wiring, [Next]_vars, NEW type, Told(type)
  PROVE  Told(type)'
<1>1. ASSUME NEW e \in Event, emitted' = Append(emitted, e)
      PROVE  Told(type)'
  <2>1. PICK i \in DOMAIN emitted : emitted[i].type = type
    BY DEF Told
  <2>2. i \in DOMAIN emitted' /\ emitted'[i] = emitted[i]
    BY <1>1, Appended DEF TypeOK
  <2>3. QED
    BY <2>1, <2>2 DEF Told
<1>2. QED
  BY <1>1, EventsGrow DEF Told

LEMMA BornStep ==
  TypeOK /\ SpawnedOnce /\ Wiring /\ Born /\ [Next]_vars => Born'
<1> SUFFICES ASSUME TypeOK, SpawnedOnce, Wiring, Born, [Next]_vars,
                    NEW k \in StartCalls, loop'[k] # "absent"
             PROVE  Told("AGENT_STARTED")'
  BY DEF Born
<1>1. CASE loop[k] # "absent"
  BY <1>1, ToldStays DEF Born
<1>2. ASSUME NEW s \in StartCalls, StartRun(s)
      PROVE  Told("AGENT_STARTED")'
  <2> DEFINE e == [type |-> "AGENT_STARTED", msg |-> None, result |-> None]
  <2>1. e \in Event /\ e.type = "AGENT_STARTED"
    BY DEF Event, AgentEvent
  <2>2. emitted' = Append(emitted, e)
    BY <1>2 DEF StartRun, Emit, Wiring, CallbackBound
  <2> HIDE DEF e
  <2>3. QED
    BY <2>1, <2>2, Appended DEF Told, TypeOK
<1>3. ASSUME NEW l \in StartCalls,
             LoopStep(l) \/ Cancelled(l) \/ CancelledUnborn(l)
      PROVE  loop[k] # "absent"
  BY <1>3, LoopMoves DEF LivePc, InFlightPc, TypeOK
<1>4. QED
  BY <1>1, <1>2, <1>3
     DEF Next, vars, Initialize, InitializeRaises, SetCallback, Send, StartStep,
         StartBegin, StartRefused, StartHookRaises, ShutdownFromInside, ShutdownBegin,
         ShutdownStep, ShutdownHookRaises, ShutdownJoin, ShutdownTerminate,
         ShutdownJoinRaises, loopVars

(* Only the end of a shutdown() call tells of the end of the agent.        *)
LEMMA OnlyShutdownTells ==
  ASSUME TypeOK, SpawnedOnce, Wiring, [Next]_vars, Told("AGENT_TERMINATED")'
  PROVE  \/ Told("AGENT_TERMINATED")
         \/ \E c \in ShutdownCalls : ShutdownTerminate(c)
<1>1. ASSUME NEW e \in Event, emitted' = Append(emitted, e),
             e.type # "AGENT_TERMINATED"
      PROVE  Told("AGENT_TERMINATED")
  BY <1>1, Appended DEF Told, TypeOK
<1>2. ASSUME UNCHANGED emitted
      PROVE  Told("AGENT_TERMINATED")
  BY <1>2 DEF Told
<1>3. ASSUME NEW type \in AgentEvent \ {"AGENT_TERMINATED"}, Emit(type, None, None)
      PROVE  Told("AGENT_TERMINATED")
  <2> DEFINE e == [type |-> type, msg |-> None, result |-> None]
  <2>1. e \in Event /\ e.type # "AGENT_TERMINATED"
    BY DEF Event
  <2>2. emitted' = emitted \/ emitted' = Append(emitted, e)
    BY <1>3 DEF Emit
  <2> HIDE DEF e
  <2>3. CASE emitted' = Append(emitted, e)
    BY <1>1, <2>1, <2>3
  <2>4. QED
    BY <1>2, <2>2, <2>3
<1>4. ASSUME NEW l \in StartCalls,
             LoopStep(l) \/ Cancelled(l) \/ CancelledUnborn(l)
      PROVE  Told("AGENT_TERMINATED")
  <2>1. ASSUME NEW type \in TaskEvent, NEW r \in ProcessResult,
               NEW pc \in {"replying", "reporting"}, Says(l, type, r, pc)
        PROVE  Told("AGENT_TERMINATED")
    <3> DEFINE e == [type |-> type, msg |-> current[l], result |-> r]
    <3>1. e \in Event /\ e.type = type
      BY DEF Event, TypeOK
    <3>2. emitted' = Append(emitted, e)
      BY <2>1 DEF Says
    <3>3. type # "AGENT_TERMINATED"
      BY DEF TaskEvent, LastTaskOutcome
    <3> HIDE DEF e
    <3>4. QED
      BY <1>1, <3>1, <3>2, <3>3
  <2>2. ASSUME Takes(l) \/ Leaves(l) \/ Advances(l)
        PROVE  Told("AGENT_TERMINATED")
    BY <1>2, <2>2 DEF Takes, Leaves, Advances
  <2>3. QED
    BY <1>4, <2>1, <2>2, LoopStepMoves
<1>5. ASSUME NEW s \in StartCalls, StartRefused(s) \/ StartRun(s)
      PROVE  Told("AGENT_TERMINATED")
  BY <1>3, <1>5 DEF StartRefused, StartRun, AgentEvent
<1>6. QED
  BY <1>2, <1>4, <1>5
     DEF Next, vars, Initialize, InitializeRaises, SetCallback, Send, StartStep,
         StartBegin, StartHookRaises, ShutdownFromInside, ShutdownBegin,
         ShutdownStep, ShutdownHookRaises, ShutdownJoin, ShutdownJoinRaises

(* A join waits for the only loop there is to end; a loop spawned after    *)
(* the end is stopped by the event at its first test.                      *)
LEMMA BuriedStep ==
  TypeOK /\ SpawnedOnce /\ Wiring /\ Asked /\ Buried /\ OneLoopSpawned /\ [Next]_vars
    => Buried'
<1> SUFFICES ASSUME TypeOK, SpawnedOnce, Wiring, Asked, Buried, OneLoopSpawned,
                    [Next]_vars, Told("AGENT_TERMINATED")'
             PROVE  /\ shutdownEvent'
                    /\ \A k \in StartCalls :
                         loop'[k] \in {"absent", "scheduled"} \cup DonePc
  BY DEF Buried
<1>1. ASSUME NEW c \in ShutdownCalls, ShutdownTerminate(c)
      PROVE  /\ shutdownEvent'
             /\ \A k \in StartCalls :
                  loop'[k] \in {"absent", "scheduled"} \cup DonePc
  <2>1. shutdownEvent' /\ loop' = loop
    BY <1>1 DEF ShutdownTerminate, Asked, loopVars
  <2>2. CASE task = None
    BY <2>1, <2>2 DEF Wiring, TaskKnown
  <2>3. CASE stop[c] = "joining" /\ loop[awaited[c]] = "exited"
    <3>1. \A k \in StartCalls : loop[k] # "absent" => k = awaited[c]
      BY <2>3 DEF OneLoopSpawned, Wiring, TaskKnown
    <3>2. QED
      BY <2>1, <2>3, <3>1 DEF DonePc
  <2>4. QED
    BY <1>1, <2>2, <2>3 DEF ShutdownTerminate
<1>2. CASE Told("AGENT_TERMINATED")
  <2>1. shutdownEvent /\ \A l \in StartCalls : loop[l] \in {"absent", "scheduled"} \cup DonePc
    BY <1>2 DEF Buried
  <2>2. CASE UNCHANGED <<shutdownEvent, loop>>
    BY <2>1, <2>2
  <2>3. ASSUME NEW l \in StartCalls,
               LoopStep(l) \/ Cancelled(l) \/ CancelledUnborn(l)
        PROVE  /\ shutdownEvent'
               /\ \A k \in StartCalls :
                    loop'[k] \in {"absent", "scheduled"} \cup DonePc
    <3>1. shutdownEvent' /\ loop[l] = "scheduled"
      BY <2>1, <2>3, LoopMoves DEF LivePc, InFlightPc, DonePc
    <3>2. LoopBegin(l) \/ CancelledUnborn(l)
      BY <2>3, <3>1
         DEF LoopStep, Receive, PollTimeout, PreconditionsPass, PreconditionsFail,
             ProcessReturns, PostconditionsPass, PostconditionsFail,
             PostconditionsPanic, Raises, Finish, Cancelled, InFlightPc
    <3>3. \E pc \in DonePc : loop' = [loop EXCEPT ![l] = pc]
      BY <2>1, <3>2 DEF LoopBegin, NextIteration, CancelledUnborn, DonePc
    <3>4. QED
      BY <2>1, <3>1, <3>3 DEF TypeOK
  <2>4. ASSUME NEW s \in StartCalls, StartRun(s)
        PROVE  /\ shutdownEvent'
               /\ \A k \in StartCalls :
                    loop'[k] \in {"absent", "scheduled"} \cup DonePc
    BY <2>1, <2>4 DEF StartRun, TypeOK
  <2>5. ASSUME \/ \E l \in StartCalls : ShutdownFromInside(l)
               \/ \E c \in ShutdownCalls : ShutdownBegin(c)
        PROVE  shutdownEvent' /\ loop' = loop
    BY <2>5 DEF ShutdownFromInside, ShutdownBegin, loopVars
  <2>6. QED
    BY <1>1, <2>1, <2>2, <2>3, <2>4, <2>5
       DEF Next, vars, Initialize, InitializeRaises, SetCallback, Send, StartStep,
           StartBegin, StartRefused, StartHookRaises, ShutdownStep,
           ShutdownHookRaises, ShutdownJoin, ShutdownJoinRaises, loopVars
<1>3. QED
  BY <1>1, <1>2, OnlyShutdownTells

(* With one loop every answer comes after AGENT_STARTED and before *)
(* any AGENT_TERMINATED, also when start() outlives a whole shutdown().    *)
THEOREM WithinLifetime == Spec /\ []OneLoopSpawned => []AnswersWithinLifetime
<1>1. Init => Asked /\ Born /\ Buried /\ AnswersWithinLifetime
  BY DEF Init, Asked, Born, Buried, Told, AnswersWithinLifetime
<1>2. TypeOK /\ SpawnedOnce /\ Wiring /\ Asked /\ Born /\ Buried /\ OneLoopSpawned
        /\ [Next]_vars => Asked' /\ Born' /\ Buried'
  BY AskedStep, BornStep, BuriedStep
<1>3. TypeOK /\ SpawnedOnce /\ Wiring /\ Born /\ Buried /\ AnswersWithinLifetime
        /\ [Next]_vars => AnswersWithinLifetime'
  <2> SUFFICES ASSUME TypeOK, SpawnedOnce, Wiring, Born, Buried,
                      AnswersWithinLifetime, [Next]_vars
               PROVE  AnswersWithinLifetime'
    OBVIOUS
  <2>1. CASE UNCHANGED emitted
    BY <2>1 DEF AnswersWithinLifetime
  <2>2. ASSUME NEW e \in Event, emitted' = Append(emitted, e),
               e.msg # None => /\ Told("AGENT_STARTED")
                               /\ ~ Told("AGENT_TERMINATED")
                               /\ e.type # "AGENT_TERMINATED"
        PROVE  AnswersWithinLifetime'
    <3>1. /\ Len(emitted) \in Nat /\ DOMAIN emitted = 1 .. Len(emitted)
          /\ DOMAIN emitted' = 1 .. Len(emitted) + 1
          /\ emitted'[Len(emitted) + 1] = e
          /\ \A n \in 1 .. Len(emitted) : emitted'[n] = emitted[n]
      BY <2>2, Appended DEF TypeOK
    <3>2. ASSUME NEW i \in 1 .. Len(emitted), emitted'[i].msg # None
          PROVE  /\ \E j \in 1 .. i : emitted'[j].type = "AGENT_STARTED"
                 /\ \A j \in 1 .. i : emitted'[j].type # "AGENT_TERMINATED"
      <4>1. \A j \in 1 .. i : j \in 1 .. Len(emitted)
        BY <3>1
      <4>2. QED
        BY <3>1, <3>2, <4>1 DEF AnswersWithinLifetime
    <3>3. ASSUME e.msg # None
          PROVE  /\ \E j \in 1 .. Len(emitted) + 1 : emitted'[j].type = "AGENT_STARTED"
                 /\ \A j \in 1 .. Len(emitted) + 1 : emitted'[j].type # "AGENT_TERMINATED"
      <4>1. \A j \in 1 .. Len(emitted) + 1 :
              j \in 1 .. Len(emitted) \/ j = Len(emitted) + 1
        BY <3>1
      <4>2. 1 .. Len(emitted) \subseteq 1 .. Len(emitted) + 1
        BY <3>1
      <4>3. QED
        BY <2>2, <3>1, <3>3, <4>1, <4>2 DEF Told
    <3>4. \A i \in DOMAIN emitted' : i \in 1 .. Len(emitted) \/ i = Len(emitted) + 1
      BY <3>1
    <3>5. QED
      BY <3>1, <3>2, <3>3, <3>4 DEF AnswersWithinLifetime
  <2>3. CASE Aside
    BY <2>1, <2>2, <2>3 DEF Aside
  <2>4. ASSUME NEW l \in StartCalls, NEW type \in TaskEvent, NEW r \in ProcessResult,
               NEW pc \in {"replying", "reporting"}, Says(l, type, r, pc)
        PROVE  AnswersWithinLifetime'
    <3> DEFINE e == [type |-> type, msg |-> current[l], result |-> r]
    <3>1. e \in Event /\ e.type # "AGENT_TERMINATED"
      BY DEF Event, TypeOK, TaskEvent, LastTaskOutcome
    <3>2. emitted' = Append(emitted, e)
      BY <2>4 DEF Says
    <3>3. loop[l] \in InFlightPc
      BY <2>4 DEF Says, Held, InFlightPc
    <3>4. Told("AGENT_STARTED") /\ ~ Told("AGENT_TERMINATED")
      BY <3>3 DEF Born, Buried, InFlightPc, DonePc
    <3> HIDE DEF e
    <3>5. QED
      BY <2>2, <3>1, <3>2, <3>4
  <2>5. QED
    BY <2>1, <2>3, <2>4, Moves DEF Send, Takes, Leaves, Advances
<1>4. QED
  BY <1>1, <1>2, <1>3, Wired, PTL DEF Spec

------------------------------------------------------------------------------
(* The loop and the mailbox follow the order of send().                    *)
InLine ==
  /\ Len(mailbox) <= Len(accepted)
  /\ \A a \in 1 .. Len(mailbox) : mailbox[a] = accepted[Taken + a]
  /\ \A l \in Busy : Taken >= 1 /\ current[l] = accepted[Taken]
  /\ \A i \in DOMAIN emitted : emitted[i].msg # None =>
        \E a \in 1 .. Taken : accepted[a] = emitted[i].msg

LEMMA Lengths ==
  ASSUME TypeOK, InLine
  PROVE  /\ Len(mailbox) \in Nat /\ Len(accepted) \in Nat /\ Taken \in Nat
         /\ Taken + Len(mailbox) = Len(accepted)
         /\ DOMAIN accepted = 1 .. Len(accepted)
         /\ DOMAIN emitted = 1 .. Len(emitted) /\ Len(emitted) \in Nat
         /\ 1 .. Taken \subseteq 1 .. Len(accepted)
<1>1. /\ Len(mailbox) \in Nat /\ Len(accepted) \in Nat
      /\ DOMAIN accepted = 1 .. Len(accepted)
      /\ DOMAIN emitted = 1 .. Len(emitted) /\ Len(emitted) \in Nat
  BY DEF TypeOK
<1>2. QED
  BY <1>1 DEF InLine, Taken

(* send() lengthens the mailbox and the history by the same message.       *)
LEMMA SendInLine ==
  ASSUME TypeOK, InLine, NEW m \in Messages, Send(m)
  PROVE  /\ InLine' /\ Taken' = Taken
         /\ \A a \in 1 .. Taken : accepted'[a] = accepted[a]
<1>1. /\ mailbox' = Append(mailbox, m) /\ accepted' = Append(accepted, m)
      /\ UNCHANGED <<loop, current, emitted>>
  BY DEF Send, loopVars
<1>2. /\ Len(mailbox') = Len(mailbox) + 1 /\ Len(accepted') = Len(accepted) + 1
      /\ mailbox'[Len(mailbox) + 1] = m /\ accepted'[Len(accepted) + 1] = m
      /\ \A a \in 1 .. Len(mailbox) : mailbox'[a] = mailbox[a]
      /\ \A a \in 1 .. Len(accepted) : accepted'[a] = accepted[a]
  BY <1>1 DEF TypeOK
<1>3. Taken' = Taken
  BY <1>2, Lengths DEF Taken
<1>4. \A a \in 1 .. Taken : accepted'[a] = accepted[a]
  BY <1>2, Lengths
<1>5. ASSUME NEW a \in 1 .. Len(mailbox')
      PROVE  mailbox'[a] = accepted'[Taken + a]
  <2>1. CASE a = Len(mailbox) + 1
    BY <1>2, <2>1, Lengths
  <2>2. CASE a # Len(mailbox) + 1
    <3>1. a \in 1 .. Len(mailbox) /\ Taken + a \in 1 .. Len(accepted)
      BY <1>2, <2>2, Lengths
    <3>2. QED
      BY <1>2, <3>1 DEF InLine
  <2>3. QED
    BY <2>1, <2>2
<1>6. \A l \in Busy : Taken >= 1 /\ current[l] = accepted'[Taken]
  BY <1>4, Lengths DEF InLine
<1>7. \A i \in DOMAIN emitted : emitted[i].msg # None =>
         \E a \in 1 .. Taken : accepted'[a] = emitted[i].msg
  BY <1>4 DEF InLine
<1>8. Len(mailbox') <= Len(accepted')
  BY <1>2, Lengths
<1>9. QED
  BY <1>1, <1>3, <1>4, <1>5, <1>6, <1>7, <1>8 DEF InLine, Busy

(* get() hands out the next message in line.                               *)
LEMMA TakesInLine ==
  ASSUME TypeOK, InLine, OneLoopSpawned', NEW l \in StartCalls, Takes(l)
  PROVE  /\ InLine' /\ Taken' = Taken + 1
         /\ UNCHANGED <<accepted, emitted>>
<1>1. /\ mailbox # <<>> /\ mailbox' = Tail(mailbox)
      /\ current'[l] = mailbox[1] /\ UNCHANGED <<accepted, emitted>>
  BY DEF Takes, Pop, TypeOK
<1>2. /\ Len(mailbox') = Len(mailbox) - 1 /\ Len(mailbox) >= 1
      /\ \A a \in 1 .. Len(mailbox) - 1 : mailbox'[a] = mailbox[a + 1]
  BY <1>1 DEF TypeOK
<1>3. Taken' = Taken + 1
  BY <1>1, <1>2, Lengths DEF Taken
<1>4. ASSUME NEW a \in 1 .. Len(mailbox')
      PROVE  mailbox'[a] = accepted[Taken + 1 + a]
  <2>1. a \in 1 .. Len(mailbox) - 1 /\ a + 1 \in 1 .. Len(mailbox)
    BY <1>2, Lengths
  <2>2. Taken + (a + 1) = Taken + 1 + a
    BY <2>1, Lengths
  <2>3. QED
    BY <1>2, <2>1, <2>2 DEF InLine
<1>5. current'[l] = accepted[Taken + 1]
  BY <1>1, <1>2, Lengths DEF InLine
<1>6. \A k \in Busy' : k = l
  BY DEF OneLoopSpawned, Busy, InFlightPc, Takes, Pop, TypeOK
<1>7. 1 .. Taken \subseteq 1 .. Taken + 1
  BY Lengths
<1>8. \A i \in DOMAIN emitted : emitted[i].msg # None =>
         \E a \in 1 .. Taken + 1 : accepted[a] = emitted[i].msg
  BY <1>7 DEF InLine
<1>9. Len(mailbox') <= Len(accepted) /\ Taken + 1 >= 1
  BY <1>2, Lengths
<1>10. QED
  BY <1>1, <1>3, <1>4, <1>5, <1>6, <1>8, <1>9 DEF InLine

(* An answer is to the message taken last.                                 *)
LEMMA SaysInLine ==
  ASSUME TypeOK, InLine, NEW l \in StartCalls, NEW type \in TaskEvent,
         NEW r \in ProcessResult, NEW pc \in {"replying", "reporting"},
         Says(l, type, r, pc)
  PROVE  /\ InLine'
         /\ Taken >= 1 /\ current[l] = accepted[Taken]
         /\ emitted' = Append(emitted, [type |-> type, msg |-> current[l],
                                        result |-> r])
         /\ [type |-> type, msg |-> current[l], result |-> r] \in Event
<1> DEFINE e == [type |-> type, msg |-> current[l], result |-> r]
<1>1. /\ loop[l] \in InFlightPc /\ loop' = [loop EXCEPT ![l] = pc]
      /\ UNCHANGED <<mailbox, current, accepted>>
      /\ emitted' = Append(emitted, e)
  BY DEF Says, Held, InFlightPc
<1>2. e \in Event /\ e.msg = current[l]
  BY DEF Event, TypeOK
<1>3. Busy' = Busy /\ l \in Busy
  BY <1>1 DEF Busy, InFlightPc, TypeOK
<1>4. Taken >= 1 /\ current[l] = accepted[Taken] /\ Taken' = Taken
  BY <1>1, <1>3 DEF InLine, Taken
<1> HIDE DEF e
<1>5. \A i \in DOMAIN emitted' : \/ i \in DOMAIN emitted /\ emitted'[i] = emitted[i]
                                 \/ emitted'[i] = e
  BY <1>1, <1>2, Appended DEF TypeOK
<1>6. \A i \in DOMAIN emitted' : emitted'[i].msg # None =>
         \E a \in 1 .. Taken : accepted[a] = emitted'[i].msg
  <2>1. Taken \in 1 .. Taken
    BY <1>4, Lengths
  <2>2. QED
    BY <1>2, <1>4, <1>5, <2>1 DEF InLine
<1>7. InLine'
  BY <1>1, <1>3, <1>4, <1>6 DEF InLine
<1>8. QED
  BY <1>1, <1>2, <1>4, <1>7 DEF e

(* The other steps take nothing and answer nothing.                        *)
LEMMA IdleInLine ==
  ASSUME TypeOK, InLine, OneLoopSpawned',
         Aside \/ \E l \in StartCalls : Leaves(l) \/ Advances(l)
  PROVE  InLine' /\ UNCHANGED <<accepted, mailbox>> /\ Taken' = Taken
<1>1. UNCHANGED <<accepted, mailbox>> /\ Taken' = Taken
  BY DEF Aside, Leaves, Advances, Taken
<1>2. \A k \in Busy' : k \in Busy /\ current'[k] = current[k]
  <2>1. CASE Aside
    BY <2>1 DEF Aside, Busy, InFlightPc
  <2>2. ASSUME NEW l \in StartCalls, Leaves(l)
        PROVE  Busy' = {}
    BY <2>2 DEF OneLoopSpawned, Leaves, Busy, InFlightPc, DonePc, TypeOK
  <2>3. ASSUME NEW l \in StartCalls, Advances(l)
        PROVE  Busy' = Busy /\ UNCHANGED current
    BY <2>3 DEF Advances, Busy, InFlightPc, TypeOK
  <2>4. QED
    BY <2>1, <2>2, <2>3
<1>3. \A i \in DOMAIN emitted' : \/ i \in DOMAIN emitted /\ emitted'[i] = emitted[i]
                                 \/ emitted'[i].msg = None
  <2>1. ASSUME NEW e \in Event, emitted' = Append(emitted, e), e.msg = None
        PROVE  \A i \in DOMAIN emitted' :
                 \/ i \in DOMAIN emitted /\ emitted'[i] = emitted[i]
                 \/ emitted'[i].msg = None
    BY <2>1, Appended DEF TypeOK
  <2>2. QED
    BY <2>1 DEF Aside, Leaves, Advances
<1>4. QED
  BY <1>1, <1>2, <1>3 DEF InLine

LEMMA InLineStep ==
  TypeOK /\ SpawnedOnce /\ Wiring /\ InLine /\ OneLoopSpawned' /\ [Next]_vars => InLine'
  BY Moves, SendInLine, TakesInLine, SaysInLine, IdleInLine

LEMMA AlwaysInLine == Spec /\ []OneLoopSpawned => []InLine
<1>1. Init => InLine
  BY DEF Init, InLine, Busy, InFlightPc, Taken
<1>2. QED
  BY <1>1, InLineStep, Wired, PTL DEF Spec

(* With one loop, answers come in the order in which send()        *)
(* accepted the messages, retractions included.                            *)
THEOREM InOrder == Spec /\ []OneLoopSpawned => []AnswersInOrder
<1>1. Init => AnswersInOrder
  BY DEF Init, AnswersInOrder
<1>2. TypeOK /\ SpawnedOnce /\ Wiring /\ InLine /\ InLine' /\ AnswersInOrder
        /\ [Next]_vars => AnswersInOrder'
  <2> SUFFICES ASSUME TypeOK, SpawnedOnce, Wiring, InLine, InLine', AnswersInOrder,
                      [Next]_vars,
                      NEW i \in DOMAIN emitted', NEW j \in DOMAIN emitted', i < j,
                      emitted'[i].msg # None, emitted'[j].msg # None
               PROVE  \E a, b \in DOMAIN accepted' :
                        /\ a <= b
                        /\ accepted'[a] = emitted'[i].msg
                        /\ accepted'[b] = emitted'[j].msg
    BY DEF AnswersInOrder
  <2>1. CASE UNCHANGED <<accepted, emitted>>
    BY <2>1 DEF AnswersInOrder
  <2>2. ASSUME NEW m \in Messages, Send(m)
        PROVE  \E a, b \in DOMAIN accepted' :
                 /\ a <= b
                 /\ accepted'[a] = emitted'[i].msg
                 /\ accepted'[b] = emitted'[j].msg
    <3>1. UNCHANGED emitted /\ accepted' = Append(accepted, m)
      BY <2>2 DEF Send
    <3>2. \A a \in DOMAIN accepted : a \in DOMAIN accepted' /\ accepted'[a] = accepted[a]
      BY <3>1, Appended DEF TypeOK
    <3>3. QED
      BY <3>1, <3>2 DEF AnswersInOrder
  <2>3. ASSUME NEW e \in Event, emitted' = Append(emitted, e), UNCHANGED accepted,
               e.msg # None => Taken >= 1 /\ e.msg = accepted[Taken]
        PROVE  \E a, b \in DOMAIN accepted' :
                 /\ a <= b
                 /\ accepted'[a] = emitted'[i].msg
                 /\ accepted'[b] = emitted'[j].msg
    <3>1. /\ Len(emitted) \in Nat /\ DOMAIN emitted = 1 .. Len(emitted)
          /\ DOMAIN emitted' = 1 .. Len(emitted) + 1
          /\ emitted'[Len(emitted) + 1] = e
          /\ \A n \in 1 .. Len(emitted) : emitted'[n] = emitted[n]
      BY <2>3, Appended DEF TypeOK
    <3>2. i \in DOMAIN emitted /\ emitted'[i] = emitted[i]
      BY <3>1
    <3>3. CASE j \in DOMAIN emitted
      <4>1. emitted'[j] = emitted[j]
        BY <3>1, <3>3
      <4>2. QED
        BY <2>3, <3>2, <3>3, <4>1 DEF AnswersInOrder
    <3>4. CASE j \notin DOMAIN emitted
      <4>1. emitted'[j] = e
        BY <3>1, <3>4
      <4>2. PICK a \in 1 .. Taken : accepted[a] = emitted[i].msg
        BY <3>2 DEF InLine
      <4>3. /\ Taken \in DOMAIN accepted /\ a \in DOMAIN accepted /\ a <= Taken
        BY <2>3, <4>1, Lengths
      <4>4. QED
        BY <2>3, <3>2, <4>1, <4>2, <4>3
    <3>5. QED
      BY <3>3, <3>4
  <2>4. CASE Aside
    BY <2>1, <2>3, <2>4 DEF Aside
  <2>5. ASSUME NEW l \in StartCalls, NEW type \in TaskEvent, NEW r \in ProcessResult,
               NEW pc \in {"replying", "reporting"}, Says(l, type, r, pc)
        PROVE  \E a, b \in DOMAIN accepted' :
                 /\ a <= b
                 /\ accepted'[a] = emitted'[i].msg
                 /\ accepted'[b] = emitted'[j].msg
    <3> DEFINE e == [type |-> type, msg |-> current[l], result |-> r]
    <3>1. /\ Taken >= 1 /\ e.msg = accepted[Taken] /\ e \in Event
          /\ emitted' = Append(emitted, e) /\ UNCHANGED accepted
      BY <2>5, SaysInLine DEF Says
    <3> HIDE DEF e
    <3>2. QED
      BY <2>3, <3>1
  <2>6. QED
    BY <2>1, <2>2, <2>4, <2>5, Moves DEF Takes, Leaves, Advances
<1>3. QED
  BY <1>1, <1>2, AlwaysInLine, Wired, PTL DEF Spec

------------------------------------------------------------------------------
(* A message that was taken and has no answer is the last one taken: the   *)
(* loop works on it, or ended while it did.                                *)
Unanswered ==
  None \notin Results =>
    \A i \in 1 .. Taken : Answers(accepted[i]) = {} =>
      i = Taken /\ \E l \in StartCalls : loop[l] \in Held \cup DonePc

(* A loop that holds a message it has not answered, or has ended, does not *)
(* go back to the mailbox, and no start() begins anew.                     *)
LEMMA Holding ==
  ASSUME OneLoopSpawned, TypeOK, SpawnedOnce, Wiring, None \notin Results, [Next]_vars,
         NEW k \in StartCalls, loop[k] \in Held \cup DonePc
  PROVE  loop'[k] \notin {"absent", "scheduled", "polling"} /\ ~ Takes(k)
<1>1. CASE Len(mailbox') >= Len(mailbox) /\ loop'[k] = loop[k]
  <2>1. ~ Takes(k)
    <3> SUFFICES ASSUME Takes(k)
                 PROVE  FALSE
      OBVIOUS
    <3>1. mailbox # <<>> /\ mailbox' = Tail(mailbox)
      BY DEF Takes, Pop
    <3>2. Len(mailbox') = Len(mailbox) - 1 /\ Len(mailbox) \in Nat
      BY <3>1 DEF TypeOK
    <3>3. QED
      BY <1>1, <3>2
  <2>2. QED
    BY <1>1, <2>1 DEF Held, DonePc
<1>2. CASE UNCHANGED <<mailbox, loop>>
  <2>1. Len(mailbox) \in Nat
    BY DEF TypeOK
  <2>2. QED
    BY <1>1, <1>2, <2>1
<1>3. ASSUME NEW m \in Messages, Send(m)
      PROVE  Len(mailbox') >= Len(mailbox) /\ loop'[k] = loop[k]
  BY <1>3 DEF Send, loopVars, TypeOK
<1>4. ASSUME NEW s \in StartCalls, StartRun(s)
      PROVE  Len(mailbox') >= Len(mailbox) /\ loop'[k] = loop[k]
  BY <1>4 DEF StartRun, SpawnedOnce, Held, DonePc, TypeOK
<1>5. ASSUME NEW l \in StartCalls,
             LoopStep(l) \/ Cancelled(l) \/ CancelledUnborn(l)
      PROVE  loop'[k] \notin {"absent", "scheduled", "polling"} /\ ~ Takes(k)
  <2>1. CASE l = k
    <3>1. loop[k] \in Held
      BY <1>5, <2>1, LoopMoves DEF LivePc, InFlightPc, DonePc, Held
    <3>2. ~ PostconditionsPanic(k)
      BY DEF PostconditionsPanic, Wiring, LocalsKnown
    <3>3. loop'[k] \in {"processing", "postchecking", "replying", "reporting", "exited"}
      BY <1>5, <2>1, <3>1, <3>2
         DEF LoopStep, LoopBegin, Receive, PollTimeout, PreconditionsPass,
             PreconditionsFail, ProcessReturns, PostconditionsPass,
             PostconditionsFail, Raises, Finish, ReportInfrastructureFailure, Report,
             Cancelled, CancelledUnborn, Held, TypeOK
    <3>4. QED
      BY <3>3 DEF Takes, Pop, TypeOK
  <2>2. l = k
    BY <1>5, LoopMoves DEF OneLoopSpawned, LivePc, InFlightPc, Held, DonePc
  <2>3. QED
    BY <2>1, <2>2
<1>6. QED
  BY <1>1, <1>2, <1>3, <1>4, <1>5
     DEF Next, vars, Initialize, InitializeRaises, SetCallback, StartStep, StartBegin,
         StartRefused, StartHookRaises, ShutdownFromInside, ShutdownBegin, ShutdownStep,
         ShutdownHookRaises, ShutdownJoin, ShutdownTerminate, ShutdownJoinRaises,
         loopVars

LEMMA UnansweredStep ==
  TypeOK /\ SpawnedOnce /\ Wiring /\ InLine /\ Unanswered
    /\ OneLoopSpawned /\ OneLoopSpawned' /\ [Next]_vars => Unanswered'
<1> SUFFICES ASSUME TypeOK, SpawnedOnce, Wiring, InLine, Unanswered,
                    OneLoopSpawned, OneLoopSpawned', [Next]_vars,
                    None \notin Results, NEW i \in 1 .. Taken',
                    \A n \in DOMAIN emitted' : emitted'[n].msg # accepted'[i]
             PROVE  i = Taken' /\ \E k \in StartCalls : loop'[k] \in Held \cup DonePc
  BY DEF Unanswered, Answers
<1>2. \A n \in DOMAIN emitted : n \in DOMAIN emitted' /\ emitted'[n] = emitted[n]
  <2>1. ASSUME NEW e \in Event, emitted' = Append(emitted, e)
        PROVE  \A n \in DOMAIN emitted : n \in DOMAIN emitted' /\ emitted'[n] = emitted[n]
    BY <2>1, Appended DEF TypeOK
  <2>2. QED
    BY <2>1, EventsGrow
<1>3. ASSUME i \in 1 .. Taken, accepted'[i] = accepted[i]
      PROVE  i = Taken /\ \E k \in StartCalls : loop[k] \in Held \cup DonePc
  <2>1. Answers(accepted[i]) = {}
    BY <1>2, <1>3 DEF Answers
  <2>2. QED
    BY <1>3, <2>1 DEF Unanswered
<1>4. ASSUME NEW l \in StartCalls, Takes(l)
      PROVE  i = Taken' /\ \E k \in StartCalls : loop'[k] \in Held \cup DonePc
  <2>1. Taken' = Taken + 1 /\ accepted' = accepted /\ Taken \in Nat
    BY <1>4, TakesInLine, Lengths
  <2>2. loop'[l] = "prechecking"
    BY <1>4 DEF Takes, Pop, TypeOK
  <2>3. \A k \in StartCalls : loop'[k] # "absent" => k = l
    BY <2>2 DEF OneLoopSpawned
  <2>4. \A k \in StartCalls : loop[k] \notin Held \cup DonePc
    BY <1>4, <2>3, Holding
  <2>5. i \notin 1 .. Taken
    BY <1>3, <2>1, <2>4
  <2>6. QED
    BY <2>1, <2>2, <2>5 DEF Held
<1>5. ASSUME NEW m \in Messages, Send(m)
      PROVE  i = Taken' /\ \E k \in StartCalls : loop'[k] \in Held \cup DonePc
  <2>1. Taken' = Taken /\ accepted'[i] = accepted[i] /\ loop' = loop
    BY <1>5, SendInLine DEF Send, loopVars
  <2>2. QED
    BY <1>3, <2>1
<1>6. CASE Aside \/ \E l \in StartCalls : Leaves(l) \/ Advances(l)
  <2>1. Taken' = Taken /\ accepted' = accepted
    BY <1>6, IdleInLine
  <2>2. PICK k \in StartCalls : i = Taken /\ loop[k] \in Held \cup DonePc
    BY <1>3, <2>1
  <2>3. loop'[k] \notin {"absent", "scheduled", "polling"}
    BY <2>2, Holding
  <2>4. loop'[k] \in Held \cup DonePc
    BY <1>6, <2>2, <2>3 DEF Aside, Leaves, Advances, Held, TypeOK
  <2>5. QED
    BY <2>1, <2>2, <2>4
<1>7. ASSUME NEW k \in StartCalls, NEW type \in TaskEvent, NEW r \in ProcessResult,
             NEW pc \in {"replying", "reporting"}, Says(k, type, r, pc)
      PROVE  FALSE
  <2> DEFINE e == [type |-> type, msg |-> current[k], result |-> r]
  <2>1. /\ current[k] = accepted[Taken] /\ e \in Event /\ e.msg = current[k]
        /\ emitted' = Append(emitted, e)
    BY <1>7, SaysInLine
  <2>2. UNCHANGED accepted /\ Taken' = Taken
    BY <1>7 DEF Says, Taken
  <2> HIDE DEF e
  <2>3. /\ Len(emitted) + 1 \in DOMAIN emitted'
        /\ emitted'[Len(emitted) + 1].msg = accepted[Taken]
    BY <2>1, Appended DEF TypeOK
  <2>4. i # Taken
    BY <2>2, <2>3
  <2>5. QED
    BY <1>3, <2>2, <2>4
<1>8. QED
  BY <1>4, <1>5, <1>6, <1>7, Moves

(* With one loop and a process() that returns results, every       *)
(* message that was taken is answered, unless the loop still works on it   *)
(* or was cancelled or stopped at it.                                      *)
THEOREM NothingDropped == Spec /\ []OneLoopSpawned => []NoSilentDrop
<1>1. Init => Unanswered
  BY DEF Init, Unanswered, Taken
<1>2. Unanswered => NoSilentDrop
  BY DEF Unanswered, NoSilentDrop, Held, InFlightPc
<1>3. QED
  BY <1>1, <1>2, UnansweredStep, AlwaysInLine, Wired, PTL DEF Spec

------------------------------------------------------------------------------
(* The status tells where the loop is, and last_process_result the answer  *)
(* to the message taken last.                                              *)
Unborn == (\A l \in StartCalls : loop[l] = "absent") => Taken = 0

Working == \A l \in StartCalls :
             loop[l] \in {"processing", "postchecking"} =>
               status \in {"PROCESSING", "TERMINATED"}

Latest == Taken >= 1 /\ Answers(accepted[Taken]) # {} =>
            \E i \in Answers(accepted[Taken]) : emitted[i].result = lastResult

LEMMA UnbornStep ==
  TypeOK /\ SpawnedOnce /\ Wiring /\ InLine /\ Unborn /\ [Next]_vars => Unborn'
<1> SUFFICES ASSUME TypeOK, SpawnedOnce, Wiring, InLine, Unborn, [Next]_vars,
                    \A l \in StartCalls : loop'[l] = "absent"
             PROVE  Taken' = 0
  BY DEF Unborn
<1>1. ASSUME NEW k \in StartCalls, Takes(k)
      PROVE  FALSE
  BY <1>1 DEF Takes, Pop, TypeOK
<1>2. ASSUME NEW k \in StartCalls, Leaves(k) \/ Advances(k)
      PROVE  FALSE
  BY <1>2 DEF Leaves, Advances, DonePc, TypeOK
<1>3. ASSUME NEW k \in StartCalls, NEW type \in TaskEvent, NEW r \in ProcessResult,
             NEW pc \in {"replying", "reporting"}, Says(k, type, r, pc)
      PROVE  FALSE
  BY <1>3 DEF Says, TypeOK
<1>4. CASE Aside
  BY <1>4 DEF Aside, Unborn, Taken
<1>5. ASSUME NEW m \in Messages, Send(m)
      PROVE  Taken' = 0
  BY <1>5, SendInLine DEF Send, Unborn, loopVars
<1>6. QED
  BY <1>1, <1>2, <1>3, <1>4, <1>5, Moves

LEMMA WorkingStep ==
  TypeOK /\ SpawnedOnce /\ Wiring /\ Working /\ OneLoopSpawned' /\ [Next]_vars
    => Working'
<1> SUFFICES ASSUME TypeOK, SpawnedOnce, Wiring, Working, OneLoopSpawned', [Next]_vars
             PROVE  Working'
  OBVIOUS
<1>1. CASE UNCHANGED <<status, loop>>
  BY <1>1 DEF Working
<1>2. ASSUME UNCHANGED loop, status' \in {"INITIALIZED", "TERMINATED"},
             status = "UNINITIALIZED" \/ status' = "TERMINATED"
      PROVE  Working'
  BY <1>2 DEF Working
<1>3. ASSUME NEW s \in StartCalls, StartRun(s)
      PROVE  Working'
  <2>1. loop' = [loop EXCEPT ![s] = "scheduled"]
    BY <1>3 DEF StartRun
  <2>2. loop'[s] = "scheduled" /\ \A k \in StartCalls : k # s => loop'[k] = "absent"
    BY <2>1 DEF OneLoopSpawned, TypeOK
  <2>3. QED
    BY <2>2 DEF Working
<1>4. ASSUME NEW l \in StartCalls,
             LoopStep(l) \/ Cancelled(l) \/ CancelledUnborn(l)
      PROVE  Working'
  <2>1. loop'[l] # "absent"
    BY <1>4, LoopMoves DEF TypeOK
  <2>2. \A k \in StartCalls : k # l => loop'[k] = "absent"
    BY <2>1 DEF OneLoopSpawned
  <2>3. loop'[l] = "processing" => status' = "PROCESSING"
    BY <1>4 DEF LoopStep, LoopBegin, Receive, PollTimeout, PreconditionsPass,
                PreconditionsFail, ProcessReturns, PostconditionsPass,
                PostconditionsFail, PostconditionsPanic, Raises, Finish, TaskDone,
                NextIteration, Pop, ReportInfrastructureFailure, Report, Cancelled,
                CancelledUnborn, TypeOK
  <2>4. loop'[l] = "postchecking" => loop[l] = "processing" /\ status' = status
    BY <1>4 DEF LoopStep, LoopBegin, Receive, PollTimeout, PreconditionsPass,
                PreconditionsFail, ProcessReturns, PostconditionsPass,
                PostconditionsFail, PostconditionsPanic, Raises, Finish, TaskDone,
                NextIteration, Pop, ReportInfrastructureFailure, Report, Cancelled,
                CancelledUnborn, TypeOK
  <2>5. QED
    BY <2>2, <2>3, <2>4 DEF Working
<1>5. QED
  BY <1>1, <1>2, <1>3, <1>4
     DEF Next, vars, Initialize, InitializeRaises, SetCallback, Send, StartStep,
         StartBegin, StartRefused, StartHookRaises, ShutdownFromInside, ShutdownBegin,
         ShutdownStep, ShutdownHookRaises, ShutdownJoin, ShutdownTerminate,
         ShutdownJoinRaises, loopVars

(* Only start() resets last_process_result, and it comes before the first  *)
(* message.                                                                *)
LEMMA LatestStep ==
  Answering /\ InLine /\ Unborn /\ Latest /\ OneLoopSpawned' /\ [Next]_vars => Latest'
<1> SUFFICES ASSUME Answering, InLine, Unborn, Latest, OneLoopSpawned', [Next]_vars
             PROVE  Latest'
  OBVIOUS
<1> USE DEF Answering
<1>1. CASE UNCHANGED <<mailbox, accepted, emitted, lastResult>>
  BY <1>1 DEF Latest, Answers, Taken
<1>2. ASSUME NEW m \in Messages, Send(m)
      PROVE  Latest'
  <2>1. Taken' = Taken /\ UNCHANGED <<emitted, lastResult>>
    BY <1>2, SendInLine DEF Send
  <2>2. Taken >= 1 => accepted'[Taken] = accepted[Taken]
    BY <1>2, SendInLine, Lengths
  <2>3. QED
    BY <2>1, <2>2 DEF Latest, Answers
<1>3. ASSUME NEW l \in StartCalls, Takes(l)
      PROVE  Latest'
  <2>1. /\ Taken' = Taken + 1 /\ UNCHANGED <<accepted, emitted>>
        /\ 1 \in 1 .. Len(mailbox) /\ 1 \in DOMAIN mailbox
    <3>1. mailbox # <<>>
      BY <1>3 DEF Takes, Pop
    <3>2. 1 \in 1 .. Len(mailbox) /\ 1 \in DOMAIN mailbox
      BY <3>1 DEF TypeOK
    <3>3. QED
      BY <1>3, <3>2, TakesInLine
  <2>2. Queued(accepted[Taken + 1]) /\ accepted[Taken + 1] \in Messages
    BY <2>1 DEF InLine, Queued, TypeOK
  <2>3. accepted[Taken + 1] # None
    BY <2>2, NoneAssumption
  <2>4. \A i \in DOMAIN emitted : emitted[i].msg # accepted[Taken + 1]
    BY <2>2, <2>3 DEF Owned
  <2>5. QED
    BY <2>1, <2>4 DEF Latest, Answers
<1>4. ASSUME NEW l \in StartCalls, NEW type \in TaskEvent, NEW r \in ProcessResult,
             NEW pc \in {"replying", "reporting"}, Says(l, type, r, pc)
      PROVE  Latest'
  <2> DEFINE e == [type |-> type, msg |-> current[l], result |-> r]
  <2>1. /\ e \in Event /\ e.msg = accepted[Taken] /\ e.result = lastResult'
        /\ emitted' = Append(emitted, e)
        /\ UNCHANGED accepted /\ Taken' = Taken
    BY <1>4, SaysInLine DEF Says, Taken
  <2> HIDE DEF e
  <2>2. /\ Len(emitted) + 1 \in DOMAIN emitted'
        /\ emitted'[Len(emitted) + 1] = e
    BY <2>1, Appended DEF TypeOK
  <2>3. QED
    BY <2>1, <2>2 DEF Latest, Answers
<1>5. ASSUME NEW e \in Event, emitted' = Append(emitted, e), e.msg = None,
             UNCHANGED <<mailbox, accepted>>, UNCHANGED lastResult \/ Taken = 0
      PROVE  Latest'
  <2>1. /\ \A n \in DOMAIN emitted : n \in DOMAIN emitted' /\ emitted'[n] = emitted[n]
        /\ \A n \in DOMAIN emitted' : n \in DOMAIN emitted \/ emitted'[n].msg = None
    BY <1>5, Appended DEF TypeOK
  <2>2. Taken' = Taken
    BY <1>5 DEF Taken
  <2>3. Taken >= 1 => accepted[Taken] # None
    BY Lengths, NoneAssumption DEF TypeOK
  <2>4. Taken >= 1 => Answers(accepted[Taken])' = Answers(accepted[Taken])
    BY <1>5, <2>1, <2>2, <2>3 DEF Answers
  <2>5. QED
    BY <1>5, <2>1, <2>2, <2>4 DEF Latest, Answers
<1>6. ASSUME NEW s \in StartCalls, StartRun(s)
      PROVE  Latest'
  <2> DEFINE e == [type |-> "AGENT_STARTED", msg |-> None, result |-> None]
  <2>1. e \in Event /\ e.msg = None
    BY DEF Event, AgentEvent
  <2>2. Taken = 0
    <3>1. loop[s] = "absent" /\ loop' = [loop EXCEPT ![s] = "scheduled"]
      BY <1>6 DEF StartRun, SpawnedOnce
    <3>2. \A l \in StartCalls : loop[l] = "absent"
      BY <3>1 DEF OneLoopSpawned, TypeOK
    <3>3. QED
      BY <3>2 DEF Unborn
  <2>3. emitted' = Append(emitted, e) /\ UNCHANGED <<mailbox, accepted>>
    BY <1>6 DEF StartRun, Emit, Wiring, CallbackBound
  <2> HIDE DEF e
  <2>4. QED
    BY <1>5, <2>1, <2>2, <2>3
<1>7. ASSUME NEW type \in AgentEvent, Emit(type, None, None),
             UNCHANGED <<mailbox, accepted, lastResult>>
      PROVE  Latest'
  <2> DEFINE e == [type |-> type, msg |-> None, result |-> None]
  <2>1. e \in Event /\ e.msg = None
    BY DEF Event
  <2>2. emitted' = emitted \/ emitted' = Append(emitted, e)
    BY <1>7 DEF Emit
  <2> HIDE DEF e
  <2>3. QED
    BY <1>1, <1>5, <1>7, <2>1, <2>2
<1>8. ASSUME \/ \E s \in StartCalls : StartRefused(s)
             \/ \E c \in ShutdownCalls : ShutdownTerminate(c)
      PROVE  Latest'
  BY <1>7, <1>8 DEF StartRefused, ShutdownTerminate, AgentEvent
<1>9. ASSUME NEW l \in StartCalls,
             LoopStep(l) \/ Cancelled(l) \/ CancelledUnborn(l)
      PROVE  Latest'
  <2>1. CASE Leaves(l) \/ Advances(l)
    BY <1>1, <2>1 DEF Leaves, Advances
  <2>2. QED
    BY <1>3, <1>4, <1>9, <2>1, LoopStepMoves
<1>10. QED
  BY <1>1, <1>2, <1>6, <1>8, <1>9
     DEF Next, vars, Initialize, InitializeRaises, SetCallback, StartStep, StartBegin,
         StartHookRaises, ShutdownFromInside, ShutdownBegin, ShutdownStep,
         ShutdownHookRaises, ShutdownJoin, ShutdownJoinRaises

(* With one loop, an orchestrator that reads READY and an empty    *)
(* mailbox from the handle may conclude that every message was answered    *)
(* and that last_process_result answers the last one, save for the two     *)
(* cases the property excludes.                                            *)
THEOREM IdleIsAnswered == Spec /\ []OneLoopSpawned => []IdleMeansAnswered
<1>1. Init => Unanswered /\ Unborn /\ Working /\ Latest
  BY DEF Init, Unanswered, Unborn, Working, Latest, Taken
<1>2. TypeOK /\ InLine /\ Unanswered /\ Working /\ Latest => IdleMeansAnswered
  <2> SUFFICES ASSUME TypeOK, InLine, Unanswered, Working, Latest,
                      None \notin Results, to_dict.readiness = "READY",
                      to_dict.runtime.mailbox_size = 0, accepted # <<>>,
                      \A l \in StartCalls : loop[l] \notin {"prechecking"} \cup DonePc
               PROVE  /\ \A m \in Range(accepted) : Answers(m) # {}
                      /\ \E i \in Answers(accepted[Len(accepted)]) :
                           emitted[i].result = to_dict.runtime.last_process_result
    BY DEF IdleMeansAnswered
  <2>1. /\ status = "WAITING" /\ Len(mailbox) = 0
        /\ to_dict.runtime.last_process_result = lastResult
    BY DEF to_dict, readiness, state
  <2>2. Taken = Len(accepted) /\ Taken >= 1 /\ Range(accepted) = {accepted[i] : i \in 1 .. Taken}
    BY <2>1, Lengths DEF Range, TypeOK
  <2>3. \A l \in StartCalls : loop[l] \notin Held \cup DonePc
    BY <2>1 DEF Working, Held
  <2>4. \A i \in 1 .. Taken : Answers(accepted[i]) # {}
    BY <2>3 DEF Unanswered
  <2>5. Taken \in 1 .. Taken
    BY <2>2, Lengths
  <2>6. QED
    BY <2>1, <2>2, <2>4, <2>5 DEF Latest
<1>3. QED
  BY <1>1, <1>2, UnansweredStep, UnbornStep, WorkingStep, LatestStep, AlwaysInLine,
     AllAnswering, Wired, PTL DEF Spec

(* With a single start() call all of this holds of the agent.              *)
COROLLARY SingleStartSuffices ==
  ASSUME SingleStart
  PROVE  Spec => /\ []AnswersWithinLifetime /\ []AnswersInOrder
                 /\ []NoSilentDrop /\ []IdleMeansAnswered
<1>1. OneLoopSpawned
  BY SingleStartSpawnsOne
<1>2. QED
  BY <1>1, WithinLifetime, InOrder, NothingDropped, IdleIsAnswered, PTL
==============================================================================
