-------------------------- MODULE AbstractURPProofs --------------------------
(***************************************************************************)
(* Proofs about AbstractURP, for every value of its constants.             *)
(***************************************************************************)
EXTENDS AbstractURPProps, FiniteSetTheorems, TLAPS

(* What emit() logs is an event.                                           *)
LEMMA EmitType ==
  ASSUME NEW type \in AgentEvent \cup TaskEvent, NEW m \in Messages \cup {None},
         NEW r \in ProcessResult \cup {None}, emitted \in Seq(Event),
         Emit(type, m, r)
  PROVE  emitted' \in Seq(Event)
<1>1. [type |-> type, msg |-> m, result |-> r] \in Event
  BY DEF Event
<1>2. QED
  BY <1>1 DEF Emit

(* The results the runtime makes up itself are process results.            *)
LEMMA FailedType ==
  ASSUME NEW cat \in FailureCategory
  PROVE  Failed(cat) \in ProcessResult
  BY DEF Failed, ProcessResult, LastTaskOutcome

(* So are the results of a violated hook, whatever the hook left as the    *)
(* category.                                                               *)
LEMMA ViolatedType ==
  ASSUME NEW r \in ProcessResult, NEW cat \in FailureCategory
  PROVE  Violated(r, cat) \in ProcessResult
  BY DEF Violated, ProcessResult, FailureCategory

(* Reporting a process result keeps the types.                             *)
LEMMA ReportType ==
  ASSUME TypeOK, NEW l \in StartCalls, NEW type \in TaskEvent,
         NEW r \in ProcessResult, NEW pc \in LoopPc, Report(l, type, r, pc)
  PROVE  TypeOK'
<1>1. emitted' \in Seq(Event)
  BY EmitType DEF Report, TypeOK
<1>2. QED
  BY <1>1 DEF Report, TypeOK, callVars

(* What the while test and the get() that follows it may leave behind.     *)
LEMMA NextIterationType ==
  ASSUME TypeOK, NEW l \in StartCalls, NextIteration(l)
  PROVE  /\ status' \in AgentStatus \ {"ERROR"}
         /\ mailbox' \in Seq(Messages)
         /\ loop' \in [StartCalls -> LoopPc]
         /\ current' \in [StartCalls -> Messages \cup {None}]
<1> USE DEF TypeOK, LoopPc, LivePc, InFlightPc, DonePc, AgentStatus
<1>1. CASE shutdownEvent /\ UNCHANGED <<status, mailbox>>
           /\ loop' = [loop EXCEPT ![l] = "exited"]
           /\ current' = [current EXCEPT ![l] = None]
  BY <1>1
<1>2. CASE status' = "WAITING" /\ Pop(l)
  <2>1. Head(mailbox) \in Messages /\ Tail(mailbox) \in Seq(Messages)
    BY <1>2 DEF Pop
  <2>2. QED
    BY <1>2, <2>1 DEF Pop
<1>3. CASE status' = "WAITING" /\ UNCHANGED mailbox
           /\ loop' = [loop EXCEPT ![l] = "polling"]
           /\ current' = [current EXCEPT ![l] = None]
  BY <1>3
<1>4. QED
  BY <1>1, <1>2, <1>3 DEF NextIteration

LEMMA InitTypeOK == Init => TypeOK
<1> SUFFICES ASSUME Init PROVE TypeOK
  OBVIOUS
<1>1. /\ status \in AgentStatus \ {"ERROR"}
      /\ callback \in BOOLEAN
      /\ shutdownEvent \in BOOLEAN
  BY DEF Init, AgentStatus
<1>2. /\ mailbox \in Seq(Messages)
      /\ accepted \in Seq(Messages)
      /\ emitted \in Seq(Event)
  BY DEF Init
<1>3. /\ start \in [StartCalls -> StartPc]
      /\ stop \in [ShutdownCalls -> StopPc]
      /\ awaited \in [ShutdownCalls -> StartCalls \cup {None}]
  BY DEF Init, StartPc, StopPc
<1>4. /\ loop \in [StartCalls -> LoopPc]
      /\ current \in [StartCalls -> Messages \cup {None}]
      /\ result \in [StartCalls -> Results \cup {None}]
  BY DEF Init, LoopPc
<1>5. QED
  BY <1>1, <1>2, <1>3, <1>4 DEF Init, TypeOK

LEMMA StepTypeOK == TypeOK /\ [Next]_vars => TypeOK'
<1> SUFFICES ASSUME TypeOK, [Next]_vars PROVE TypeOK'
  OBVIOUS
<1>1. CASE UNCHANGED vars
  BY <1>1 DEF TypeOK, vars, callVars, loopVars
<1>2. CASE Initialize \/ InitializeRaises \/ SetCallback
  BY <1>2 DEF Initialize, InitializeRaises, SetCallback, TypeOK, AgentStatus,
              callVars, loopVars
<1>3. CASE \E m \in Messages : Send(m)
  BY <1>3 DEF Send, TypeOK, callVars, loopVars
<1>4. ASSUME NEW s \in StartCalls, StartBegin(s) \/ StartStep(s)
      PROVE  TypeOK'
  <2>1. CASE StartBegin(s) \/ StartHookRaises(s)
    BY <2>1 DEF StartBegin, StartHookRaises, TypeOK, StartPc, loopVars
  <2>2. CASE StartRefused(s)
    <3>1. emitted' \in Seq(Event)
      BY <2>2, EmitType DEF StartRefused, TypeOK, AgentEvent
    <3>2. QED
      BY <2>2, <3>1 DEF StartRefused, TypeOK, StartPc, loopVars
  <2>3. CASE StartRun(s)
    <3>1. emitted' \in Seq(Event)
      BY <2>3, EmitType DEF StartRun, TypeOK, AgentEvent
    <3>2. lastResult' \in ProcessResult
      BY <2>3 DEF StartRun, ProcessResult, LastTaskOutcome, FailureCategory
    <3>3. QED
      BY <2>3, <3>1, <3>2 DEF StartRun, TypeOK, StartPc, AgentStatus, LoopPc, LivePc
  <2>4. QED
    BY <1>4, <2>1, <2>2, <2>3 DEF StartStep
<1>5. ASSUME NEW l \in StartCalls, LoopStep(l)
      PROVE  TypeOK'
  <2>1. CASE LoopBegin(l) \/ PollTimeout(l)
    BY <2>1, NextIterationType DEF LoopBegin, PollTimeout, TypeOK, callVars
  <2>2. CASE Receive(l)
    <3>1. Head(mailbox) \in Messages /\ Tail(mailbox) \in Seq(Messages)
      BY <2>2 DEF Receive, Pop, TypeOK
    <3>2. QED
      BY <2>2, <3>1 DEF Receive, Pop, TypeOK, LoopPc, LivePc, InFlightPc, callVars
  <2>3. CASE PreconditionsPass(l)
    BY <2>3 DEF PreconditionsPass, TypeOK, LoopPc, LivePc, InFlightPc,
                AgentStatus, callVars
  <2>4. CASE PreconditionsFail(l)
    BY <2>4, FailedType, ReportType
    DEF PreconditionsFail, FailureCategory, TaskEvent, LoopPc, LivePc, InFlightPc
  <2>5. CASE \E r \in Results : ProcessReturns(l, r)
    BY <2>5 DEF ProcessReturns, TypeOK, LoopPc, LivePc, InFlightPc, callVars
  <2>6. CASE ReportInfrastructureFailure(l)
    BY <2>6, FailedType, ReportType
    DEF ReportInfrastructureFailure, FailureCategory, TaskEvent, LastTaskOutcome,
        LoopPc, LivePc, InFlightPc
  <2>7. CASE PostconditionsPass(l)
    <3>1. CASE result[l] # None /\ Report(l, result[l].outcome, result[l], "replying")
      <4>1. result[l] \in ProcessResult
        BY <3>1, ResultsAssumption DEF TypeOK
      <4>2. result[l].outcome \in TaskEvent
        BY <4>1 DEF ProcessResult, TaskEvent
      <4>3. QED
        BY <3>1, <4>1, <4>2, ReportType DEF LoopPc, LivePc, InFlightPc
    <3>2. QED
      BY <2>6, <2>7, <3>1 DEF PostconditionsPass
  <2>8. CASE PostconditionsFail(l)
    <3>1. result[l] \in ProcessResult
      BY <2>8, ResultsAssumption DEF PostconditionsFail, TypeOK
    <3>2. PICK cat \in HookCategories \cup {result[l].category} :
            Report(l, "TASK_POSTCONDITIONS_VIOLATED", Violated(result[l], cat),
                   "reporting")
      BY <2>8 DEF PostconditionsFail
    <3>3. cat \in FailureCategory
      BY <3>1, <3>2, ResultsAssumption DEF ProcessResult
    <3>4. QED
      BY <3>1, <3>2, <3>3, ViolatedType, ReportType
      DEF TaskEvent, LoopPc, LivePc, InFlightPc
  <2>9. CASE TaskDone(l)
    BY <2>9, NextIterationType DEF TaskDone, TypeOK, callVars
  <2>10. QED
    BY <1>5, <2>1, <2>2, <2>3, <2>4, <2>5, <2>6, <2>7, <2>8, <2>9
    DEF LoopStep, Raises, Finish, PostconditionsPanic
<1>6. ASSUME NEW l \in StartCalls,
             Cancelled(l) \/ CancelledUnborn(l) \/ ShutdownFromInside(l)
      PROVE  TypeOK'
  <2>1. CASE Cancelled(l)
    <3>1. unfinished' \in Int
      BY <2>1 DEF Cancelled, TypeOK
    <3>2. QED
      BY <2>1, <3>1 DEF Cancelled, TypeOK, LoopPc, DonePc, callVars
  <2>2. CASE CancelledUnborn(l)
    BY <2>2 DEF CancelledUnborn, TypeOK, LoopPc, DonePc, callVars
  <2>3. CASE ShutdownFromInside(l)
    BY <2>3 DEF ShutdownFromInside, TypeOK, callVars, loopVars
  <2>4. QED
    BY <1>6, <2>1, <2>2, <2>3
<1>7. ASSUME NEW c \in ShutdownCalls, ShutdownBegin(c) \/ ShutdownStep(c)
      PROVE  TypeOK'
  <2>1. CASE ShutdownBegin(c) \/ ShutdownHookRaises(c) \/ ShutdownJoinRaises(c)
    BY <2>1 DEF ShutdownBegin, ShutdownHookRaises, ShutdownJoinRaises, TypeOK,
                StopPc, loopVars
  <2>2. CASE ShutdownJoin(c)
    BY <2>2 DEF ShutdownJoin, TypeOK, StopPc, loopVars
  <2>3. CASE ShutdownTerminate(c)
    <3>1. emitted' \in Seq(Event)
      BY <2>3, EmitType DEF ShutdownTerminate, TypeOK, AgentEvent
    <3>2. QED
      BY <2>3, <3>1 DEF ShutdownTerminate, TypeOK, StopPc, AgentStatus, loopVars
  <2>4. QED
    BY <1>7, <2>1, <2>2, <2>3 DEF ShutdownStep
<1>8. QED
  BY <1>1, <1>2, <1>3, <1>4, <1>5, <1>6, <1>7 DEF Next

(* Every variable of the agent keeps its type; in particular the agent is  *)
(* never in status ERROR, which the enumeration of statuses offers.        *)
THEOREM Typing == Spec => []TypeOK
  BY InitTypeOK, StepTypeOK, PTL DEF Spec

------------------------------------------------------------------------------
(* An iteration, once the event is set, leads out of the loop, and a loop  *)
(* takes a message only from a poll or at the end of an iteration that     *)
(* began before: the while test guards every get().                        *)
LEMMA NextIterationTests ==
  ASSUME TypeOK, NEW l \in StartCalls, NextIteration(l), shutdownEvent
  PROVE  loop' = [loop EXCEPT ![l] = "exited"]
  BY DEF NextIteration

(* Once shutdown was asked for, by whatever caller, no loop polls again    *)
(* and none takes a message, but for the one a pending get() returns.      *)
THEOREM AtMostOneMessage == Spec => OneMessageAfterShutdown
<1> DEFINE A == shutdownEvent => \A l \in StartCalls :
                  /\ loop'[l] = "polling" => loop[l] = "polling"
                  /\ loop'[l] = "prechecking" => loop[l] \in {"prechecking", "polling"}
<1>1. TypeOK /\ [Next]_vars => [A]_vars
  <2> SUFFICES ASSUME TypeOK, Next, shutdownEvent, NEW k \in StartCalls
               PROVE  /\ loop'[k] = "polling" => loop[k] = "polling"
                      /\ loop'[k] = "prechecking" =>
                            loop[k] \in {"prechecking", "polling"}
    BY DEF A
  <2>1. CASE UNCHANGED loop
    BY <2>1
  <2>2. ASSUME NEW l \in StartCalls, LoopBegin(l) \/ PollTimeout(l) \/ TaskDone(l)
        PROVE  loop' = [loop EXCEPT ![l] = "exited"]
    BY <2>2, NextIterationTests DEF LoopBegin, PollTimeout, TaskDone
  <2>3. ASSUME NEW l \in StartCalls, Receive(l)
        PROVE  loop[l] = "polling" /\ loop' = [loop EXCEPT ![l] = "prechecking"]
    BY <2>3 DEF Receive, Pop
  <2>4. ASSUME NEW l \in StartCalls, StartRun(l)
        PROVE  loop' = [loop EXCEPT ![l] = "scheduled"]
    BY <2>4 DEF StartRun
  <2>5. ASSUME NEW l \in StartCalls,
               \/ PreconditionsPass(l) \/ PreconditionsFail(l)
               \/ \E r \in Results : ProcessReturns(l, r)
               \/ PostconditionsPass(l) \/ PostconditionsFail(l) \/ Raises(l)
               \/ Cancelled(l) \/ CancelledUnborn(l)
        PROVE  \E pc \in LoopPc \ {"polling", "prechecking"} :
                  loop' = [loop EXCEPT ![l] = pc]
    BY <2>5 DEF PreconditionsPass, PreconditionsFail, ProcessReturns,
                PostconditionsPass, PostconditionsFail, Raises, Cancelled,
                CancelledUnborn, ReportInfrastructureFailure, Report,
                LoopPc, LivePc, InFlightPc, DonePc
  <2>6. ASSUME NEW l \in StartCalls, NEW pc \in LoopPc,
               loop' = [loop EXCEPT ![l] = pc],
               pc = "polling" => FALSE,
               pc = "prechecking" => loop[l] = "polling"
        PROVE  /\ loop'[k] = "polling" => loop[k] = "polling"
               /\ loop'[k] = "prechecking" => loop[k] \in {"prechecking", "polling"}
    BY <2>6 DEF TypeOK
  <2>7. ASSUME NEW l \in StartCalls, LoopStep(l)
        PROVE  \/ PreconditionsPass(l) \/ PreconditionsFail(l)
               \/ \E r \in Results : ProcessReturns(l, r)
               \/ PostconditionsPass(l) \/ PostconditionsFail(l) \/ Raises(l)
               \/ LoopBegin(l) \/ PollTimeout(l) \/ TaskDone(l)
               \/ Receive(l)
    BY <2>7 DEF LoopStep, Finish, PostconditionsPanic
  <2>8. \/ UNCHANGED loop
        \/ \E l \in StartCalls : \/ LoopStep(l) \/ StartRun(l)
                                 \/ Cancelled(l) \/ CancelledUnborn(l)
    BY DEF Next, Initialize, InitializeRaises, SetCallback, Send, StartBegin,
           StartStep, StartRefused, StartHookRaises, ShutdownFromInside,
           ShutdownBegin, ShutdownStep, ShutdownHookRaises, ShutdownJoin,
           ShutdownTerminate, ShutdownJoinRaises, loopVars
  <2>9. QED
    BY <2>1, <2>2, <2>3, <2>4, <2>5, <2>6, <2>7, <2>8 DEF LoopPc, LivePc, InFlightPc, DonePc
<1>2. QED
  BY <1>1, Typing, PTL DEF Spec, OneMessageAfterShutdown

------------------------------------------------------------------------------
(* How the number of loops that hold a message changes with one of them.   *)
LEMMA BusyChange ==
  ASSUME TypeOK, NEW l \in StartCalls, NEW pc \in LoopPc,
         loop' = [loop EXCEPT ![l] = pc]
  PROVE  /\ Cardinality(Busy) \in Nat
         /\ (pc \in InFlightPc <=> loop[l] \in InFlightPc)
              => Cardinality(Busy') = Cardinality(Busy)
         /\ (pc \in InFlightPc /\ loop[l] \notin InFlightPc)
              => Cardinality(Busy') = Cardinality(Busy) + 1
         /\ (pc \notin InFlightPc /\ loop[l] \in InFlightPc)
              => Cardinality(Busy') = Cardinality(Busy) - 1
<1>1. IsFiniteSet(Busy)
  BY CallsAssumption, FS_Subset DEF Busy
<1>2. Cardinality(Busy) \in Nat
  BY <1>1, FS_CardinalityType
<1>3. loop' \in [StartCalls -> LoopPc] /\ loop'[l] = pc
      /\ \A k \in StartCalls \ {l} : loop'[k] = loop[k]
  BY DEF TypeOK
<1>4. l \in Busy <=> loop[l] \in InFlightPc
  BY DEF Busy
<1>5. CASE pc \in InFlightPc
  <2>1. Busy' = Busy \cup {l}
    BY <1>3, <1>5 DEF Busy
  <2>2. Cardinality(Busy \cup {l}) =
          IF l \in Busy THEN Cardinality(Busy) ELSE Cardinality(Busy) + 1
    BY <1>1, FS_AddElement
  <2>3. QED
    BY <1>2, <1>4, <1>5, <2>1, <2>2
<1>6. CASE pc \notin InFlightPc
  <2>1. Busy' = Busy \ {l}
    BY <1>3, <1>6 DEF Busy
  <2>2. Cardinality(Busy \ {l}) =
          IF l \in Busy THEN Cardinality(Busy) - 1 ELSE Cardinality(Busy)
    BY <1>1, FS_RemoveElement
  <2>3. QED
    BY <1>2, <1>4, <1>6, <2>1, <2>2
<1>7. QED
  BY <1>5, <1>6

(* The messages in the mailbox and those being handled, after the while    *)
(* test and the get(): the loop's own message is gone, and what it takes   *)
(* has moved from the mailbox to the loop.                                 *)
LEMMA NextIterationBalance ==
  ASSUME TypeOK, NEW l \in StartCalls, NextIteration(l)
  PROVE  LET before == Len(mailbox) + Cardinality(Busy)
             after == Len(mailbox') + Cardinality(Busy')
         IN  /\ before \in Int
             /\ loop[l] \in InFlightPc => after = before - 1
             /\ loop[l] \notin InFlightPc => after = before
<1>1. Len(mailbox) \in Nat
  BY DEF TypeOK
<1>2. CASE Pop(l)
  <2>1. Len(mailbox') = Len(mailbox) - 1
    BY <1>2 DEF Pop, TypeOK
  <2>2. loop' = [loop EXCEPT ![l] = "prechecking"]
    BY <1>2 DEF Pop
  <2>3. "prechecking" \in LoopPc /\ "prechecking" \in InFlightPc
    BY DEF LoopPc, LivePc, InFlightPc
  <2>4. /\ Cardinality(Busy) \in Nat
        /\ loop[l] \in InFlightPc => Cardinality(Busy') = Cardinality(Busy)
        /\ loop[l] \notin InFlightPc => Cardinality(Busy') = Cardinality(Busy) + 1
    BY <2>2, <2>3, BusyChange
  <2>5. QED
    BY <1>1, <2>1, <2>4
<1>3. CASE UNCHANGED mailbox /\ \E pc \in {"exited", "polling"} :
                                   loop' = [loop EXCEPT ![l] = pc]
  <2>1. PICK pc \in {"exited", "polling"} : loop' = [loop EXCEPT ![l] = pc]
    BY <1>3
  <2>2. pc \in LoopPc /\ pc \notin InFlightPc
    BY DEF LoopPc, LivePc, InFlightPc, DonePc
  <2>3. /\ Cardinality(Busy) \in Nat
        /\ loop[l] \in InFlightPc => Cardinality(Busy') = Cardinality(Busy) - 1
        /\ loop[l] \notin InFlightPc => Cardinality(Busy') = Cardinality(Busy)
    BY <2>1, <2>2, BusyChange
  <2>4. QED
    BY <1>1, <1>3, <2>3
<1>4. QED
  BY <1>2, <1>3 DEF NextIteration

(* A loop exists only once the start() call that spawned it has returned,  *)
(* so start() never spawns over a loop that holds a message.               *)
SpawnedOnce == \A s \in StartCalls : loop[s] # "absent" => start[s] = "returned"

(* SpawnedOnce is inductive with the types.                                *)
LEMMA SpawnedOnceStep == TypeOK /\ SpawnedOnce /\ [Next]_vars => SpawnedOnce'
<1> SUFFICES ASSUME TypeOK, SpawnedOnce, [Next]_vars, NEW s \in StartCalls
             PROVE  loop'[s] # "absent" => start'[s] = "returned"
  BY DEF SpawnedOnce
<1>1. CASE UNCHANGED <<loop, start>>
  BY <1>1 DEF SpawnedOnce
<1>2. ASSUME NEW k \in StartCalls, StartStep(k) \/ StartBegin(k)
      PROVE  loop'[s] # "absent" => start'[s] = "returned"
  BY <1>2 DEF StartStep, StartBegin, StartRefused, StartHookRaises, StartRun,
              SpawnedOnce, TypeOK, loopVars
<1>3. ASSUME NEW l \in StartCalls,
             LoopStep(l) \/ Cancelled(l) \/ CancelledUnborn(l)
      PROVE  loop'[s] # "absent" => start'[s] = "returned"
  <2>1. UNCHANGED start
    BY <1>3 DEF LoopStep, LoopBegin, Receive, PollTimeout, PreconditionsPass,
                PreconditionsFail, ProcessReturns, PostconditionsPass,
                PostconditionsFail, PostconditionsPanic, Raises, Finish, TaskDone,
                ReportInfrastructureFailure, Report, Cancelled, CancelledUnborn,
                callVars
  <2>2. loop[l] # "absent"
    BY <1>3 DEF LoopStep, LoopBegin, Receive, PollTimeout, PreconditionsPass,
                PreconditionsFail, ProcessReturns, PostconditionsPass,
                PostconditionsFail, PostconditionsPanic, Raises, Finish,
                Cancelled, CancelledUnborn, InFlightPc
  <2>3. \E pc : loop' = [loop EXCEPT ![l] = pc]
    BY <1>3 DEF LoopStep, LoopBegin, Receive, PollTimeout, PreconditionsPass,
                PreconditionsFail, ProcessReturns, PostconditionsPass,
                PostconditionsFail, PostconditionsPanic, Raises, Finish, TaskDone,
                ReportInfrastructureFailure, Report, Cancelled, CancelledUnborn,
                NextIteration, Pop
  <2>4. QED
    BY <2>1, <2>2, <2>3 DEF SpawnedOnce, TypeOK
<1>4. QED
  BY <1>1, <1>2, <1>3
  DEF Next, vars, Initialize, InitializeRaises, SetCallback, Send,
      ShutdownFromInside, ShutdownBegin, ShutdownStep, ShutdownHookRaises,
      ShutdownJoin, ShutdownTerminate, ShutdownJoinRaises, callVars, loopVars

(* The mailbox's count of unfinished items is exact: every way out of an   *)
(* iteration, a cancellation included, calls task_done() once.             *)
THEOREM Balance == Spec => []TaskDoneBalanced
<1> DEFINE Inv == TypeOK /\ SpawnedOnce /\ TaskDoneBalanced
<1>1. Init => SpawnedOnce /\ TaskDoneBalanced
  <2> SUFFICES ASSUME Init PROVE SpawnedOnce /\ TaskDoneBalanced
    OBVIOUS
  <2>1. Busy = {}
    BY DEF Init, Busy, InFlightPc
  <2>2. Cardinality(Busy) = 0
    BY <2>1, FS_EmptySet
  <2>3. QED
    BY <2>2 DEF Init, SpawnedOnce, TaskDoneBalanced
<1>2. Inv /\ [Next]_vars => TaskDoneBalanced'
  <2> SUFFICES ASSUME Inv, [Next]_vars PROVE TaskDoneBalanced'
    OBVIOUS
  <2> USE DEF LoopPc, LivePc, InFlightPc, DonePc
  <2>1. CASE UNCHANGED <<unfinished, mailbox, loop>>
    BY <2>1 DEF TaskDoneBalanced, Busy
  <2>2. ASSUME NEW m \in Messages, Send(m)
        PROVE  TaskDoneBalanced'
    <3>1. Len(mailbox) \in Nat /\ Len(mailbox') = Len(mailbox) + 1
      BY <2>2 DEF Send, TypeOK
    <3>2. Cardinality(Busy) \in Nat /\ Busy' = Busy
      BY <2>2, CallsAssumption, FS_Subset, FS_CardinalityType DEF Send, Busy, loopVars
    <3>3. QED
      BY <2>2, <3>1, <3>2 DEF Send, TaskDoneBalanced, TypeOK
  <2>3. ASSUME NEW l \in StartCalls, NEW pc \in LoopPc,
               loop' = [loop EXCEPT ![l] = pc],
               pc \in InFlightPc <=> loop[l] \in InFlightPc,
               UNCHANGED <<unfinished, mailbox>>
        PROVE  TaskDoneBalanced'
    <3>1. Cardinality(Busy') = Cardinality(Busy)
      BY <2>3, BusyChange
    <3>2. QED
      BY <2>3, <3>1 DEF TaskDoneBalanced
  <2>4. ASSUME NEW s \in StartCalls, StartRun(s)
        PROVE  TaskDoneBalanced'
    BY <2>3, <2>4 DEF StartRun, SpawnedOnce
  <2>5. ASSUME NEW l \in StartCalls, LoopBegin(l) \/ Receive(l) \/ PollTimeout(l)
        PROVE  TaskDoneBalanced'
    <3>1. NextIteration(l) \/ Pop(l)
      BY <2>5 DEF LoopBegin, Receive, PollTimeout
    <3>2. loop[l] \notin InFlightPc /\ UNCHANGED unfinished
      BY <2>5 DEF LoopBegin, Receive, PollTimeout
    <3>3. CASE NextIteration(l)
      BY <3>2, <3>3, NextIterationBalance DEF TaskDoneBalanced
    <3>4. CASE Pop(l)
      <4>1. Len(mailbox) \in Nat /\ Len(mailbox') = Len(mailbox) - 1
        BY <3>4 DEF Pop, TypeOK
      <4>2. Cardinality(Busy) \in Nat /\ Cardinality(Busy') = Cardinality(Busy) + 1
        BY <3>2, <3>4, BusyChange DEF Pop
      <4>3. QED
        BY <3>2, <4>1, <4>2 DEF TaskDoneBalanced
    <3>5. QED
      BY <3>1, <3>3, <3>4
  <2>6. ASSUME NEW l \in StartCalls, Finish(l) \/ PostconditionsPanic(l)
        PROVE  TaskDoneBalanced'
    <3>1. /\ NextIteration(l)
          /\ loop[l] \in InFlightPc
          /\ unfinished' = unfinished - 1
      BY <2>6 DEF Finish, PostconditionsPanic, TaskDone
    <3>2. QED
      BY <3>1, NextIterationBalance DEF TaskDoneBalanced
  <2>7. ASSUME NEW l \in StartCalls,
               \/ PreconditionsPass(l) \/ PreconditionsFail(l)
               \/ \E r \in Results : ProcessReturns(l, r)
               \/ PostconditionsPass(l) \/ PostconditionsFail(l) \/ Raises(l)
               \/ CancelledUnborn(l)
        PROVE  TaskDoneBalanced'
    BY <2>3, <2>7 DEF PreconditionsPass, PreconditionsFail, ProcessReturns,
         PostconditionsPass, PostconditionsFail, Raises, CancelledUnborn,
         ReportInfrastructureFailure, Report
  <2>8. ASSUME NEW l \in StartCalls, Cancelled(l)
        PROVE  TaskDoneBalanced'
    <3>1. /\ loop' = [loop EXCEPT ![l] = "exited"]
          /\ UNCHANGED mailbox
          /\ unfinished' = IF loop[l] \in InFlightPc THEN unfinished - 1 ELSE unfinished
      BY <2>8 DEF Cancelled
    <3>2. /\ Cardinality(Busy) \in Nat
          /\ loop[l] \in InFlightPc => Cardinality(Busy') = Cardinality(Busy) - 1
          /\ loop[l] \notin InFlightPc => Cardinality(Busy') = Cardinality(Busy)
      <4>1. "exited" \in LoopPc /\ "exited" \notin InFlightPc
        OBVIOUS
      <4>2. QED
        BY <3>1, <4>1, BusyChange
    <3>3. Len(mailbox) \in Nat /\ unfinished \in Int
      BY DEF TypeOK
    <3>4. QED
      BY <3>1, <3>2, <3>3 DEF TaskDoneBalanced
  <2>9. QED
    BY <2>1, <2>2, <2>4, <2>5, <2>6, <2>7, <2>8
    DEF Next, vars, LoopStep, Initialize, InitializeRaises, SetCallback, StartStep,
        StartBegin, StartRefused, StartHookRaises, ShutdownFromInside,
        ShutdownBegin, ShutdownStep, ShutdownHookRaises, ShutdownJoin,
        ShutdownTerminate, ShutdownJoinRaises, loopVars
<1>3. QED
  BY <1>1, <1>2, SpawnedOnceStep, Typing, PTL DEF Spec

------------------------------------------------------------------------------
(* What ties the calls, the loops and the callback together: the parts of  *)
(* the inductive invariant that need no assumption on the number of calls. *)

(* With no task there is no loop, the task there is has been spawned, and  *)
(* a join always awaits some loop.                                         *)
TaskKnown ==
  /\ task = None => \A l \in StartCalls : loop[l] = "absent"
  /\ task # None => loop[task] # "absent"
  /\ \A c \in ShutdownCalls : stop[c] = "joining" => awaited[c] \in StartCalls

(* An agent that was initialized has a callback, so a loop's events are    *)
(* never dropped.                                                          *)
CallbackBound ==
  /\ status = "INITIALIZED" => callback
  /\ \A s \in StartCalls : start[s] # "idle" => callback

(* The loop's locals: no message before the first get(), and a result      *)
(* where it is read.                                                       *)
LocalsKnown ==
  \A l \in StartCalls :
    /\ loop[l] \in {"absent", "scheduled"} => current[l] = None
    /\ loop[l] = "postchecking" => result[l] \in Results

Wiring == TaskKnown /\ CallbackBound /\ LocalsKnown

(* Which variables a step of a loop leaves alone, and where it can be      *)
(* before and after.                                                       *)
LEMMA LoopMoves ==
  ASSUME TypeOK, NEW l \in StartCalls,
         LoopStep(l) \/ Cancelled(l) \/ CancelledUnborn(l)
  PROVE  /\ UNCHANGED <<callback, shutdownEvent, task, callVars, accepted>>
         /\ loop[l] \in LivePc
         /\ \E pc \in LoopPc \ {"absent", "scheduled"} :
               loop' = [loop EXCEPT ![l] = pc]
         /\ status' \in {status, "WAITING", "PROCESSING"}
<1> USE DEF LoopPc, LivePc, InFlightPc, DonePc
<1>1. ASSUME NextIteration(l)
      PROVE  /\ \E pc \in {"exited", "prechecking", "polling"} :
                   loop' = [loop EXCEPT ![l] = pc]
             /\ status' \in {status, "WAITING"}
  BY <1>1 DEF NextIteration, Pop
<1>2. CASE \/ LoopBegin(l) \/ PollTimeout(l) \/ Finish(l)
           \/ PostconditionsPanic(l)
  BY <1>1, <1>2 DEF LoopBegin, PollTimeout, Finish, PostconditionsPanic, TaskDone
<1>3. CASE Receive(l) \/ Cancelled(l) \/ CancelledUnborn(l)
  BY <1>3 DEF Receive, Pop, Cancelled, CancelledUnborn
<1>4. CASE PreconditionsPass(l) \/ \E r \in Results : ProcessReturns(l, r)
  BY <1>4 DEF PreconditionsPass, ProcessReturns
<1>5. CASE \/ PreconditionsFail(l) \/ PostconditionsPass(l)
           \/ PostconditionsFail(l) \/ Raises(l)
  BY <1>5 DEF PreconditionsFail, PostconditionsPass, PostconditionsFail, Raises,
              ReportInfrastructureFailure, Report
<1>6. QED
  BY <1>2, <1>3, <1>4, <1>5 DEF LoopStep

(* TaskKnown is inductive with the types: only StartRun creates a loop, and*)
(* it sets _task in the same step.                                         *)
LEMMA TaskKnownStep == TypeOK /\ TaskKnown /\ [Next]_vars => TaskKnown'
<1> SUFFICES ASSUME TypeOK, TaskKnown, [Next]_vars PROVE TaskKnown'
  OBVIOUS
<1>1. CASE UNCHANGED <<task, loop, stop, awaited>>
  BY <1>1 DEF TaskKnown
<1>2. ASSUME NEW s \in StartCalls, StartRun(s)
      PROVE  TaskKnown'
  BY <1>2, NoneAssumption DEF StartRun, TaskKnown, TypeOK
<1>3. ASSUME NEW l \in StartCalls,
             LoopStep(l) \/ Cancelled(l) \/ CancelledUnborn(l)
      PROVE  TaskKnown'
  <2>1. loop[l] # "absent" /\ UNCHANGED <<task, stop, awaited>>
    BY <1>3, LoopMoves DEF LivePc, InFlightPc, callVars
  <2>2. task # None => loop'[task] # "absent"
    BY <1>3, LoopMoves DEF TaskKnown, TypeOK
  <2>3. QED
    BY <2>1, <2>2 DEF TaskKnown
<1>4. ASSUME NEW c \in ShutdownCalls, ShutdownBegin(c) \/ ShutdownStep(c)
      PROVE  TaskKnown'
  BY <1>4 DEF ShutdownBegin, ShutdownStep, ShutdownHookRaises, ShutdownJoin,
              ShutdownTerminate, ShutdownJoinRaises, TaskKnown, TypeOK, loopVars
<1>5. QED
  BY <1>1, <1>2, <1>3, <1>4
  DEF Next, vars, Initialize, InitializeRaises, SetCallback, Send, StartStep,
      StartBegin, StartRefused, StartHookRaises, ShutdownFromInside, callVars, loopVars

(* CallbackBound is inductive with the types: a callback, once bound, stays*)
(* bound, and start() begins only on an initialized agent.                 *)
LEMMA CallbackBoundStep == TypeOK /\ CallbackBound /\ [Next]_vars => CallbackBound'
<1> SUFFICES ASSUME TypeOK, CallbackBound, [Next]_vars PROVE CallbackBound'
  OBVIOUS
<1>1. CASE UNCHANGED <<status, callback, start>>
  BY <1>1 DEF CallbackBound
<1>2. CASE Initialize \/ InitializeRaises \/ SetCallback
  BY <1>2 DEF Initialize, InitializeRaises, SetCallback, CallbackBound, callVars
<1>3. ASSUME NEW s \in StartCalls, StartBegin(s) \/ StartStep(s)
      PROVE  CallbackBound'
  BY <1>3 DEF StartBegin, StartStep, StartRefused, StartHookRaises, StartRun,
              CallbackBound, TypeOK
<1>4. ASSUME NEW l \in StartCalls,
             LoopStep(l) \/ Cancelled(l) \/ CancelledUnborn(l)
      PROVE  CallbackBound'
  BY <1>4, LoopMoves DEF CallbackBound, callVars
<1>5. ASSUME NEW c \in ShutdownCalls, ShutdownBegin(c) \/ ShutdownStep(c)
      PROVE  CallbackBound'
  BY <1>5 DEF ShutdownBegin, ShutdownStep, ShutdownHookRaises, ShutdownJoin,
              ShutdownTerminate, ShutdownJoinRaises, CallbackBound
<1>6. QED
  BY <1>1, <1>2, <1>3, <1>4, <1>5 DEF Next, vars, Send, ShutdownFromInside, callVars

(* LocalsKnown is inductive with the types: a loop sets its result when it *)
(* comes to its postconditions, and its message only once it runs.         *)
LEMMA LocalsKnownStep ==
  TypeOK /\ SpawnedOnce /\ LocalsKnown /\ [Next]_vars => LocalsKnown'
<1> SUFFICES ASSUME TypeOK, SpawnedOnce, LocalsKnown, [Next]_vars,
                    NEW k \in StartCalls
             PROVE  /\ loop'[k] \in {"absent", "scheduled"} => current'[k] = None
                    /\ loop'[k] = "postchecking" => result'[k] \in Results
  BY DEF LocalsKnown
<1>1. CASE UNCHANGED loopVars
  BY <1>1 DEF LocalsKnown, loopVars
<1>2. ASSUME NEW s \in StartCalls, StartRun(s)
      PROVE  /\ loop'[k] \in {"absent", "scheduled"} => current'[k] = None
             /\ loop'[k] = "postchecking" => result'[k] \in Results
  BY <1>2 DEF StartRun, SpawnedOnce, LocalsKnown, TypeOK
<1>3. ASSUME NEW l \in StartCalls,
             LoopStep(l) \/ Cancelled(l) \/ CancelledUnborn(l)
      PROVE  /\ loop'[k] \in {"absent", "scheduled"} => current'[k] = None
             /\ loop'[k] = "postchecking" => result'[k] \in Results
  <2>1. CASE k = l
    <3>1. loop'[k] \notin {"absent", "scheduled"}
      BY <1>3, <2>1, LoopMoves DEF TypeOK
    <3>2. CASE \E r \in Results : ProcessReturns(l, r)
      BY <2>1, <3>1, <3>2 DEF ProcessReturns, TypeOK
    <3>3. CASE ~ \E r \in Results : ProcessReturns(l, r)
      <4>1. loop'[l] # "postchecking"
        BY <1>3, <3>3
        DEF LoopStep, LoopBegin, Receive, PollTimeout, PreconditionsPass,
            PreconditionsFail, PostconditionsPass, PostconditionsFail,
            PostconditionsPanic, Raises, Finish, TaskDone, NextIteration, Pop,
            ReportInfrastructureFailure, Report, Cancelled, CancelledUnborn, TypeOK
      <4>2. QED
        BY <2>1, <3>1, <4>1
    <3>4. QED
      BY <3>2, <3>3
  <2>2. CASE k # l
    <3>1. loop'[k] = loop[k] /\ current'[k] = current[k] /\ result'[k] = result[k]
      BY <1>3, <2>2
      DEF LoopStep, LoopBegin, Receive, PollTimeout, PreconditionsPass,
          PreconditionsFail, ProcessReturns, PostconditionsPass,
          PostconditionsFail, PostconditionsPanic, Raises, Finish, TaskDone,
          NextIteration, Pop, ReportInfrastructureFailure, Report, Cancelled,
          CancelledUnborn, TypeOK
    <3>2. QED
      BY <3>1 DEF LocalsKnown
  <2>3. QED
    BY <2>1, <2>2
<1>4. QED
  BY <1>1, <1>2, <1>3
  DEF Next, vars, Initialize, InitializeRaises, SetCallback, Send, StartStep,
      StartBegin, StartRefused, StartHookRaises, ShutdownFromInside,
      ShutdownBegin, ShutdownStep, ShutdownHookRaises, ShutdownJoin,
      ShutdownTerminate, ShutdownJoinRaises

(* The inductive invariant the theorems about a single loop rest on.       *)
LEMMA Wired == Spec => [](TypeOK /\ SpawnedOnce /\ Wiring)
<1>1. Init => SpawnedOnce /\ Wiring
  BY DEF Init, SpawnedOnce, Wiring, TaskKnown, CallbackBound, LocalsKnown
<1>2. TypeOK /\ SpawnedOnce /\ Wiring /\ [Next]_vars => SpawnedOnce' /\ Wiring'
  BY SpawnedOnceStep, TaskKnownStep, CallbackBoundStep, LocalsKnownStep DEF Wiring
<1>3. QED
  BY <1>1, <1>2, Typing, PTL DEF Spec

------------------------------------------------------------------------------
(* shutdown() sets the event first thing, and nothing clears it.           *)
Asked == \A c \in ShutdownCalls : stop[c] \in {"cleaning", "joining"} => shutdownEvent

LEMMA AskedStep == TypeOK /\ Asked /\ [Next]_vars => Asked'
<1> SUFFICES ASSUME TypeOK, Asked, [Next]_vars
             PROVE  Asked'
  OBVIOUS
<1>1. CASE UNCHANGED <<stop, shutdownEvent>>
  BY <1>1 DEF Asked
<1>2. ASSUME NEW l \in StartCalls, ShutdownFromInside(l)
      PROVE  Asked'
  BY <1>2 DEF ShutdownFromInside, Asked
<1>3. ASSUME NEW c \in ShutdownCalls, ShutdownBegin(c)
      PROVE  Asked'
  BY <1>3 DEF ShutdownBegin, Asked
<1>4. ASSUME NEW c \in ShutdownCalls, ShutdownStep(c)
      PROVE  Asked'
  BY <1>4 DEF ShutdownStep, ShutdownHookRaises, ShutdownJoin, ShutdownTerminate,
              ShutdownJoinRaises, Asked, TypeOK
<1>5. ASSUME NEW l \in StartCalls,
             LoopStep(l) \/ Cancelled(l) \/ CancelledUnborn(l)
      PROVE  Asked'
  BY <1>1, <1>5, LoopMoves DEF callVars
<1>6. QED
  BY <1>1, <1>2, <1>3, <1>4, <1>5
     DEF Next, vars, Initialize, InitializeRaises, SetCallback, Send, StartStep,
         StartBegin, StartRefused, StartHookRaises, StartRun, callVars

(* How many more suspensions a loop at this place can come to once the     *)
(* shutdown event is set.                                                  *)
Ahead(pc) == CASE pc = "absent" -> 8
               [] pc = "scheduled" -> 7
               [] pc = "polling" -> 6
               [] pc = "prechecking" -> 5
               [] pc = "processing" -> 4
               [] pc = "postchecking" -> 3
               [] pc = "replying" -> 2
               [] pc = "reporting" -> 1
               [] pc \in DonePc -> 0

LEMMA Aheads ==
  /\ \A pc \in LoopPc : Ahead(pc) \in 0 .. 8
  /\ Ahead("absent") = 8 /\ Ahead("scheduled") = 7 /\ Ahead("polling") = 6
  /\ Ahead("prechecking") = 5 /\ Ahead("processing") = 4
  /\ Ahead("postchecking") = 3 /\ Ahead("replying") = 2 /\ Ahead("reporting") = 1
  /\ \A pc \in DonePc : Ahead(pc) = 0
  BY DEF Ahead, LoopPc, LivePc, InFlightPc, DonePc

(* Every turn of a loop after shutdown was asked for brings it nearer to   *)
(* its end, and nothing takes it back: not a message that keeps coming, a  *)
(* failure that is reported, nor another call of start().                  *)
WindsDown ==
  shutdownEvent =>
    \A l \in StartCalls :
      /\ loop'[l] = loop[l] \/ Ahead(loop'[l]) < Ahead(loop[l])
      /\ LoopStep(l) => Ahead(loop'[l]) < Ahead(loop[l])

(* The safety half of ShutdownReturns: a join of shutdown() waits for a    *)
(* loop that was spawned and is told to stop.                              *)
JoinsARunningLoop ==
  \A c \in ShutdownCalls : stop[c] = "joining" =>
    /\ shutdownEvent
    /\ awaited[c] \in StartCalls /\ loop[awaited[c]] # "absent"

LEMMA LoopStepWindsDown ==
  ASSUME TypeOK, shutdownEvent, NEW l \in StartCalls,
         LoopStep(l) \/ Cancelled(l) \/ CancelledUnborn(l)
  PROVE  /\ Ahead(loop'[l]) < Ahead(loop[l])
         /\ \A k \in StartCalls \ {l} : loop'[k] = loop[k]
<1>1. ASSUME NEW pc, loop' = [loop EXCEPT ![l] = pc], Ahead(pc) < Ahead(loop[l])
      PROVE  /\ Ahead(loop'[l]) < Ahead(loop[l])
             /\ \A k \in StartCalls \ {l} : loop'[k] = loop[k]
  BY <1>1 DEF TypeOK
<1>2. ASSUME loop[l] \in LivePc, loop' = [loop EXCEPT ![l] = "exited"]
      PROVE  Ahead("exited") < Ahead(loop[l])
  BY <1>2, Aheads DEF LivePc, InFlightPc, DonePc
<1>3. CASE LoopBegin(l) \/ PollTimeout(l) \/ Finish(l) \/ PostconditionsPanic(l)
  <2>1. NextIteration(l) /\ loop[l] \in LivePc
    BY <1>3 DEF LoopBegin, PollTimeout, Finish, PostconditionsPanic, TaskDone,
                LivePc, InFlightPc
  <2>2. loop' = [loop EXCEPT ![l] = "exited"]
    BY <2>1 DEF NextIteration
  <2>3. QED
    BY <1>1, <1>2, <2>1, <2>2
<1>4. CASE Receive(l)
  <2>1. loop[l] = "polling" /\ loop' = [loop EXCEPT ![l] = "prechecking"]
    BY <1>4 DEF Receive, Pop
  <2>2. Ahead("prechecking") < Ahead(loop[l])
    BY <2>1, Aheads
  <2>3. QED
    BY <1>1, <2>1, <2>2
<1>5. CASE PreconditionsPass(l)
  <2>1. loop[l] = "prechecking" /\ loop' = [loop EXCEPT ![l] = "processing"]
    BY <1>5 DEF PreconditionsPass
  <2>2. Ahead("processing") < Ahead(loop[l])
    BY <2>1, Aheads
  <2>3. QED
    BY <1>1, <2>1, <2>2
<1>6. CASE \E r \in Results : ProcessReturns(l, r)
  <2>1. loop[l] = "processing" /\ loop' = [loop EXCEPT ![l] = "postchecking"]
    BY <1>6 DEF ProcessReturns
  <2>2. Ahead("postchecking") < Ahead(loop[l])
    BY <2>1, Aheads
  <2>3. QED
    BY <1>1, <2>1, <2>2
<1>7. CASE PreconditionsFail(l) \/ PostconditionsFail(l) \/ PostconditionsPass(l)
           \/ Raises(l)
  <2>1. /\ loop[l] \in InFlightPc \ {"reporting"}
        /\ \/ loop' = [loop EXCEPT ![l] = "reporting"]
           \/ loop[l] = "postchecking" /\ loop' = [loop EXCEPT ![l] = "replying"]
    BY <1>7 DEF PreconditionsFail, PostconditionsFail, PostconditionsPass, Raises,
                ReportInfrastructureFailure, Report, InFlightPc
  <2>2. Ahead("reporting") < Ahead(loop[l])
    BY <2>1, Aheads DEF InFlightPc
  <2>3. QED
    BY <1>1, <2>1, <2>2, Aheads
<1>8. CASE Cancelled(l) \/ CancelledUnborn(l)
  <2>1. /\ loop[l] \in LivePc
        /\ \/ loop' = [loop EXCEPT ![l] = "exited"]
           \/ loop[l] = "scheduled" /\ loop' = [loop EXCEPT ![l] = "cancelled"]
    BY <1>8 DEF Cancelled, CancelledUnborn, LivePc, InFlightPc
  <2>2. Ahead("cancelled") < Ahead("scheduled")
    BY Aheads DEF DonePc
  <2>3. QED
    BY <1>1, <1>2, <2>1, <2>2
<1>9. QED
  BY <1>3, <1>4, <1>5, <1>6, <1>7, <1>8 DEF LoopStep

(* However many start() and shutdown() calls there are: once shutdown was  *)
(* asked for, a loop comes to at most eight more places, each nearer to    *)
(* its end, and a join waits for such a loop.                              *)
THEOREM ShutdownWindsDown == Spec => [][WindsDown]_vars /\ []JoinsARunningLoop
<1>1. Init => Asked /\ JoinsARunningLoop
  BY DEF Init, Asked, JoinsARunningLoop
<1>2. TypeOK /\ SpawnedOnce /\ [Next]_vars => [WindsDown]_vars
  <2> SUFFICES ASSUME TypeOK, SpawnedOnce, Next, shutdownEvent, NEW l \in StartCalls
               PROVE  /\ loop'[l] = loop[l] \/ Ahead(loop'[l]) < Ahead(loop[l])
                      /\ LoopStep(l) => Ahead(loop'[l]) < Ahead(loop[l])
    BY DEF WindsDown
  <2>1. LoopStep(l) => Ahead(loop'[l]) < Ahead(loop[l])
    BY LoopStepWindsDown
  <2>2. ASSUME NEW k \in StartCalls,
               LoopStep(k) \/ Cancelled(k) \/ CancelledUnborn(k)
        PROVE  loop'[l] = loop[l] \/ Ahead(loop'[l]) < Ahead(loop[l])
    BY <2>2, LoopStepWindsDown
  <2>3. ASSUME NEW s \in StartCalls, StartRun(s)
        PROVE  loop'[l] = loop[l] \/ Ahead(loop'[l]) < Ahead(loop[l])
    BY <2>3, Aheads DEF StartRun, SpawnedOnce, TypeOK
  <2>4. QED
    BY <2>1, <2>2, <2>3
    DEF Next, Initialize, InitializeRaises, SetCallback, Send, StartStep,
        StartBegin, StartRefused, StartHookRaises, ShutdownFromInside,
        ShutdownBegin, ShutdownStep, ShutdownHookRaises, ShutdownJoin,
        ShutdownTerminate, ShutdownJoinRaises, loopVars
<1>3. TypeOK /\ Wiring /\ Asked /\ JoinsARunningLoop /\ [Next]_vars
        => JoinsARunningLoop'
  <2> SUFFICES ASSUME TypeOK, Wiring, Asked, JoinsARunningLoop, [Next]_vars
               PROVE  JoinsARunningLoop'
    OBVIOUS
  <2>1. Asked'
    BY AskedStep
  <2>2. CASE UNCHANGED <<stop, awaited, loop>>
    BY <2>1, <2>2 DEF Asked, JoinsARunningLoop
  <2>3. ASSUME NEW s \in StartCalls, StartRun(s)
        PROVE  JoinsARunningLoop'
    BY <2>3 DEF StartRun, JoinsARunningLoop, TypeOK
  <2>4. ASSUME NEW l \in StartCalls,
               LoopStep(l) \/ Cancelled(l) \/ CancelledUnborn(l)
        PROVE  JoinsARunningLoop'
    BY <2>4, LoopMoves DEF callVars, JoinsARunningLoop, TypeOK
  <2>5. ASSUME NEW c \in ShutdownCalls, ShutdownBegin(c) \/ ShutdownStep(c)
        PROVE  JoinsARunningLoop'
    <3>1. CASE ShutdownJoin(c)
      <4>1. /\ stop' = [stop EXCEPT ![c] = "joining"] /\ UNCHANGED <<loop, shutdownEvent>>
            /\ awaited' = [awaited EXCEPT ![c] = task]
            /\ task \in StartCalls /\ loop[task] # "absent" /\ shutdownEvent
        BY <3>1 DEF ShutdownJoin, Wiring, TaskKnown, TypeOK, Asked, loopVars
      <4>2. QED
        BY <4>1 DEF JoinsARunningLoop, TypeOK
    <3>2. CASE ~ ShutdownJoin(c)
      <4>1. /\ UNCHANGED <<awaited, loop>>
            /\ \A d \in ShutdownCalls : stop'[d] = "joining" => stop[d] = "joining"
        BY <2>5, <3>2 DEF ShutdownBegin, ShutdownStep, ShutdownHookRaises,
           ShutdownTerminate, ShutdownJoinRaises, TypeOK, loopVars
      <4>2. QED
        BY <2>1, <4>1 DEF Asked, JoinsARunningLoop
    <3>3. QED
      BY <3>1, <3>2
  <2>6. QED
    BY <2>2, <2>3, <2>4, <2>5
    DEF Next, vars, Initialize, InitializeRaises, SetCallback, Send, StartStep,
        StartBegin, StartRefused, StartHookRaises, ShutdownFromInside, callVars, loopVars
<1>4. QED
  BY <1>1, <1>2, <1>3, AskedStep, Wired, PTL DEF Spec

(* With a single start() call there is one loop at most.                   *)
LEMMA SingleStartSpawnsOne ==
  ASSUME SingleStart
  PROVE  OneLoopSpawned
  BY SingleStart DEF SingleStart, OneLoopSpawned

(* Where there is one loop, it is the one of _task.                        *)
LEMMA TheOnlyLoop ==
  ASSUME OneLoopSpawned, TypeOK, TaskKnown, NEW l \in StartCalls, loop[l] # "absent"
  PROVE  task = l
  BY DEF OneLoopSpawned, TypeOK, TaskKnown

(* A loop that has ended or was never spawned takes no step, so a          *)
(* TERMINATED agent whose start() calls spawned one loop has no loop left  *)
(* that writes its state, takes a message or emits: shutdown() waited for  *)
(* it.                                                                     *)
THEOREM Quiescence == Spec /\ []OneLoopSpawned => []TerminatedIsQuiescent
<1>1. Init => TerminatedIsQuiescent
  BY DEF Init, TerminatedIsQuiescent
<1>2. TypeOK /\ SpawnedOnce /\ Wiring /\ TerminatedIsQuiescent /\ OneLoopSpawned
        /\ [Next]_vars => TerminatedIsQuiescent'
  <2> SUFFICES ASSUME TypeOK, SpawnedOnce, Wiring, TerminatedIsQuiescent,
                      OneLoopSpawned, [Next]_vars, status' = "TERMINATED",
                      NEW k \in StartCalls
               PROVE  loop'[k] \notin LivePc
    BY DEF TerminatedIsQuiescent
  <2>1. CASE UNCHANGED <<status, loop>>
    BY <2>1 DEF TerminatedIsQuiescent
  <2>2. ASSUME NEW l \in StartCalls,
               LoopStep(l) \/ Cancelled(l) \/ CancelledUnborn(l)
        PROVE  loop'[k] \notin LivePc
    BY <2>2, LoopMoves DEF TerminatedIsQuiescent
  <2>3. ASSUME NEW c \in ShutdownCalls, ShutdownTerminate(c)
        PROVE  loop'[k] \notin LivePc
    <3>1. CASE task = None
      BY <2>3, <3>1 DEF ShutdownTerminate, Wiring, TaskKnown, LivePc, InFlightPc,
                        loopVars
    <3>2. CASE stop[c] = "joining" /\ loop[awaited[c]] = "exited"
      <4>1. awaited[c] \in StartCalls /\ loop' = loop
        BY <2>3, <3>2 DEF ShutdownTerminate, Wiring, TaskKnown, loopVars
      <4>2. loop[k] \in LivePc => awaited[c] = k
        BY <3>2, <4>1 DEF OneLoopSpawned, LivePc, InFlightPc
      <4>3. QED
        BY <3>2, <4>1, <4>2 DEF LivePc, InFlightPc
    <3>3. QED
      BY <2>3, <3>1, <3>2 DEF ShutdownTerminate
  <2>4. QED
    BY <2>1, <2>2, <2>3
    DEF Next, vars, Initialize, InitializeRaises, SetCallback, Send, StartStep,
        StartBegin, StartRefused, StartHookRaises, StartRun, ShutdownFromInside,
        ShutdownBegin, ShutdownStep, ShutdownHookRaises, ShutdownJoin,
        ShutdownJoinRaises, loopVars
<1>3. QED
  BY <1>1, <1>2, Wired, PTL DEF Spec

(* So it is with a single start() call.                                    *)
COROLLARY SingleQuiescence ==
  ASSUME SingleStart
  PROVE  Spec => []TerminatedIsQuiescent
<1>1. OneLoopSpawned
  BY SingleStartSpawnsOne
<1>2. QED
  BY <1>1, Quiescence, PTL

------------------------------------------------------------------------------
(* The refinement.  What the server sees of each place of the loop.        *)
LEMMA Stages ==
  /\ StageOf("absent") = "closed"
  /\ \A pc \in {"scheduled", "polling"} : StageOf(pc) = "free"
  /\ \A pc \in {"prechecking", "processing", "postchecking"} : StageOf(pc) = "held"
  /\ StageOf("replying") = "replied"
  /\ StageOf("reporting") = "settled"
  /\ \A pc \in DonePc : StageOf(pc) = "over"
  BY DEF StageOf, DonePc

(* What the server sees of the agent: nothing before a loop is spawned,    *)
(* then the message and the place of the loop.                             *)
Item == IF task = None THEN None ELSE current[task]
Place == IF task = None THEN "closed" ELSE StageOf(loop[task])

LEMMA Viewed ==
  ASSUME TypeOK, NEW l \in StartCalls, task = l, task' = l
  PROVE  /\ Item = current[l] /\ Item' = current'[l]
         /\ Place = StageOf(loop[l]) /\ Place' = StageOf(loop'[l])
  BY NoneAssumption DEF Item, Place, TypeOK

(* The enumerations the server extends are those of the agent.             *)
LEMMA SameTypes ==
  /\ Server!AgentEvent = AgentEvent
  /\ Server!TaskEvent = TaskEvent
  /\ Server!ProcessResult = ProcessResult
  BY DEF Server!AgentEvent, AgentEvent, Server!TaskEvent, TaskEvent,
         Server!LastTaskOutcome, LastTaskOutcome, Server!FailureCategory,
         FailureCategory, Server!ProcessResult, ProcessResult

(* From the while test to the next suspension the server takes the next    *)
(* message, rests, or closes, provided the last message was dealt with.    *)
LEMMA NextIterationServes ==
  ASSUME TypeOK, NEW l \in StartCalls, task = l, task' = l, NextIteration(l),
         UNCHANGED emitted, loop[l] \in LivePc, Server!Released
  PROVE  Server!Take \/ Server!Rest \/ Server!CloseDown
<1> USE Viewed DEF Item, Place
<1>1. StageOf(loop[l]) \in Server!Open
  BY Stages DEF LivePc, InFlightPc, Server!Open
<1>2. CASE Pop(l)
  <2>1. loop'[l] = "prechecking" /\ current'[l] = Head(mailbox)
    BY <1>2 DEF Pop, TypeOK
  <2>2. QED
    BY <1>2, <2>1, Stages DEF Pop, Server!Take
<1>3. CASE /\ UNCHANGED mailbox
           /\ loop' = [loop EXCEPT ![l] = "exited"]
           /\ current' = [current EXCEPT ![l] = None]
  <2>1. loop'[l] = "exited" /\ current'[l] = None
    BY <1>3 DEF TypeOK
  <2>2. StageOf(loop'[l]) = "over"
    BY <2>1, Stages DEF DonePc
  <2>3. QED
    BY <1>1, <1>3, <2>1, <2>2 DEF Server!CloseDown
<1>4. CASE /\ UNCHANGED mailbox
           /\ loop' = [loop EXCEPT ![l] = "polling"]
           /\ current' = [current EXCEPT ![l] = None]
  <2>1. loop'[l] = "polling" /\ current'[l] = None
    BY <1>4 DEF TypeOK
  <2>2. StageOf(loop'[l]) = "free"
    BY <2>1, Stages
  <2>3. QED
    BY <1>4, <2>1, <2>2 DEF Server!Rest
<1>5. QED
  BY <1>2, <1>3, <1>4 DEF NextIteration

(* Reporting a failure settles the message.                                *)
LEMMA ReportSettles ==
  ASSUME TypeOK, callback, NEW l \in StartCalls, task = l, task' = l,
         NEW type \in {"TASK_PRECONDITIONS_VIOLATED",
                       "TASK_POSTCONDITIONS_VIOLATED", "TASK_FAILED"},
         NEW r \in ProcessResult, r.category # "NONE",
         Report(l, type, r, "reporting"),
         \/ loop[l] \in {"prechecking", "processing", "postchecking"}
         \/ /\ loop[l] = "replying" /\ type = "TASK_FAILED"
            /\ r = Failed("INFRASTRUCTURE_FAILURE")
  PROVE  Server!Next
<1> USE Viewed DEF Item, Place
<1>1. /\ loop'[l] = "reporting"
      /\ UNCHANGED <<mailbox, current>>
      /\ emitted' = Append(emitted, [type |-> type, msg |-> current[l],
                                     result |-> r])
  BY DEF Report, Emit, TypeOK
<1>2. r \in ProcessResult \ {[outcome |-> r.outcome, category |-> "NONE"]}
  OBVIOUS
<1>3. Server!Settle(type, r)
  BY <1>1, <1>2, Stages, SameTypes DEF Server!Settle, Server!Log, Failed
<1>4. QED
  BY <1>3, SameTypes DEF Server!Next, TaskEvent, LastTaskOutcome

(* An agent with one loop implements the serial server: its hooks and      *)
(* callbacks may fail at any point, shutdown() may come at any time and    *)
(* from several callers, and still messages are taken in order, one at a   *)
(* time, and answered before the next is taken.                            *)
THEOREM Implementation == Spec /\ []OneLoopSpawned => ImplementsServer
<1>1. Init => Server!Init
  BY DEF Init, Server!Init
<1>2. TypeOK /\ SpawnedOnce /\ Wiring /\ OneLoopSpawned /\ OneLoopSpawned'
        /\ [Next]_vars => [Server!Next]_(Server!vars)
  <2> SUFFICES ASSUME TypeOK, SpawnedOnce, Wiring, OneLoopSpawned, OneLoopSpawned',
                      [Next]_vars
               PROVE  Server!Next \/ UNCHANGED Server!vars
    OBVIOUS
  <2>1. CASE UNCHANGED <<mailbox, task, current, loop, emitted>>
    BY <2>1 DEF Server!vars
  <2>2. ASSUME NEW m \in Messages, Send(m)
        PROVE  Server!Next
    BY <2>2 DEF Send, Server!Next, Server!Submit, loopVars
  <2>3. ASSUME NEW type \in AgentEvent, Emit(type, None, None),
               UNCHANGED <<mailbox, task, current, loop>>
        PROVE  Server!Next \/ UNCHANGED Server!vars
    <3>1. CASE callback
      <4>1. Server!Announce(type)
        BY <2>3, <3>1, SameTypes DEF Emit, Server!Announce, Server!Log
      <4>2. QED
        BY <4>1, SameTypes DEF Server!Next
    <3>2. CASE ~ callback
      BY <2>3, <3>2 DEF Emit, Server!vars
    <3>3. QED
      BY <3>1, <3>2
  <2>4. ASSUME NEW l \in StartCalls, StartRun(l)
        PROVE  Server!Next
    <3>1. callback /\ loop[l] = "absent" /\ current[l] = None
      BY <2>4 DEF StartRun, Wiring, CallbackBound, LocalsKnown, SpawnedOnce
    <3>2. /\ loop'[l] = "scheduled" /\ UNCHANGED <<mailbox, current>> /\ task' = l
          /\ emitted' = Append(emitted, [type |-> "AGENT_STARTED", msg |-> None,
                                         result |-> None])
      BY <2>4, <3>1 DEF StartRun, Emit, TypeOK
    <3>3. task = None
      <4>1. task # None => loop[task] # "absent" /\ loop'[task] = loop[task]
        BY <2>4, <3>1 DEF StartRun, Wiring, TaskKnown, TypeOK
      <4>2. QED
        BY <3>1, <3>2, <4>1 DEF OneLoopSpawned, TypeOK
    <3>4. Server!OpenUp
      BY <3>1, <3>2, <3>3, Stages, NoneAssumption DEF Server!OpenUp, Server!Log
    <3>5. QED
      BY <3>4 DEF Server!Next
  <2>5. ASSUME NEW l \in StartCalls, LoopStep(l)
        PROVE  Server!Next \/ UNCHANGED Server!vars
    <3> USE Viewed DEF Item, Place
    <3>0. task = l /\ task' = l
      BY <2>5, LoopMoves, TheOnlyLoop DEF Wiring, LivePc, InFlightPc
    <3>1. callback
      BY <2>5, LoopMoves DEF SpawnedOnce, Wiring, CallbackBound, LivePc, InFlightPc
    <3>2. loop[l] \in LivePc
      BY <2>5, LoopMoves
    <3>3. CASE LoopBegin(l) \/ PollTimeout(l)
      <4>1. Server!Released
        BY <3>0, <3>3, Stages DEF LoopBegin, PollTimeout, Server!Released
      <4>2. QED
        BY <3>0, <3>2, <3>3, <4>1, NextIterationServes
        DEF LoopBegin, PollTimeout, Server!Next
    <3>4. CASE Receive(l)
      <4>1. /\ loop'[l] = "prechecking" /\ current'[l] = Head(mailbox)
            /\ mailbox # <<>> /\ mailbox' = Tail(mailbox) /\ UNCHANGED emitted
        BY <3>4 DEF Receive, Pop, TypeOK
      <4>2. Server!Take
        BY <3>0, <3>4, <4>1, Stages DEF Receive, Server!Take, Server!Released
      <4>3. QED
        BY <4>2 DEF Server!Next
    <3>5. CASE PreconditionsPass(l) \/ \E r \in Results : ProcessReturns(l, r)
      <4>1. /\ StageOf(loop[l]) = "held" /\ StageOf(loop'[l]) = "held"
            /\ UNCHANGED <<mailbox, current, emitted>>
        BY <3>5, Stages DEF PreconditionsPass, ProcessReturns, TypeOK
      <4>2. QED
        BY <3>0, <4>1 DEF Server!vars
    <3>6. CASE PreconditionsFail(l)
      BY <3>0, <3>1, <3>6, FailedType, ReportSettles
      DEF PreconditionsFail, Failed, FailureCategory
    <3>7. CASE /\ loop[l] \in InFlightPc \ {"reporting"}
               /\ ReportInfrastructureFailure(l)
      BY <3>0, <3>1, <3>7, FailedType, ReportSettles
      DEF ReportInfrastructureFailure, Failed, FailureCategory, InFlightPc
    <3>8. CASE /\ loop[l] = "postchecking" /\ result[l] # None
               /\ Report(l, result[l].outcome, result[l], "replying")
      <4>1. result[l] \in Results \ {None}
        BY <3>8 DEF Wiring, LocalsKnown
      <4>2. /\ loop'[l] = "replying" /\ UNCHANGED <<mailbox, current>>
            /\ emitted' = Append(emitted, [type |-> result[l].outcome,
                                           msg |-> current[l], result |-> result[l]])
        BY <3>1, <3>8 DEF Report, Emit, TypeOK
      <4>3. Server!Reply(result[l])
        BY <3>0, <3>8, <4>2, Stages DEF Server!Reply, Server!Log
      <4>4. QED
        BY <4>1, <4>3 DEF Server!Next
    <3>9. CASE PostconditionsPass(l)
      BY <3>7, <3>8, <3>9 DEF PostconditionsPass, InFlightPc
    <3>10. CASE PostconditionsFail(l)
      <4>1. result[l] \in ProcessResult
        BY <3>10, ResultsAssumption DEF PostconditionsFail, TypeOK
      <4>2. PICK cat \in HookCategories \cup {result[l].category} :
              Report(l, "TASK_POSTCONDITIONS_VIOLATED", Violated(result[l], cat),
                     "reporting")
        BY <3>10 DEF PostconditionsFail
      <4>3. cat \in FailureCategory
        BY <4>1, <4>2, ResultsAssumption DEF ProcessResult
      <4>4. /\ Violated(result[l], cat) \in ProcessResult
            /\ Violated(result[l], cat).category # "NONE"
        BY <4>1, <4>3, ViolatedType DEF Violated
      <4>5. QED
        BY <3>0, <3>1, <3>10, <4>2, <4>4, ReportSettles DEF PostconditionsFail
    <3>11. CASE Finish(l) \/ PostconditionsPanic(l)
      <4>1. Server!Released
        BY <3>0, <3>11, Stages
        DEF Finish, PostconditionsPanic, Server!Released, Wiring, LocalsKnown
      <4>2. QED
        BY <3>0, <3>2, <3>11, <4>1, NextIterationServes
        DEF Finish, PostconditionsPanic, TaskDone, Server!Next
    <3>12. QED
      BY <2>5, <3>3, <3>4, <3>5, <3>6, <3>7, <3>9, <3>10, <3>11 DEF LoopStep, Raises
  <2>6. ASSUME NEW l \in StartCalls, Cancelled(l) \/ CancelledUnborn(l)
        PROVE  Server!Next
    <3> USE Viewed DEF Item, Place
    <3>0. task = l /\ task' = l
      BY <2>6, LoopMoves, TheOnlyLoop DEF Wiring, LivePc, InFlightPc
    <3>1. /\ loop[l] \in LivePc /\ loop'[l] \in DonePc /\ current'[l] = None
          /\ UNCHANGED <<mailbox, emitted>>
      BY <2>6 DEF Cancelled, CancelledUnborn, Wiring, LocalsKnown, LivePc,
                  InFlightPc, DonePc, TypeOK
    <3>2. StageOf(loop[l]) \in Server!Open /\ StageOf(loop'[l]) = "over"
      BY <3>1, Stages DEF LivePc, InFlightPc, Server!Open
    <3>3. Server!CloseDown
      BY <3>0, <3>1, <3>2 DEF Server!CloseDown
    <3>4. QED
      BY <3>3 DEF Server!Next
  <2>7. ASSUME NEW s \in StartCalls, StartBegin(s) \/ StartStep(s)
        PROVE  Server!Next \/ UNCHANGED Server!vars
    <3>1. CASE StartBegin(s) \/ StartHookRaises(s)
      BY <2>1, <3>1 DEF StartBegin, StartHookRaises, loopVars
    <3>2. CASE StartRefused(s)
      BY <2>3, <3>2 DEF StartRefused, AgentEvent, loopVars
    <3>3. QED
      BY <2>4, <2>7, <3>1, <3>2 DEF StartStep
  <2>8. ASSUME NEW c \in ShutdownCalls, ShutdownBegin(c) \/ ShutdownStep(c)
        PROVE  Server!Next \/ UNCHANGED Server!vars
    <3>1. CASE ShutdownTerminate(c)
      BY <2>3, <3>1 DEF ShutdownTerminate, AgentEvent, loopVars
    <3>2. CASE ~ ShutdownTerminate(c)
      BY <2>1, <2>8, <3>2 DEF ShutdownBegin, ShutdownStep, ShutdownHookRaises,
         ShutdownJoin, ShutdownJoinRaises, loopVars
    <3>3. QED
      BY <3>1, <3>2
  <2>9. QED
    BY <2>1, <2>2, <2>5, <2>6, <2>7, <2>8
    DEF Next, vars, Initialize, InitializeRaises, SetCallback, ShutdownFromInside,
        loopVars
<1>3. QED
  BY <1>1, <1>2, Wired, PTL DEF Spec, ImplementsServer, Server!Spec

------------------------------------------------------------------------------
(* What those who host the agent see of its loop and of its events.        *)
Seen == IF task = None THEN "absent"
        ELSE IF loop[task] \in LivePc THEN "running" ELSE "ended"
Kind(type) == IF type \in AgentEvent THEN type ELSE "ANSWER"

LEMMA EmitSays ==
  ASSUME TypeOK, callback, NEW type, NEW m, NEW r, Emit(type, m, r)
  PROVE  Hosted!Says(Kind(type))
<1> DEFINE e == [type |-> type, msg |-> m, result |-> r]
           now == Len(emitted) + 1
           Heard(log) == [n \in DOMAIN log |-> IF log[n].type \in AgentEvent
                                               THEN log[n].type ELSE "ANSWER"]
<1>1. emitted' = Append(emitted, e) /\ e.type = type
  BY DEF Emit
<1>2. emitted \in Seq(Event) /\ Len(emitted) \in Nat /\ DOMAIN emitted = 1 .. Len(emitted)
  BY DEF TypeOK
<1> HIDE DEF e
<1>3. /\ DOMAIN emitted' = DOMAIN emitted \cup {now}
      /\ \A n \in DOMAIN emitted : n < now /\ emitted'[n] = emitted[n]
      /\ now \in Nat /\ emitted'[now] = e
  BY <1>1, <1>2
<1> HIDE DEF now
<1>4. Heard(emitted') = [n \in DOMAIN emitted \cup {now} |->
                           IF n = now THEN Kind(type) ELSE Heard(emitted)[n]]
  <2>1. \A n \in DOMAIN emitted' :
          Heard(emitted')[n] = IF n = now THEN Kind(type) ELSE Heard(emitted)[n]
    BY <1>1, <1>3 DEF Kind
  <2>2. QED
    BY <1>3, <2>1
<1>5. /\ DOMAIN Heard(emitted) = DOMAIN emitted
      /\ now \in DOMAIN Heard(emitted') \cap Nat
  BY <1>3
<1>6. QED
  BY <1>3, <1>4, <1>5 DEF Hosted!Says

(* A loop that says something has said it of a message, and runs on.       *)
LEMMA LoopSpeaks ==
  ASSUME TypeOK, Wiring, NEW l \in StartCalls,
         LoopStep(l) \/ Cancelled(l) \/ CancelledUnborn(l)
  PROVE  \/ UNCHANGED emitted
         \/ /\ loop'[l] \in LivePc
            /\ \E type \in TaskEvent : \E m, r : Emit(type, m, r)
<1> DEFINE Goal == \/ UNCHANGED emitted
                   \/ /\ loop'[l] \in LivePc
                      /\ \E type \in TaskEvent : \E m, r : Emit(type, m, r)
<1>1. ASSUME NEW type \in TaskEvent, NEW r, NEW pc \in {"replying", "reporting"},
             Report(l, type, r, pc)
      PROVE  Goal
  BY <1>1 DEF Report, TypeOK, LivePc, InFlightPc
<1>2. "TASK_FAILED" \in TaskEvent /\ "TASK_PRECONDITIONS_VIOLATED" \in TaskEvent
      /\ "TASK_POSTCONDITIONS_VIOLATED" \in TaskEvent
  BY DEF TaskEvent, LastTaskOutcome
<1>3. CASE PreconditionsFail(l)
  BY <1>1, <1>2, <1>3 DEF PreconditionsFail
<1>4. CASE ReportInfrastructureFailure(l)
  BY <1>1, <1>2, <1>4 DEF ReportInfrastructureFailure
<1>5. CASE PostconditionsFail(l)
  BY <1>1, <1>2, <1>5 DEF PostconditionsFail
<1>6. CASE PostconditionsPass(l)
  <2>1. loop[l] = "postchecking"
    BY <1>6 DEF PostconditionsPass
  <2>2. result[l] # None => result[l].outcome \in TaskEvent
    BY <2>1, ResultsAssumption
       DEF Wiring, LocalsKnown, ProcessResult, TaskEvent
  <2>3. QED
    BY <1>1, <1>4, <1>6, <2>2 DEF PostconditionsPass
<1>7. QED
  BY <1>3, <1>4, <1>5, <1>6
     DEF LoopStep, LoopBegin, Receive, PollTimeout, PreconditionsPass, ProcessReturns,
         PostconditionsPanic, Raises, Finish, TaskDone, Cancelled, CancelledUnborn

(* To those who host it, an agent with one loop is what HostedAgent says:  *)
(* its loop runs once, what it says of messages it says while it runs, and *)
(* it is TERMINATED, and reported so, only when the loop has ended.        *)
THEOREM Hosting == Spec /\ []OneLoopSpawned => ImplementsHosted
<1>1. Init => Hosted!Init
  <2> SUFFICES ASSUME Init PROVE Hosted!Init
    OBVIOUS
  <2>1. emitted = <<>> /\ DOMAIN emitted = {}
    BY DEF Init
  <2>2. QED
    BY <2>1 DEF Init, Hosted!Init
<1>2. TypeOK /\ SpawnedOnce /\ Wiring /\ Asked /\ OneLoopSpawned /\ OneLoopSpawned'
        /\ TerminatedIsQuiescent /\ TerminatedIsQuiescent' /\ [Next]_vars
        => [Hosted!Next]_(Hosted!vars)
  <2> SUFFICES ASSUME TypeOK, SpawnedOnce, Wiring, Asked, OneLoopSpawned,
                      OneLoopSpawned', TerminatedIsQuiescent,
                      TerminatedIsQuiescent', [Next]_vars
               PROVE  Hosted!Next \/ UNCHANGED Hosted!vars
    OBVIOUS
  <2> USE DEF Seen, Kind
  <2>1. CASE /\ status' = status \/ (status # "TERMINATED" /\ status' # "TERMINATED")
             /\ UNCHANGED <<shutdownEvent, task, loop, emitted>>
    BY <2>1 DEF Hosted!vars
  <2>2. CASE shutdownEvent' /\ UNCHANGED <<status, task, loop, emitted>>
    BY <2>2 DEF Hosted!Ask, Hosted!Next
  <2>3. ASSUME NEW s \in StartCalls, StartRefused(s)
        PROVE  Hosted!Next
    <3>1. callback
      BY <2>3 DEF StartRefused, Wiring, CallbackBound
    <3>2. Hosted!Says("AGENT_START_PRECONDITIONS_VIOLATED")
      BY <2>3, <3>1, EmitSays DEF StartRefused, AgentEvent
    <3>3. QED
      BY <2>3, <3>2 DEF StartRefused, Hosted!Refuse, Hosted!Next, loopVars
  <2>4. ASSUME NEW s \in StartCalls, StartRun(s)
        PROVE  Hosted!Next
    <3>1. callback /\ loop[s] = "absent"
      BY <2>4 DEF StartRun, Wiring, CallbackBound, SpawnedOnce
    <3>2. Hosted!Says("AGENT_STARTED")
      BY <2>4, <3>1, EmitSays DEF StartRun, AgentEvent
    <3>3. loop'[s] = "scheduled" /\ task' = s /\ task' # None
      BY <2>4, NoneAssumption DEF StartRun, TypeOK
    <3>4. task = None
      <4>1. task # None => loop[task] # "absent" /\ loop'[task] = loop[task]
        BY <2>4, <3>1 DEF StartRun, Wiring, TaskKnown, TypeOK
      <4>2. QED
        BY <3>1, <3>3, <4>1 DEF OneLoopSpawned, TypeOK
    <3>5. Seen = "absent" /\ Seen' = "running"
      BY <3>3, <3>4 DEF LivePc
    <3>6. QED
      BY <2>4, <3>2, <3>5 DEF StartRun, Hosted!Run, Hosted!Next
  <2>5. ASSUME NEW l \in StartCalls,
               LoopStep(l) \/ Cancelled(l) \/ CancelledUnborn(l)
        PROVE  Hosted!Next \/ UNCHANGED Hosted!vars
    <3>1. /\ UNCHANGED <<callback, shutdownEvent, task>>
          /\ loop[l] \in LivePc
          /\ status' \in {status, "WAITING", "PROCESSING"}
      BY <2>5, LoopMoves
    <3>2. task = l /\ task # None
      BY <3>1, TheOnlyLoop, NoneAssumption DEF Wiring, LivePc, InFlightPc
    <3>3. status # "TERMINATED" /\ status' # "TERMINATED"
      BY <3>1 DEF TerminatedIsQuiescent
    <3>4. Seen = "running" /\ Seen' = IF loop'[l] \in LivePc THEN "running" ELSE "ended"
      BY <3>1, <3>2
    <3>5. CASE UNCHANGED emitted /\ loop'[l] \in LivePc
      BY <3>1, <3>3, <3>4, <3>5 DEF Hosted!vars
    <3>6. CASE UNCHANGED emitted /\ loop'[l] \notin LivePc
      BY <3>1, <3>3, <3>4, <3>6 DEF Hosted!End, Hosted!Next
    <3>7. ASSUME NEW type \in TaskEvent, NEW m, NEW r, Emit(type, m, r),
                 loop'[l] \in LivePc
          PROVE  Hosted!Next
      <4>1. callback
        BY <2>5, <3>1 DEF SpawnedOnce, Wiring, CallbackBound, LivePc, InFlightPc
      <4>2. Kind(type) = "ANSWER"
        BY DEF TaskEvent, LastTaskOutcome, AgentEvent
      <4>3. Hosted!Says("ANSWER")
        BY <3>7, <4>1, <4>2, EmitSays
      <4>4. QED
        BY <3>1, <3>3, <3>4, <3>7, <4>3 DEF Hosted!Answer, Hosted!Next
    <3>8. QED
      BY <2>5, <3>5, <3>6, <3>7, LoopSpeaks
  <2>6. ASSUME NEW c \in ShutdownCalls, ShutdownTerminate(c)
        PROVE  Hosted!Next
    <3>1. /\ status' = "TERMINATED" /\ shutdownEvent /\ shutdownEvent' = shutdownEvent
          /\ UNCHANGED <<task, loop>>
          /\ Emit("AGENT_TERMINATED", None, None)
      BY <2>6 DEF ShutdownTerminate, Asked, loopVars
    <3>2. Seen # "running" /\ Seen' = Seen
      BY <3>1 DEF TerminatedIsQuiescent, TypeOK
    <3>3. callback \/ (Seen = "absent" /\ UNCHANGED emitted)
      <4>1. task # None => callback
        BY DEF Wiring, TaskKnown, CallbackBound, SpawnedOnce, TypeOK
      <4>2. QED
        BY <3>1, <4>1 DEF Emit
    <3>4. callback => Hosted!Says("AGENT_TERMINATED")
      BY <3>1, EmitSays DEF AgentEvent
    <3>5. QED
      BY <3>1, <3>2, <3>3, <3>4 DEF TypeOK, Hosted!Terminate, Hosted!Next
  <2>7. ASSUME NEW c \in ShutdownCalls, ShutdownBegin(c) \/ ShutdownStep(c)
        PROVE  Hosted!Next \/ UNCHANGED Hosted!vars
    BY <2>1, <2>2, <2>6, <2>7 DEF ShutdownBegin, ShutdownStep, ShutdownHookRaises,
       ShutdownJoin, ShutdownJoinRaises, loopVars
  <2>8. ASSUME NEW s \in StartCalls, StartBegin(s) \/ StartStep(s)
        PROVE  Hosted!Next \/ UNCHANGED Hosted!vars
    BY <2>1, <2>3, <2>4, <2>8 DEF StartBegin, StartStep, StartHookRaises, loopVars
  <2>9. QED
    BY <2>1, <2>2, <2>5, <2>7, <2>8
    DEF Next, vars, Initialize, InitializeRaises, SetCallback, Send,
        ShutdownFromInside, callVars, loopVars
<1>3. Init => Asked
  BY DEF Init, Asked
<1>4. QED
  BY <1>1, <1>2, <1>3, AskedStep, Wired, Quiescence, PTL
     DEF Spec, ImplementsHosted, Hosted!Spec

(* Both are implemented by an agent whose start() is called once, as a     *)
(* URPHost does.                                                           *)
COROLLARY SingleImplementation ==
  ASSUME SingleStart
  PROVE  Spec => ImplementsServer /\ ImplementsHosted
<1>1. OneLoopSpawned
  BY SingleStartSpawnsOne
<1>2. QED
  BY <1>1, Implementation, Hosting, PTL
==============================================================================
