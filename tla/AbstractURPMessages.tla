------------------------- MODULE AbstractURPMessages -------------------------
(***************************************************************************)
(* Proofs about AbstractURP that follow a message: from the mailbox to one *)
(* loop, and to its answers.  They hold for every value of the constants,  *)
(* and for any number of loops that share the mailbox.                     *)
(***************************************************************************)
EXTENDS AbstractURPProofs

Held == {"prechecking", "processing", "postchecking"}

------------------------------------------------------------------------------
(* The steps of the agent, as far as messages and answers are concerned.   *)

(* An event about the agent, or none, and at most a new loop.              *)
Aside ==
  /\ UNCHANGED <<mailbox, current, accepted>>
  /\ \A l \in StartCalls : loop'[l] = loop[l] \/ loop'[l] = "scheduled"
  /\ \/ UNCHANGED <<emitted, lastResult>>
     \/ \E e \in Event :
          /\ emitted' = Append(emitted, e)
          /\ e.msg = None
          /\ IF e.type = "AGENT_STARTED"
             THEN lastResult' = [outcome |-> "NONE", category |-> "NONE"]
             ELSE UNCHANGED lastResult

Takes(l) ==
  /\ Pop(l)
  /\ UNCHANGED <<accepted, emitted, lastResult>>

Leaves(l) ==
  /\ \E pc \in {"polling"} \cup DonePc : loop' = [loop EXCEPT ![l] = pc]
  /\ \A k \in StartCalls \ {l} : current'[k] = current[k]
  /\ UNCHANGED <<mailbox, accepted, emitted, lastResult>>

Advances(l) ==
  /\ \/ loop[l] = "prechecking" /\ loop' = [loop EXCEPT ![l] = "processing"]
     \/ loop[l] = "processing" /\ loop' = [loop EXCEPT ![l] = "postchecking"]
  /\ UNCHANGED <<mailbox, current, accepted, emitted, lastResult>>

(* An answer, which is an infrastructure failure when it is the second.    *)
Says(l, type, r, pc) ==
  /\ \/ loop[l] \in Held /\ pc = "reporting"
     \/ /\ loop[l] \in Held /\ pc = "replying"
        /\ r \in Results /\ type = r.outcome
     \/ /\ loop[l] = "replying" /\ pc = "reporting"
        /\ type = "TASK_FAILED" /\ r = Failed("INFRASTRUCTURE_FAILURE")
  /\ emitted' = Append(emitted, [type |-> type, msg |-> current[l], result |-> r])
  /\ lastResult' = r
  /\ loop' = [loop EXCEPT ![l] = pc]
  /\ UNCHANGED <<mailbox, current, accepted>>

LEMMA NextIterationMoves ==
  ASSUME NEW l \in StartCalls, TypeOK, NextIteration(l),
         UNCHANGED <<accepted, emitted, lastResult>>
  PROVE  Takes(l) \/ Leaves(l)
  BY DEF NextIteration, Takes, Leaves, TypeOK, DonePc

LEMMA LoopStepMoves ==
  ASSUME NEW l \in StartCalls, TypeOK, SpawnedOnce, Wiring,
         LoopStep(l) \/ Cancelled(l) \/ CancelledUnborn(l)
  PROVE  \/ Takes(l) \/ Leaves(l) \/ Advances(l)
         \/ \E type \in TaskEvent, r \in ProcessResult, pc \in {"replying", "reporting"} :
              Says(l, type, r, pc)
<1> DEFINE Goal == \/ Takes(l) \/ Leaves(l) \/ Advances(l)
                   \/ \E type \in TaskEvent, r \in ProcessResult,
                         pc \in {"replying", "reporting"} : Says(l, type, r, pc)
<1>1. callback
  BY LoopMoves DEF SpawnedOnce, Wiring, CallbackBound, LivePc, InFlightPc
<1>2. CASE \/ LoopBegin(l) \/ PollTimeout(l) \/ Finish(l) \/ PostconditionsPanic(l)
  BY <1>2, NextIterationMoves
     DEF LoopBegin, PollTimeout, Finish, PostconditionsPanic, TaskDone
<1>3. CASE Receive(l)
  BY <1>3 DEF Receive, Takes
<1>4. CASE Cancelled(l) \/ CancelledUnborn(l)
  BY <1>4 DEF Cancelled, CancelledUnborn, Leaves, DonePc, TypeOK
<1>5. CASE PreconditionsPass(l) \/ \E r \in Results : ProcessReturns(l, r)
  BY <1>5 DEF PreconditionsPass, ProcessReturns, Advances, Held
<1>6. CASE PreconditionsFail(l)
  <2>1. Failed("PRECONDITION_FAILURE") \in ProcessResult
    BY FailedType DEF FailureCategory
  <2>2. Says(l, "TASK_PRECONDITIONS_VIOLATED", Failed("PRECONDITION_FAILURE"),
             "reporting")
    BY <1>1, <1>6 DEF PreconditionsFail, Report, Emit, Says, Held
  <2>3. QED
    BY <2>1, <2>2 DEF TaskEvent
<1>7. CASE /\ loop[l] \in InFlightPc \ {"reporting"}
           /\ ReportInfrastructureFailure(l)
  <2>1. Failed("INFRASTRUCTURE_FAILURE") \in ProcessResult
    BY FailedType DEF FailureCategory
  <2>2. Says(l, "TASK_FAILED", Failed("INFRASTRUCTURE_FAILURE"), "reporting")
    BY <1>1, <1>7 DEF ReportInfrastructureFailure, Report, Emit, Says, Held, InFlightPc
  <2>3. QED
    BY <2>1, <2>2 DEF TaskEvent, LastTaskOutcome
<1>8. CASE /\ loop[l] = "postchecking" /\ result[l] # None
           /\ Report(l, result[l].outcome, result[l], "replying")
  <2>1. result[l] \in Results /\ result[l] \in ProcessResult
    BY <1>8, ResultsAssumption DEF Wiring, LocalsKnown
  <2>2. Says(l, result[l].outcome, result[l], "replying")
    BY <1>1, <1>8, <2>1 DEF Report, Emit, Says, Held
  <2>3. QED
    BY <2>1, <2>2 DEF TaskEvent, ProcessResult
<1>9. CASE PostconditionsPass(l)
  BY <1>7, <1>8, <1>9 DEF PostconditionsPass, InFlightPc
<1>10. CASE PostconditionsFail(l)
  <2>1. result[l] \in ProcessResult
    BY <1>10, ResultsAssumption DEF PostconditionsFail, TypeOK
  <2>2. PICK cat \in HookCategories \cup {result[l].category} :
          Report(l, "TASK_POSTCONDITIONS_VIOLATED", Violated(result[l], cat),
                 "reporting")
    BY <1>10 DEF PostconditionsFail
  <2>3. Violated(result[l], cat) \in ProcessResult
    BY <2>1, <2>2, ResultsAssumption, ViolatedType DEF ProcessResult
  <2>4. Says(l, "TASK_POSTCONDITIONS_VIOLATED", Violated(result[l], cat), "reporting")
    BY <1>1, <1>10, <2>2 DEF PostconditionsFail, Report, Emit, Says, Held
  <2>5. QED
    BY <2>3, <2>4 DEF TaskEvent
<1>11. QED
  BY <1>2, <1>3, <1>4, <1>5, <1>6, <1>7, <1>9, <1>10 DEF LoopStep, Raises

LEMMA EmitsAside ==
  ASSUME TypeOK, NEW type \in AgentEvent \ {"AGENT_STARTED"},
         Emit(type, None, None), UNCHANGED <<mailbox, current, accepted, lastResult>>,
         \A l \in StartCalls : loop'[l] = loop[l] \/ loop'[l] = "scheduled"
  PROVE  Aside
<1> DEFINE e == [type |-> type, msg |-> None, result |-> None]
<1>1. e \in Event /\ e.msg = None /\ e.type # "AGENT_STARTED"
  BY DEF Event
<1>2. emitted' = emitted \/ emitted' = Append(emitted, e)
  BY DEF Emit
<1>3. QED
  BY <1>1, <1>2 DEF Aside

(* Every step of the agent is one of these.                                *)
LEMMA Moves ==
  ASSUME TypeOK, SpawnedOnce, Wiring, [Next]_vars
  PROVE  \/ Aside
         \/ \E m \in Messages : Send(m)
         \/ \E l \in StartCalls :
              \/ Takes(l) \/ Leaves(l) \/ Advances(l)
              \/ \E type \in TaskEvent, r \in ProcessResult,
                    pc \in {"replying", "reporting"} : Says(l, type, r, pc)
<1>1. CASE UNCHANGED <<mailbox, current, accepted, loop, emitted, lastResult>>
  BY <1>1 DEF Aside
<1>2. ASSUME NEW s \in StartCalls, StartRun(s)
      PROVE  Aside
  <2> DEFINE e == [type |-> "AGENT_STARTED", msg |-> None, result |-> None]
  <2>1. e \in Event
    BY DEF Event, AgentEvent
  <2>2. callback
    BY <1>2 DEF StartRun, Wiring, CallbackBound
  <2>3. emitted' = Append(emitted, e)
    BY <1>2, <2>2 DEF StartRun, Emit
  <2>4. QED
    BY <1>2, <2>1, <2>3 DEF StartRun, Aside, TypeOK
<1>3. ASSUME NEW s \in StartCalls, StartRefused(s)
      PROVE  Aside
  BY <1>3, EmitsAside DEF StartRefused, AgentEvent, loopVars
<1>4. ASSUME NEW c \in ShutdownCalls, ShutdownTerminate(c)
      PROVE  Aside
  BY <1>4, EmitsAside DEF ShutdownTerminate, AgentEvent, loopVars
<1>5. QED
  BY <1>1, <1>2, <1>3, <1>4, LoopStepMoves
     DEF Next, vars, Initialize, InitializeRaises, SetCallback, StartBegin, StartStep,
         StartHookRaises, ShutdownFromInside, ShutdownBegin, ShutdownStep,
         ShutdownHookRaises, ShutdownJoin, ShutdownJoinRaises, loopVars

------------------------------------------------------------------------------
(* A message is in the mailbox once, or with one loop, or was answered.    *)
Queued(m) == \E a \in DOMAIN mailbox : mailbox[a] = m

Owned ==
  /\ \A a, b \in DOMAIN mailbox : mailbox[a] = mailbox[b] => a = b
  /\ \A a \in DOMAIN mailbox : mailbox[a] \in Range(accepted)
  /\ \A l \in Busy : /\ current[l] \in Range(accepted)
                     /\ ~ Queued(current[l])
  /\ \A l, k \in Busy : current[l] = current[k] => l = k
  /\ \A i \in DOMAIN emitted : emitted[i].msg # None =>
        /\ emitted[i].msg \in Range(accepted)
        /\ ~ Queued(emitted[i].msg)

(* A loop that holds a message has not answered it, and one whose answer   *)
(* the callback is handling has answered it once, with what process()      *)
(* returned.                                                               *)
AnsweredBy ==
  \A l \in StartCalls :
    /\ loop[l] \in Held => \A i \in DOMAIN emitted : emitted[i].msg # current[l]
    /\ loop[l] = "replying" =>
         /\ \A i, j \in DOMAIN emitted :
              emitted[i].msg = current[l] /\ emitted[j].msg = current[l] => i = j
         /\ \A i \in DOMAIN emitted : emitted[i].msg = current[l] =>
              /\ emitted[i].result \in Results
              /\ emitted[i].type = emitted[i].result.outcome

(* What appending does to a sequence.                                      *)
LEMMA Appended ==
  ASSUME NEW S, NEW s \in Seq(S), NEW e \in S
  PROVE  LET u == Append(s, e)
         IN  /\ Len(s) \in Nat
             /\ DOMAIN u = 1 .. Len(s) + 1 /\ DOMAIN s = 1 .. Len(s)
             /\ u[Len(s) + 1] = e
             /\ \A n \in 1 .. Len(s) : u[n] = s[n]
  OBVIOUS

(* What taking the first of the mailbox does to it.                        *)
LEMMA Taking ==
  ASSUME mailbox \in Seq(Messages), mailbox # <<>>, mailbox' = Tail(mailbox)
  PROVE  /\ 1 \in DOMAIN mailbox /\ mailbox[1] = Head(mailbox)
         /\ \A a \in DOMAIN mailbox' :
              /\ a + 1 \in DOMAIN mailbox
              /\ mailbox'[a] = mailbox[a + 1]
              /\ a \in Nat /\ a >= 1
<1>1. /\ Len(mailbox) \in Nat /\ Len(mailbox) >= 1
      /\ DOMAIN mailbox = 1 .. Len(mailbox)
      /\ Head(mailbox) = mailbox[1]
  OBVIOUS
<1>2. /\ DOMAIN Tail(mailbox) = 1 .. Len(mailbox) - 1
      /\ \A a \in 1 .. Len(mailbox) - 1 : Tail(mailbox)[a] = mailbox[a + 1]
  OBVIOUS
<1>3. QED
  BY <1>1, <1>2

LEMMA OwnedStep ==
  TypeOK /\ SpawnedOnce /\ Wiring /\ Owned /\ [Next]_vars => Owned'
<1> SUFFICES ASSUME TypeOK, SpawnedOnce, Wiring, Owned, [Next]_vars
             PROVE  Owned'
  OBVIOUS
<1> USE DEF Owned, Busy, Queued, InFlightPc
<1>1. CASE Aside
  <2>1. \A l \in Busy' : l \in Busy
    BY <1>1 DEF Aside
  <2>2. \A i \in DOMAIN emitted' : emitted'[i].msg # None =>
          i \in DOMAIN emitted /\ emitted'[i] = emitted[i]
    <3>1. ASSUME NEW e \in Event, emitted' = Append(emitted, e), e.msg = None
          PROVE  \A i \in DOMAIN emitted' : emitted'[i].msg # None =>
                   i \in DOMAIN emitted /\ emitted'[i] = emitted[i]
      BY <3>1, Appended DEF TypeOK
    <3>2. QED
      BY <1>1, <3>1 DEF Aside
  <2>3. QED
    BY <1>1, <2>1, <2>2 DEF Aside
<1>2. ASSUME NEW m \in Messages, Send(m)
      PROVE  Owned'
  <2>1. /\ UNCHANGED <<loop, current, emitted>>
        /\ mailbox' = Append(mailbox, m) /\ accepted' = Append(accepted, m)
        /\ m \notin Range(accepted)
    BY <1>2 DEF Send, loopVars
  <2>2. /\ Len(accepted) \in Nat
        /\ DOMAIN accepted' = 1 .. Len(accepted) + 1 /\ DOMAIN accepted = 1 .. Len(accepted)
        /\ accepted'[Len(accepted) + 1] = m
        /\ \A n \in 1 .. Len(accepted) : accepted'[n] = accepted[n]
    BY <2>1, Appended DEF TypeOK
  <2>3. /\ Len(mailbox) \in Nat
        /\ DOMAIN mailbox' = 1 .. Len(mailbox) + 1 /\ DOMAIN mailbox = 1 .. Len(mailbox)
        /\ mailbox'[Len(mailbox) + 1] = m
        /\ \A n \in 1 .. Len(mailbox) : mailbox'[n] = mailbox[n]
    BY <2>1, Appended DEF TypeOK
  <2>4. Range(accepted') = Range(accepted) \cup {m}
    BY <2>2 DEF Range
  <2>5. \A a \in DOMAIN mailbox' :
          \/ a \in DOMAIN mailbox /\ mailbox'[a] = mailbox[a]
          \/ a = Len(mailbox) + 1 /\ mailbox'[a] = m
    BY <2>3
  <2>6. \A x : Queued(x)' => Queued(x) \/ x = m
    BY <2>5
  <2>7. QED
    BY <2>1, <2>4, <2>5, <2>6
<1>3. ASSUME NEW l \in StartCalls, Takes(l)
      PROVE  Owned'
  <2>1. /\ mailbox # <<>> /\ mailbox' = Tail(mailbox)
        /\ current'[l] = Head(mailbox) /\ loop'[l] = "prechecking"
        /\ \A k \in StartCalls \ {l} : current'[k] = current[k] /\ loop'[k] = loop[k]
        /\ UNCHANGED <<accepted, emitted>>
    BY <1>3 DEF Takes, Pop, TypeOK
  <2>2. /\ 1 \in DOMAIN mailbox /\ mailbox[1] = Head(mailbox)
        /\ \A a \in DOMAIN mailbox' :
              /\ a + 1 \in DOMAIN mailbox
              /\ mailbox'[a] = mailbox[a + 1]
              /\ a \in Nat /\ a >= 1
    BY <2>1, Taking DEF TypeOK
  <2>3. \A x : Queued(x)' => Queued(x) /\ x # Head(mailbox)
    BY <2>2
  <2>4. \A a, b \in DOMAIN mailbox' : mailbox'[a] = mailbox'[b] => a = b
    BY <2>2
  <2>5. Queued(Head(mailbox)) /\ Head(mailbox) \in Range(accepted)
    BY <2>2
  <2>6. QED
    BY <2>1, <2>2, <2>3, <2>4, <2>5
<1>4. ASSUME NEW l \in StartCalls, Leaves(l)
      PROVE  Owned'
  <2>1. /\ loop'[l] \notin InFlightPc
        /\ \A k \in StartCalls \ {l} : current'[k] = current[k] /\ loop'[k] = loop[k]
        /\ UNCHANGED <<mailbox, accepted, emitted>>
    BY <1>4 DEF Leaves, TypeOK, DonePc
  <2>2. QED
    BY <2>1
<1>5. ASSUME NEW l \in StartCalls, Advances(l)
      PROVE  Owned'
  <2>1. /\ loop[l] \in InFlightPc
        /\ \A k \in StartCalls \ {l} : loop'[k] = loop[k]
        /\ UNCHANGED <<mailbox, current, accepted, emitted>>
    BY <1>5 DEF Advances, Held, TypeOK
  <2>2. QED
    BY <2>1
<1>6. ASSUME NEW l \in StartCalls, NEW type \in TaskEvent, NEW r \in ProcessResult,
             NEW pc \in {"replying", "reporting"}, Says(l, type, r, pc)
      PROVE  Owned'
  <2> DEFINE e == [type |-> type, msg |-> current[l], result |-> r]
  <2>1. /\ loop[l] \in InFlightPc
        /\ \A k \in StartCalls \ {l} : loop'[k] = loop[k]
        /\ UNCHANGED <<mailbox, current, accepted>>
        /\ emitted' = Append(emitted, e)
    BY <1>6 DEF Says, Held, TypeOK
  <2>2. e \in Event /\ e.msg = current[l]
    BY DEF Event, TypeOK
  <2> HIDE DEF e
  <2>3. \A i \in DOMAIN emitted' :
          \/ i \in DOMAIN emitted /\ emitted'[i] = emitted[i]
          \/ emitted'[i] = e
    BY <2>1, <2>2, Appended DEF TypeOK
  <2>4. QED
    BY <2>1, <2>2, <2>3
<1>7. QED
  BY <1>1, <1>2, <1>3, <1>4, <1>5, <1>6, Moves

LEMMA AnsweredByStep ==
  TypeOK /\ SpawnedOnce /\ Wiring /\ Owned /\ AnsweredBy /\ [Next]_vars => AnsweredBy'
<1> SUFFICES ASSUME TypeOK, SpawnedOnce, Wiring, Owned, AnsweredBy, [Next]_vars,
                    NEW k \in StartCalls
             PROVE
    /\ loop'[k] \in Held => \A i \in DOMAIN emitted' : emitted'[i].msg # current'[k]
    /\ loop'[k] = "replying" =>
         /\ \A i, j \in DOMAIN emitted' :
              emitted'[i].msg = current'[k] /\ emitted'[j].msg = current'[k] => i = j
         /\ \A i \in DOMAIN emitted' : emitted'[i].msg = current'[k] =>
              /\ emitted'[i].result \in Results
              /\ emitted'[i].type = emitted'[i].result.outcome
  BY DEF AnsweredBy
<1> DEFINE Goal ==
    /\ loop'[k] \in Held => \A i \in DOMAIN emitted' : emitted'[i].msg # current'[k]
    /\ loop'[k] = "replying" =>
         /\ \A i, j \in DOMAIN emitted' :
              emitted'[i].msg = current'[k] /\ emitted'[j].msg = current'[k] => i = j
         /\ \A i \in DOMAIN emitted' : emitted'[i].msg = current'[k] =>
              /\ emitted'[i].result \in Results
              /\ emitted'[i].type = emitted'[i].result.outcome
<1>1. ASSUME k \in Busy PROVE current[k] # None
  BY <1>1, NoneAssumption DEF Owned, TypeOK, Range
<1>2. CASE Aside
  <2>1. /\ current' = current
        /\ loop'[k] \in Held \cup {"replying"} => loop'[k] = loop[k] /\ k \in Busy
    BY <1>2 DEF Aside, Held, Busy, InFlightPc
  <2>2. \A i \in DOMAIN emitted' : emitted'[i].msg # None =>
          i \in DOMAIN emitted /\ emitted'[i] = emitted[i]
    <3>1. ASSUME NEW e \in Event, emitted' = Append(emitted, e), e.msg = None
          PROVE  \A i \in DOMAIN emitted' : emitted'[i].msg # None =>
                   i \in DOMAIN emitted /\ emitted'[i] = emitted[i]
      BY <3>1, Appended DEF TypeOK
    <3>2. QED
      BY <1>2, <3>1 DEF Aside
  <2>3. QED
    BY <1>1, <2>1, <2>2 DEF AnsweredBy
<1>3. ASSUME UNCHANGED emitted, loop'[k] = loop[k], current'[k] = current[k]
      PROVE  Goal
  BY <1>3 DEF AnsweredBy
<1>4. ASSUME NEW m \in Messages, Send(m)
      PROVE  Goal
  BY <1>3, <1>4 DEF Send, loopVars
<1>5. ASSUME NEW l \in StartCalls, Takes(l)
      PROVE  Goal
  <2>1. CASE k = l
    <3>1. /\ current'[k] = Head(mailbox) /\ loop'[k] = "prechecking"
          /\ mailbox # <<>> /\ UNCHANGED emitted
      BY <1>5, <2>1 DEF Takes, Pop, TypeOK
    <3>2. /\ Head(mailbox) \in Messages /\ Queued(Head(mailbox))
      BY <3>1 DEF TypeOK, Queued
    <3>3. QED
      BY <3>1, <3>2, NoneAssumption DEF Owned
  <2>2. CASE k # l
    BY <1>3, <1>5, <2>2 DEF Takes, Pop, TypeOK
  <2>3. QED
    BY <2>1, <2>2
<1>6. ASSUME NEW l \in StartCalls, Leaves(l)
      PROVE  Goal
  <2>1. CASE k = l
    BY <1>6, <2>1 DEF Leaves, TypeOK, DonePc, Held
  <2>2. CASE k # l
    BY <1>3, <1>6, <2>2 DEF Leaves, TypeOK
  <2>3. QED
    BY <2>1, <2>2
<1>7. ASSUME NEW l \in StartCalls, Advances(l)
      PROVE  Goal
  <2>1. CASE k = l
    BY <1>7, <2>1 DEF Advances, TypeOK, Held, AnsweredBy
  <2>2. CASE k # l
    BY <1>3, <1>7, <2>2 DEF Advances, TypeOK
  <2>3. QED
    BY <2>1, <2>2
<1>8. ASSUME NEW l \in StartCalls, NEW type \in TaskEvent, NEW r \in ProcessResult,
             NEW pc \in {"replying", "reporting"}, Says(l, type, r, pc)
      PROVE  Goal
  <2> DEFINE e == [type |-> type, msg |-> current[l], result |-> r]
  <2>1. /\ loop[l] \in InFlightPc
        /\ loop'[l] = pc
        /\ \A j \in StartCalls \ {l} : loop'[j] = loop[j]
        /\ current' = current
        /\ emitted' = Append(emitted, e)
        /\ pc = "replying" => loop[l] \in Held /\ r \in Results /\ type = r.outcome
    BY <1>8 DEF Says, Held, TypeOK, InFlightPc
  <2>2. /\ e \in Event /\ e.msg = current[l] /\ e.result = r /\ e.type = type
    BY DEF Event, TypeOK
  <2> HIDE DEF e
  <2>3. \A i \in DOMAIN emitted' :
          \/ i \in DOMAIN emitted /\ emitted'[i] = emitted[i]
          \/ i = Len(emitted) + 1 /\ emitted'[i] = e
    BY <2>1, <2>2, Appended DEF TypeOK
  <2>4. CASE k = l
    BY <2>1, <2>2, <2>3, <2>4 DEF AnsweredBy, Held
  <2>5. CASE k # l
    <3>1. CASE k \in Busy
      <4>1. current[k] # current[l]
        BY <2>1, <2>5, <3>1 DEF Owned, Busy
      <4>2. QED
        BY <2>1, <2>2, <2>3, <2>5, <4>1 DEF AnsweredBy
    <3>2. CASE k \notin Busy
      BY <2>1, <2>5, <3>2 DEF Busy, Held, InFlightPc
    <3>3. QED
      BY <3>1, <3>2
  <2>6. QED
    BY <2>4, <2>5
<1>9. QED
  BY <1>2, <1>4, <1>5, <1>6, <1>7, <1>8, Moves

(* The inductive invariant the theorems about answers rest on.             *)
Answering == TypeOK /\ SpawnedOnce /\ Wiring /\ Owned /\ AnsweredBy

LEMMA AllAnswering == Spec => []Answering
<1>1. Init => Owned /\ AnsweredBy
  BY DEF Init, Owned, AnsweredBy, Busy, InFlightPc, Held
<1>2. TypeOK /\ SpawnedOnce /\ Wiring /\ Owned /\ AnsweredBy /\ [Next]_vars
        => Owned' /\ AnsweredBy'
  BY OwnedStep, AnsweredByStep
<1>3. QED
  BY <1>1, <1>2, Wired, PTL DEF Spec, Answering

------------------------------------------------------------------------------
(* In every reachable state, however many loops there are and whatever     *)
(* raises, a message has at most two answers: the outcome process()        *)
(* returned and the infrastructure failure that takes it back.             *)
THEOREM OneRetraction == Spec => []AtMostOneRetraction
<1>1. Init => AtMostOneRetraction
  BY DEF Init, AtMostOneRetraction, Answers
<1>2. Answering /\ [Next]_vars /\ AtMostOneRetraction => AtMostOneRetraction'
  <2> SUFFICES ASSUME Answering, [Next]_vars, AtMostOneRetraction,
                      NEW m \in Messages,
                      NEW i \in Answers(m)', NEW j \in Answers(m)', i < j
               PROVE  /\ emitted'[i].result \in Results
                      /\ emitted'[i].type = emitted'[i].result.outcome
                      /\ emitted'[j].type = "TASK_FAILED"
                      /\ emitted'[j].result = Failed("INFRASTRUCTURE_FAILURE")
                      /\ Answers(m)' = {i, j}
    BY DEF AtMostOneRetraction
  <2> USE DEF Answering
  <2>1. m # None
    BY NoneAssumption
  <2>2. CASE Answers(m)' = Answers(m) /\ \A n \in Answers(m) : emitted'[n] = emitted[n]
    BY <2>2 DEF AtMostOneRetraction
  <2>3. CASE UNCHANGED emitted
    BY <2>2, <2>3 DEF Answers
  <2>4. ASSUME NEW e \in Event, emitted' = Append(emitted, e), e.msg # m
        PROVE  Answers(m)' = Answers(m) /\ \A n \in Answers(m) : emitted'[n] = emitted[n]
    BY <2>4, Appended DEF Answers, TypeOK
  <2>5. CASE Aside
    BY <2>1, <2>2, <2>3, <2>4, <2>5 DEF Aside
  <2>6. ASSUME NEW l \in StartCalls, NEW type \in TaskEvent, NEW r \in ProcessResult,
               NEW pc \in {"replying", "reporting"}, Says(l, type, r, pc),
               current[l] = m
        PROVE  /\ emitted'[i].result \in Results
               /\ emitted'[i].type = emitted'[i].result.outcome
               /\ emitted'[j].type = "TASK_FAILED"
               /\ emitted'[j].result = Failed("INFRASTRUCTURE_FAILURE")
               /\ Answers(m)' = {i, j}
    <3> DEFINE e == [type |-> type, msg |-> current[l], result |-> r]
               new == Len(emitted) + 1
    <3>1. /\ e \in Event /\ e.msg = m /\ e.type = type /\ e.result = r
          /\ emitted' = Append(emitted, e)
      BY <2>6 DEF Says, Event, TypeOK
    <3> HIDE DEF e
    <3>2. /\ Len(emitted) \in Nat /\ DOMAIN emitted = 1 .. Len(emitted)
          /\ DOMAIN emitted' = 1 .. Len(emitted) + 1
          /\ emitted'[new] = e
          /\ \A n \in DOMAIN emitted : emitted'[n] = emitted[n]
      BY <3>1, Appended DEF TypeOK
    <3>3. Answers(m)' = Answers(m) \cup {new}
      BY <3>1, <3>2 DEF Answers
    <3>4. i \in Answers(m) /\ (j \in Answers(m) \/ j = new)
      BY <3>2, <3>3 DEF Answers
    <3>5. loop[l] = "replying" /\ type = "TASK_FAILED"
          /\ r = Failed("INFRASTRUCTURE_FAILURE")
      BY <2>6, <3>4 DEF Says, AnsweredBy, Answers
    <3>6. /\ \A n \in Answers(m) : n = i
          /\ emitted[i].result \in Results
          /\ emitted[i].type = emitted[i].result.outcome
      BY <2>6, <3>4, <3>5 DEF AnsweredBy, Answers
    <3>7. j = new /\ i \in DOMAIN emitted
      BY <3>2, <3>4, <3>6 DEF Answers
    <3>8. Answers(m)' = {i, j}
      BY <3>3, <3>4, <3>6, <3>7
    <3>9. QED
      BY <3>1, <3>2, <3>5, <3>6, <3>7, <3>8
  <2>7. ASSUME NEW l \in StartCalls, NEW type \in TaskEvent, NEW r \in ProcessResult,
               NEW pc \in {"replying", "reporting"}, Says(l, type, r, pc),
               current[l] # m
        PROVE  Answers(m)' = Answers(m) /\ \A n \in Answers(m) : emitted'[n] = emitted[n]
    <3>1. [type |-> type, msg |-> current[l], result |-> r] \in Event
      BY DEF Event, TypeOK
    <3>2. QED
      BY <2>4, <2>7, <3>1 DEF Says
  <2>8. QED
    BY <2>2, <2>3, <2>5, <2>6, <2>7, Moves DEF Send, loopVars, Takes, Leaves, Advances
<1>3. QED
  BY <1>1, <1>2, AllAnswering, PTL DEF Spec

(* In every reachable state last_process_result of the agent is the result *)
(* in the last answer it emitted, or the blank one of start().             *)
THEOREM StateAgrees == Spec => []StateAgreesWithEvents
<1>1. Init => StateAgreesWithEvents
  BY DEF Init, StateAgreesWithEvents, Reports
<1>2. Answering /\ [Next]_vars /\ StateAgreesWithEvents => StateAgreesWithEvents'
  <2> SUFFICES ASSUME Answering, [Next]_vars, StateAgreesWithEvents,
                      NEW i \in Reports', \A j \in Reports' : j <= i
               PROVE  lastResult' = IF emitted'[i].msg # None
                                    THEN emitted'[i].result
                                    ELSE [outcome |-> "NONE", category |-> "NONE"]
    BY DEF StateAgreesWithEvents
  <2> USE DEF Answering
  <2>1. CASE UNCHANGED <<emitted, lastResult>>
    BY <2>1 DEF StateAgreesWithEvents, Reports
  <2>2. ASSUME NEW e \in Event, emitted' = Append(emitted, e),
               IF e.msg # None
               THEN lastResult' = e.result
               ELSE IF e.type = "AGENT_STARTED"
               THEN lastResult' = [outcome |-> "NONE", category |-> "NONE"]
               ELSE UNCHANGED lastResult
        PROVE  lastResult' = IF emitted'[i].msg # None
                             THEN emitted'[i].result
                             ELSE [outcome |-> "NONE", category |-> "NONE"]
    <3> DEFINE new == Len(emitted) + 1
    <3>1. /\ Len(emitted) \in Nat /\ DOMAIN emitted = 1 .. Len(emitted)
          /\ DOMAIN emitted' = 1 .. Len(emitted) + 1
          /\ emitted'[new] = e
          /\ \A n \in DOMAIN emitted : emitted'[n] = emitted[n]
      BY <2>2, Appended DEF TypeOK
    <3>2. CASE e.msg # None \/ e.type = "AGENT_STARTED"
      <4>1. new \in Reports'
        BY <3>1, <3>2 DEF Reports
      <4>2. i \in 1 .. new /\ new <= i
        BY <3>1, <4>1 DEF Reports
      <4>3. i = new
        BY <3>1, <4>2
      <4>4. QED
        BY <2>2, <3>1, <3>2, <4>3
    <3>3. CASE ~ (e.msg # None \/ e.type = "AGENT_STARTED")
      <4>1. Reports' = Reports
        BY <3>1, <3>3 DEF Reports
      <4>2. QED
        BY <2>2, <3>1, <3>3, <4>1 DEF StateAgreesWithEvents, Reports
    <3>4. QED
      BY <3>2, <3>3
  <2>3. CASE Aside
    BY <2>1, <2>2, <2>3 DEF Aside
  <2>4. ASSUME NEW l \in StartCalls, NEW type \in TaskEvent, NEW r \in ProcessResult,
               NEW pc \in {"replying", "reporting"}, Says(l, type, r, pc)
        PROVE  lastResult' = IF emitted'[i].msg # None
                             THEN emitted'[i].result
                             ELSE [outcome |-> "NONE", category |-> "NONE"]
    <3> DEFINE e == [type |-> type, msg |-> current[l], result |-> r]
    <3>1. /\ e \in Event /\ e.msg = current[l] /\ e.result = r
          /\ emitted' = Append(emitted, e)
          /\ lastResult' = r
      BY <2>4 DEF Says, Event, TypeOK
    <3>2. current[l] # None
      BY <2>4, NoneAssumption DEF Says, Held, Owned, Busy, InFlightPc, TypeOK, Range
    <3> HIDE DEF e
    <3>3. QED
      BY <2>2, <3>1, <3>2
  <2>5. QED
    BY <2>1, <2>3, <2>4, Moves DEF Send, Takes, Leaves, Advances
<1>3. QED
  BY <1>1, <1>2, AllAnswering, PTL DEF Spec
==============================================================================
