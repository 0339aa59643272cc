-------------------------- MODULE AbstractURPProps --------------------------
(***************************************************************************)
(* What AbstractURP is checked and proved for.                             *)
(***************************************************************************)
EXTENDS AbstractURP

Event == [type : AgentEvent \cup TaskEvent, msg : Messages \cup {None},
          result : ProcessResult \cup {None}]

(* Every variable has its type.  status is never ERROR: no statement of    *)
(* abstract_urp.py assigns it.                                             *)
TypeOK ==
  /\ status \in AgentStatus \ {"ERROR"}
  /\ callback \in BOOLEAN
  /\ shutdownEvent \in BOOLEAN
  /\ task \in StartCalls \cup {None}
  /\ mailbox \in Seq(Messages)
  /\ unfinished \in Int
  /\ lastResult \in ProcessResult \cup {None}
  /\ start \in [StartCalls -> StartPc]
  /\ stop \in [ShutdownCalls -> StopPc]
  /\ awaited \in [ShutdownCalls -> StartCalls \cup {None}]
  /\ loop \in [StartCalls -> LoopPc]
  /\ current \in [StartCalls -> Messages \cup {None}]
  /\ result \in [StartCalls -> Results \cup {None}]
  /\ accepted \in Seq(Messages)
  /\ emitted \in Seq(Event)

(* The loops that hold a message they took from the mailbox.               *)
Busy == {l \in StartCalls : loop[l] \in InFlightPc}

(* The positions of the events that answer m, and how many messages have   *)
(* been taken from the mailbox, which hands them out in accepted's order.  *)
Answers(m) == {i \in DOMAIN emitted : emitted[i].msg = m}
Taken == Len(accepted) - Len(mailbox)

(* Every get() is paired with exactly one task_done(), on every way out of *)
(* an iteration and with any number of loops: the queue's count of         *)
(* unfinished items is exact, so a join() would be too and task_done()     *)
(* never raises "called too many times".                                   *)
TaskDoneBalanced == unfinished = Len(mailbox) + Cardinality(Busy)

(* A message is answered at most twice, and twice only when the callback   *)
(* raised on the outcome of process(): the second answer then takes it     *)
(* back, as an infrastructure failure.  A callback that raises one of the  *)
(* runtime's own violation errors is outside of the model (Raises).        *)
AtMostOneRetraction ==
  \A m \in Messages : \A i, j \in Answers(m) :
    i < j => /\ emitted[i].result \in Results
             /\ emitted[i].type = emitted[i].result.outcome
             /\ emitted[j].type = "TASK_FAILED"
             /\ emitted[j].result = Failed("INFRASTRUCTURE_FAILURE")
             /\ Answers(m) = {i, j}

(* Positions of the events that say what last_process_result is.           *)
Reports == {i \in DOMAIN emitted : \/ emitted[i].msg # None
                                   \/ emitted[i].type = "AGENT_STARTED"}

(* The two views an observer has of the agent agree at every suspension    *)
(* point: last_process_result of the state is the result in the last       *)
(* answer emitted, or the blank one of start().                            *)
StateAgreesWithEvents ==
  \A i \in Reports :
    (\A j \in Reports : j <= i) =>
      lastResult = IF emitted[i].msg # None
                   THEN emitted[i].result
                   ELSE [outcome |-> "NONE", category |-> "NONE"]

(* Answers come after AGENT_STARTED and never after AGENT_TERMINATED.      *)
(* Needs OneLoopSpawned.                                                   *)
AnswersWithinLifetime ==
  \A i \in DOMAIN emitted : emitted[i].msg # None =>
    /\ \E j \in 1..i : emitted[j].type = "AGENT_STARTED"
    /\ \A j \in 1..i : emitted[j].type # "AGENT_TERMINATED"

(* A TERMINATED agent has no loop that could still touch its state, take a *)
(* message or emit.  Needs OneLoopSpawned.                                 *)
TerminatedIsQuiescent ==
  status = "TERMINATED" => \A l \in StartCalls : loop[l] \notin LivePc

(* Messages are answered in the order in which send() accepted them.       *)
(* Needs OneLoopSpawned.                                                   *)
AnswersInOrder ==
  \A i, j \in DOMAIN emitted :
    (i < j /\ emitted[i].msg # None /\ emitted[j].msg # None) =>
      \E a, b \in DOMAIN accepted :
        a <= b /\ accepted[a] = emitted[i].msg /\ accepted[b] = emitted[j].msg

(* Whatever its hooks, process() and the callback do, a loop that goes on  *)
(* has answered each message it took: only the message it holds, or held   *)
(* when it ended, may be without an answer.  Needs OneLoopSpawned,         *)
(* a process() that returns a ProcessResult, and a child class that does   *)
(* not raise a PostconditionsViolatedError without a result (Raises).      *)
NoSilentDrop ==
  None \notin Results =>
    \A i \in 1..Taken : Answers(accepted[i]) = {} =>
      /\ i = Taken
      /\ \E l \in StartCalls : loop[l] \in InFlightPc \cup DonePc

(* Once shutdown was asked for, a loop never goes back to the mailbox: it  *)
(* takes at most the one message its pending get() was about to return.    *)
OneMessageAfterShutdown ==
  [][shutdownEvent => \A l \in StartCalls :
       /\ loop'[l] = "polling" => loop[l] = "polling"
       /\ loop'[l] = "prechecking" => loop[l] \in {"prechecking", "polling"}]_vars

(* A shutdown() call comes to an end, though the loop may be waiting for a *)
(* message that never comes: the poll timeout lets it see the event.       *)
ShutdownReturns ==
  \A c \in ShutdownCalls : stop[c] = "cleaning" ~> stop[c] \in {"returned", "raised"}

(* A message in the mailbox of an agent with a live loop is taken, unless  *)
(* the loop ends first: no sequence of failures makes the loop hang.       *)
MessagesAreTaken ==
  \A m \in Messages :
    (m \in Range(mailbox) /\ \E l \in StartCalls : loop[l] \in LivePc)
      ~> (m \notin Range(mailbox) \/ \A l \in StartCalls : loop[l] \notin LivePc)

(* At most one start() call has spawned a loop.  Two of them that both     *)
(* pass the guard share the mailbox, and what needs one loop fails (see    *)
(* SingleLoop).                                                            *)
OneLoopSpawned ==
  \A l, k \in StartCalls : loop[l] # "absent" /\ loop[k] # "absent" => l = k

(* It is so with a single start() call, and where nobody calls start()     *)
(* while another call is at its precondition hook.                         *)
SingleStart == \E s : StartCalls = {s}

(* The agent with one loop, the one of _task, seen through its mailbox and *)
(* its events, is the serial server of MailboxServer.                      *)
StageOf(pc) ==
  CASE pc = "absent" -> "closed"
    [] pc \in {"scheduled", "polling"} -> "free"
    [] pc \in {"prechecking", "processing", "postchecking"} -> "held"
    [] pc = "replying" -> "replied"
    [] pc = "reporting" -> "settled"
    [] pc \in DonePc -> "over"

Server == INSTANCE MailboxServer WITH
            inbox <- mailbox, events <- emitted,
            item <- IF task = None THEN None ELSE current[task],
            stage <- IF task = None THEN "closed" ELSE StageOf(loop[task])

ImplementsServer == Server!Spec

(* To those who host it, the agent with one loop is what HostedAgent says. *)
Hosted == INSTANCE HostedAgent WITH
            loop <- IF task = None THEN "absent"
                    ELSE IF loop[task] \in LivePc THEN "running" ELSE "ended",
            asked <- shutdownEvent,
            terminated <- status = "TERMINATED",
            events <- [n \in DOMAIN emitted |->
                         IF emitted[n].type \in AgentEvent
                         THEN emitted[n].type ELSE "ANSWER"]

ImplementsHosted == Hosted!Spec

------------------------------------------------------------------------------
(* What the repository says of the code and the code does not do.          *)

(* .agents/architecture/lifecycle-and-state-machine.md:48: a TERMINATED    *)
(* agent permits read-only inspection.                                     *)
TerminatedIsFinal == [][status = "TERMINATED" => status' = "TERMINATED"]_vars

(* abstract_urp.py:167: _lifecycle_loop is "the mandated single invariant  *)
(* loop".                                                                  *)
SingleLoop == \A l, k \in StartCalls :
                loop[l] \in LivePc /\ loop[k] \in LivePc => l = k

(* abstract_urp.py:125: a message cannot be sent to "a                     *)
(* terminating/terminated agent".                                          *)
RejectsWhileTerminating == [][shutdownEvent => accepted' = accepted]_vars
==============================================================================
