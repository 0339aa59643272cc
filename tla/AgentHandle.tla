----------------------------- MODULE AgentHandle -----------------------------
(***************************************************************************)
(* The handle of urp/agent_key.py through which an orchestrator sees an    *)
(* agent.  It keeps no state: send() is the agent's Send, and the rest are *)
(* views, read by a task of the same event loop at any suspension point.   *)
(***************************************************************************)
EXTENDS AbstractURPProps

state == [status |-> status, mailbox_size |-> Len(mailbox),
          last_process_result |-> lastResult]

(* The readiness function is the registry's; AgentReadiness says what it   *)
(* derives from the status.                                                *)
readiness == CASE status = "WAITING" -> "READY"
               [] status = "TERMINATED" -> "TERMINATED"
               [] OTHER -> "NOT_READY"

to_dict ==
  [runtime |-> state, readiness |-> readiness,
   reason |-> CASE readiness = "NOT_READY" -> status
                [] readiness = "TERMINATED" -> "Agent has been terminated"
                [] OTHER -> None]

------------------------------------------------------------------------------
(* A snapshot that says READY and shows an empty mailbox means that every  *)
(* message was answered, and last_process_result is the answer to the last *)
(* one.  It cannot mean that while the preconditions of a message are      *)
(* checked, which happens in status WAITING, or once the loop has ended.   *)
(* Needs OneLoopSpawned and a process() that returns a ProcessResult.      *)
IdleMeansAnswered ==
  (/\ None \notin Results
   /\ to_dict.readiness = "READY"
   /\ to_dict.runtime.mailbox_size = 0
   /\ accepted # <<>>
   /\ \A l \in StartCalls : loop[l] \notin {"prechecking"} \cup DonePc) =>
     /\ \A m \in Range(accepted) : Answers(m) # {}
     /\ \E i \in Answers(accepted[Len(accepted)]) :
          emitted[i].result = to_dict.runtime.last_process_result

(* A listener that is told the outcome finds the agent PROCESSING, for the *)
(* outcome is emitted first.  The agent becomes READY afterwards, if it is *)
(* not shut down meanwhile and a loop lives.                               *)
ReadyAgain ==
  \A m \in Messages :
    Answers(m) # {} ~> \/ to_dict.readiness = "READY"
                       \/ shutdownEvent
                       \/ \A l \in StartCalls : loop[l] \notin LivePc
==============================================================================
