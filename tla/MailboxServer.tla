---------------------------- MODULE MailboxServer ----------------------------
(***************************************************************************)
(* What an agent promises, whatever its hooks do and whenever it is asked  *)
(* to stop: it takes the messages it was sent one at a time and in their   *)
(* order, answers the one it holds with its result or with a failure,      *)
(* takes an answer back at most once, lets a message go without an answer  *)
(* only when process() returned nothing or the agent ends, and says        *)
(* nothing about messages before it opens or after it closes.              *)
(*                                                                         *)
(* Nothing of hooks, polling, shutdown() or start() is visible here.       *)
(***************************************************************************)
EXTENDS DataTypes, Sequences

CONSTANTS Messages, Results, None

VARIABLES
  inbox,  \* the messages accepted and not taken yet
  item,   \* the message taken last, or None
  stage,  \* what has become of it
  events  \* everything the agent has said

vars == <<inbox, item, stage, events>>

(* "held" without an answer, "replied" with the result of process(),       *)
(* "settled" with a failure; "free" with no message.                       *)
Open == {"free", "held", "replied", "settled"}
Stage == {"closed", "over"} \cup Open

Init ==
  /\ inbox = <<>>
  /\ item = None
  /\ stage = "closed"
  /\ events = <<>>

Submit(m) ==
  /\ inbox' = Append(inbox, m)
  /\ UNCHANGED <<item, stage, events>>

Log(type, m, r) == events' = Append(events, [type |-> type, msg |-> m, result |-> r])

(* The agent may speak of itself at any time.                              *)
Announce(type) ==
  /\ type \in AgentEvent
  /\ Log(type, None, None)
  /\ UNCHANGED <<inbox, item, stage>>

OpenUp ==
  /\ stage = "closed"
  /\ stage' = "free"
  /\ Log("AGENT_STARTED", None, None)
  /\ UNCHANGED <<inbox, item>>

(* The message taken last needs no more attention.                         *)
Released == \/ stage \in {"free", "replied", "settled"}
            \/ stage = "held" /\ None \in Results

Take ==
  /\ Released
  /\ inbox # <<>>
  /\ item' = Head(inbox)
  /\ inbox' = Tail(inbox)
  /\ stage' = "held"
  /\ UNCHANGED events

Rest ==
  /\ Released
  /\ item' = None
  /\ stage' = "free"
  /\ UNCHANGED <<inbox, events>>

Reply(r) ==
  /\ stage = "held"
  /\ stage' = "replied"
  /\ Log(r.outcome, item, r)
  /\ UNCHANGED <<inbox, item>>

(* A message that was answered can only be taken back as TASK_FAILED.      *)
Settle(type, r) ==
  /\ \/ stage = "held"
     \/ /\ stage = "replied"
        /\ type = "TASK_FAILED"
        /\ r = [outcome |-> "TASK_FAILED", category |-> "INFRASTRUCTURE_FAILURE"]
  /\ type \in {"TASK_PRECONDITIONS_VIOLATED", "TASK_POSTCONDITIONS_VIOLATED",
               "TASK_FAILED"}
  /\ r \in ProcessResult \ {[outcome |-> r.outcome, category |-> "NONE"]}
  /\ stage' = "settled"
  /\ Log(type, item, r)
  /\ UNCHANGED <<inbox, item>>

CloseDown ==
  /\ stage \in Open
  /\ stage' = "over"
  /\ item' = None
  /\ UNCHANGED <<inbox, events>>

Next ==
  \/ \E m \in Messages : Submit(m)
  \/ \E type \in AgentEvent : Announce(type)
  \/ OpenUp \/ Take \/ Rest \/ CloseDown
  \/ \E r \in Results \ {None} : Reply(r)
  \/ \E type \in TaskEvent, r \in ProcessResult : Settle(type, r)

Spec == Init /\ [][Next]_vars
==============================================================================
