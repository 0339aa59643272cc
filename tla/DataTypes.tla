------------------------------ MODULE DataTypes ------------------------------
(***************************************************************************)
(* The enumerations of urp/data_types.py that the runtime branches on, and *)
(* the records made of them.  A ProcessResult keeps the two fields that    *)
(* the runtime reads or writes itself; text, artifacts, metadata and the   *)
(* legacy payload are carried along unread.                                *)
(***************************************************************************)

AgentStatus == {"UNINITIALIZED", "INITIALIZED", "WAITING", "PROCESSING",
                "ERROR", "TERMINATED"}

LastTaskOutcome == {"NONE", "WAITING_FOR_USER_INPUT", "TASK_FAILED",
                    "TASK_COMPLETED"}

FailureCategory == {"NONE", "AGENTIC_FAILURE", "POSTCONDITION_FAILURE",
                    "PRECONDITION_FAILURE", "VALIDATION_FAILURE",
                    "INFRASTRUCTURE_FAILURE"}

ProcessResult == [outcome : LastTaskOutcome, category : FailureCategory]

(* The types of the envelopes the runtime itself emits: one about the      *)
(* agent, or one that answers a message.  An answer to a message that was  *)
(* processed has the outcome's value as its type.                          *)
AgentEvent == {"AGENT_STARTED", "AGENT_START_PRECONDITIONS_VIOLATED",
               "AGENT_TERMINATED"}

TaskEvent == LastTaskOutcome \cup
             {"TASK_PRECONDITIONS_VIOLATED", "TASK_POSTCONDITIONS_VIOLATED"}
==============================================================================
