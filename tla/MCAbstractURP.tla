---------------------------- MODULE MCAbstractURP ----------------------------
(* Small instances of AbstractURP for TLC. *)
EXTENDS AgentHandle, TLC

CONSTANTS m1, m2, m3, s1, s2, c1, c2

Completed == [outcome |-> "TASK_COMPLETED", category |-> "NONE"]
Stuck == [outcome |-> "TASK_FAILED", category |-> "AGENTIC_FAILURE"]

OneMessage == {m1}
TwoMessages == {m1, m2}
ThreeMessages == {m1, m2, m3}
OneStart == {s1}
TwoStarts == {s1, s2}
OneShutdown == {c1}
TwoShutdowns == {c1, c2}
(* One result that succeeds and one that carries a category of its own.    *)
TwoResults == {Completed, Stuck}
(* A result, or process() forgot to return one.                            *)
ResultOrNone == {Completed, None}
Unchanged == {}
Validation == {"VALIDATION_FAILURE"}

(* Calls of one kind are interchangeable, and messages are: only for runs  *)
(* without liveness properties.                                            *)
Symmetry == Permutations(ThreeMessages) \cup Permutations(TwoStarts)
            \cup Permutations(TwoShutdowns)
==============================================================================
