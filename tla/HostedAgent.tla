----------------------------- MODULE HostedAgent -----------------------------
(***************************************************************************)
(* What an agent whose start() calls spawn one loop at most is to those    *)
(* who host it: a loop that runs once, and the events it emits.            *)
(* AbstractURP has the agent itself; URPHost and WebServer see of it only  *)
(* what is said here.                                                      *)
(*                                                                         *)
(* Events are filed under the instant they were emitted at, later ones     *)
(* under greater numbers, so that an agent's own events can be told in a   *)
(* log it shares with others.                                              *)
(***************************************************************************)
EXTENDS Naturals

VARIABLES
  loop,       \* "absent", "running" or "ended"
  asked,      \* was shutdown() called?
  terminated, \* is the status TERMINATED?
  events      \* the type of the event emitted at each instant

vars == <<loop, asked, terminated, events>>

Init ==
  /\ loop = "absent"
  /\ asked = FALSE
  /\ terminated = FALSE
  /\ events = [n \in {} |-> ""]

Says(type) ==
  \E now \in DOMAIN events' \cap Nat :
    /\ \A n \in DOMAIN events : n < now
    /\ events' = [n \in DOMAIN events \cup {now} |->
                    IF n = now THEN type ELSE events[n]]

(* start() is refused, or spawns the loop.                                 *)
Refuse ==
  /\ Says("AGENT_START_PRECONDITIONS_VIOLATED")
  /\ UNCHANGED <<loop, asked, terminated>>

Run ==
  /\ loop = "absent"
  /\ loop' = "running"
  /\ terminated' = FALSE
  /\ Says("AGENT_STARTED")
  /\ UNCHANGED asked

(* Whatever is said of a message is said by a loop that runs.              *)
Answer ==
  /\ loop = "running"
  /\ Says("ANSWER")
  /\ UNCHANGED <<loop, asked, terminated>>

End ==
  /\ loop = "running"
  /\ loop' = "ended"
  /\ UNCHANGED <<asked, terminated, events>>

(* shutdown() is called, which may be all that can be seen of it until the *)
(* loop has ended; an agent that never ran may have no callback to tell.   *)
Ask ==
  /\ asked' = TRUE
  /\ UNCHANGED <<loop, terminated, events>>

Terminate ==
  /\ loop # "running"
  /\ asked' = TRUE
  /\ terminated' = TRUE
  /\ Says("AGENT_TERMINATED") \/ (loop = "absent" /\ UNCHANGED events)
  /\ UNCHANGED loop

Next == Refuse \/ Run \/ Answer \/ End \/ Ask \/ Terminate

Spec == Init /\ [][Next]_vars
==============================================================================
