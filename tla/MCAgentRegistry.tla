--------------------------- MODULE MCAgentRegistry ---------------------------
(* Small instances of AgentRegistry for TLC. *)
EXTENDS AgentRegistry

CONSTANTS t1, t2, t3, t4, f1, f2, h1

FourCalls == {t1, t2, t3, t4}
TwoFactories == {f1, f2}
OneHook == {h1}
(* Hooks that wait for what all the other threads do.                      *)
Everybody == [h \in Hooks |-> Calls]

(* Two calls race to register a name, or register it around a clear(),     *)
(* while agents are created and hooks are added.                           *)
Assorted == [c \in Calls |->
  CASE c = t1 -> Registers
    [] c = t2 -> Registers \cup {"create_agent"}
    [] c = t3 -> AddsHook \cup {"clear"}
    [] c = t4 -> {"create_agent", "add_post_create_hook", "clear"}]
==============================================================================
