---------------------------- MODULE FactoryStore ----------------------------
(***************************************************************************)
(* What the factories of a registry promise to threads: a store that       *)
(* answers every call at one instant between its beginning and its end.    *)
(* register() and register_if_absent() write a name once, create_agent()   *)
(* reads it, clear() forgets all names at once.                            *)
(*                                                                         *)
(* Nothing of the lock, of hooks and of building agents is visible here.   *)
(***************************************************************************)
CONSTANTS
  Calls, Names, None,
  Operations \* what a call may ask for

VARIABLES
  store,   \* the factory under each name, or None
  request, \* what each call asks for
  verdict, \* what has become of each call
  given    \* the factory a create_agent() call was given, or None

vars == <<store, request, verdict, given>>

Init ==
  /\ store = [n \in Names |-> None]
  /\ request = [c \in Calls |-> None]
  /\ verdict = [c \in Calls |-> "idle"]
  /\ given = [c \in Calls |-> None]

Answer(c, kinds, v) ==
  /\ verdict[c] = "open"
  /\ request[c].kind \in kinds
  /\ verdict' = [verdict EXCEPT ![c] = v]
  /\ UNCHANGED request

Ask(c, o) ==
  /\ verdict[c] = "idle"
  /\ verdict' = [verdict EXCEPT ![c] = "open"]
  /\ request' = [request EXCEPT ![c] = o]
  /\ UNCHANGED <<store, given>>

Write(c) ==
  /\ Answer(c, {"register", "register_if_absent"}, "accepted")
  /\ store[request[c].name] = None
  /\ store' = [store EXCEPT ![request[c].name] = request[c].factory]
  /\ UNCHANGED given

Read(c) ==
  /\ Answer(c, {"create_agent"}, "accepted")
  /\ store[request[c].name] # None
  /\ given' = [given EXCEPT ![c] = store[request[c].name]]
  /\ UNCHANGED store

(* The name is taken, or nothing is there.                                 *)
Refuse(c) ==
  /\ \/ /\ Answer(c, {"register", "register_if_absent"}, "refused")
        /\ store[request[c].name] # None
     \/ /\ Answer(c, {"create_agent"}, "refused")
        /\ store[request[c].name] = None
  /\ UNCHANGED <<store, given>>

Empty(c) ==
  /\ Answer(c, {"clear"}, "accepted")
  /\ store' = [n \in Names |-> None]
  /\ UNCHANGED given

Next == \E c \in Calls : \/ Write(c) \/ Read(c) \/ Refuse(c) \/ Empty(c)
                         \/ \E o \in Operations : Ask(c, o)

Spec == Init /\ [][Next]_vars
==============================================================================
