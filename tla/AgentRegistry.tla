---------------------------- MODULE AgentRegistry ----------------------------
(***************************************************************************)
(* The factory registry of urp/agent_registry.py.  Its two layers, the     *)
(* module-level functions and the class AgentRegistry, are the same code   *)
(* over different dictionaries, lists and locks; this is either of them.   *)
(*                                                                         *)
(* Its methods are called by threads.  A call does what it does inside     *)
(* `with lock` in one step when nothing in it can be told apart, so those  *)
(* steps need the lock to be free; register()'s test and insertion are two *)
(* steps under it.  create_agent() takes the lock three times and runs the *)
(* hooks and the factory without it.                                       *)
(***************************************************************************)
EXTENDS Sequences, FiniteSets, Naturals, Functions

CONSTANTS
  Calls,     \* the calls made, each by a thread of its own
  Makes,     \* the methods each call may be a call of
  Names,     \* the names agents are registered under
  Factories, \* the factory functions
  Hooks,     \* the hooks
  WaitsFor,  \* the calls a hook waits for before it returns, if it does
  None       \* no factory under a name, or nobody holds the lock

Registers == {"register", "register_if_absent"}
AddsHook == {"add_pre_create_hook", "add_post_create_hook"}
Methods == Registers \cup AddsHook \cup {"create_agent", "clear"}

ASSUME MakesAssumption == Makes \in [Calls -> SUBSET Methods]
ASSUME WaitsForAssumption == WaitsFor \in [Hooks -> SUBSET Calls]
ASSUME NoneAssumption == None \notin Factories \cup Calls

VARIABLES
  factories, \* _agent_factories, or _factories
  preHooks,  \* _pre_create_hooks
  postHooks, \* _post_create_hooks
  lock,      \* the call that holds _registry_lock, or _lock
  pc,        \* where each call is
  op,        \* what each call is
  todo,      \* create_agent: the hooks of its snapshot it has not run yet
  found,     \* create_agent: the factory it looked up
  ran,       \* history: the hooks each call has run, before and after building
  due,       \* history: the pre hooks registered when create_agent was called
             \* and the post hooks registered when the agent was built
  era,       \* history: how often the registry was cleared
  wonIn      \* history: the era in which a call registered its factory

callVars == <<pc, op, todo, found>>
hookVars == <<preHooks, postHooks>>
history == <<ran, due, era, wonIn>>
vars == <<factories, hookVars, lock, callVars, history>>

Operation == [kind : Registers, name : Names, factory : Factories]
             \cup [kind : AddsHook, hook : Hooks]
             \cup [kind : {"create_agent"}, name : Names]
             \cup [kind : {"clear"}]
DonePc == {"returned", "declined", "raised"}
Pc == {"idle", "called", "inserting", "pre", "building", "built", "post"} \cup DonePc

NothingDue == [before |-> {}, after |-> {}]

Init ==
  /\ factories = [n \in Names |-> None]
  /\ preHooks = <<>>
  /\ postHooks = <<>>
  /\ lock = None
  /\ pc = [c \in Calls |-> "idle"]
  /\ op = [c \in Calls |-> None]
  /\ todo = [c \in Calls |-> <<>>]
  /\ found = [c \in Calls |-> None]
  /\ ran = [c \in Calls |-> [before |-> <<>>, after |-> <<>>]]
  /\ due = [c \in Calls |-> NothingDue]
  /\ era = 0
  /\ wonIn = [c \in Calls |-> 0]

Goto(c, place) == pc' = [pc EXCEPT ![c] = place]
IsCall(c, kinds) == pc[c] = "called" /\ op[c].kind \in kinds

Call(c, o) ==
  /\ pc[c] = "idle"
  /\ o.kind \in Makes[c]
  /\ Goto(c, "called")
  /\ op' = [op EXCEPT ![c] = o]
  /\ due' = [due EXCEPT ![c].before = Range(preHooks)]
  /\ UNCHANGED <<factories, hookVars, lock, todo, found, ran, era, wonIn>>

------------------------------------------------------------------------------
(* register(), register_if_absent().                                       *)

(* Mutant: the test is made before the lock is taken.                      *)
RegisterTestUnlocked(c) ==
  /\ IsCall(c, Registers)
  /\ IF factories[op[c].name] # None
     THEN Goto(c, IF op[c].kind = "register" THEN "raised" ELSE "declined")
     ELSE Goto(c, "inserting")
  /\ UNCHANGED <<factories, hookVars, lock, op, todo, found, history>>

RegisterTest(c) ==
  /\ IsCall(c, Registers)
  /\ lock = None
  /\ IF factories[op[c].name] # None
     THEN /\ Goto(c, IF op[c].kind = "register" THEN "raised" ELSE "declined")
          /\ UNCHANGED lock
     ELSE /\ Goto(c, "inserting")
          /\ lock' = c
  /\ UNCHANGED <<factories, hookVars, op, todo, found, history>>

Insert(c) ==
  /\ pc[c] = "inserting"
  /\ factories' = [factories EXCEPT ![op[c].name] = op[c].factory]
  /\ lock' = None
  /\ Goto(c, "returned")
  /\ wonIn' = [wonIn EXCEPT ![c] = era]
  /\ UNCHANGED <<hookVars, op, todo, found, ran, due, era>>

------------------------------------------------------------------------------
(* add_pre_create_hook(), add_post_create_hook(), clear().                 *)

(* Mutant: the list is replaced by the hook.                               *)
AddPreHookReplaces(c) ==
  /\ IsCall(c, {"add_pre_create_hook"})
  /\ lock = None
  /\ preHooks' = op[c].hook
  /\ Goto(c, "returned")
  /\ UNCHANGED <<factories, postHooks, lock, op, todo, found, history>>

AddPreHook(c) ==
  /\ IsCall(c, {"add_pre_create_hook"})
  /\ lock = None
  /\ preHooks' = Append(preHooks, op[c].hook)
  /\ Goto(c, "returned")
  /\ UNCHANGED <<factories, postHooks, lock, op, todo, found, history>>

AddPostHook(c) ==
  /\ IsCall(c, {"add_post_create_hook"})
  /\ lock = None
  /\ postHooks' = Append(postHooks, op[c].hook)
  /\ Goto(c, "returned")
  /\ UNCHANGED <<factories, preHooks, lock, op, todo, found, history>>

(* Mutant: the dictionary is forgotten about.                              *)
ClearHooksOnly(c) ==
  /\ IsCall(c, {"clear"})
  /\ lock = None
  /\ preHooks' = <<>>
  /\ postHooks' = <<>>
  /\ due' = [d \in Calls |-> NothingDue]
  /\ era' = era + 1
  /\ Goto(c, "returned")
  /\ UNCHANGED <<factories, lock, op, todo, found, ran, wonIn>>

(* A hook that is cleared is no longer due for any agent.                  *)
Clear(c) ==
  /\ IsCall(c, {"clear"})
  /\ lock = None
  /\ factories' = [n \in Names |-> None]
  /\ preHooks' = <<>>
  /\ postHooks' = <<>>
  /\ due' = [d \in Calls |-> NothingDue]
  /\ era' = era + 1
  /\ Goto(c, "returned")
  /\ UNCHANGED <<lock, op, todo, found, ran, wonIn>>

------------------------------------------------------------------------------
(* create_agent().                                                         *)

(* Mutant: the lock is held while the pre-create hooks run.                *)
SnapshotPreLocked(c) ==
  /\ IsCall(c, {"create_agent"})
  /\ lock = None
  /\ lock' = IF preHooks = <<>> THEN None ELSE c
  /\ todo' = [todo EXCEPT ![c] = preHooks]
  /\ Goto(c, "pre")
  /\ UNCHANGED <<factories, hookVars, op, found, history>>

(* Mutant: the list of the other hooks is copied.                          *)
SnapshotPreMixedUp(c) ==
  /\ IsCall(c, {"create_agent"})
  /\ lock = None
  /\ todo' = [todo EXCEPT ![c] = postHooks]
  /\ Goto(c, "pre")
  /\ UNCHANGED <<factories, hookVars, lock, op, found, history>>

SnapshotPre(c) ==
  /\ IsCall(c, {"create_agent"})
  /\ lock = None
  /\ todo' = [todo EXCEPT ![c] = preHooks]
  /\ Goto(c, "pre")
  /\ UNCHANGED <<factories, hookVars, lock, op, found, history>>

(* A hook may itself wait for what other threads do with the registry.     *)
HookReturns(h) ==
  \A c \in WaitsFor[h] : pc[c] \notin {"idle"} \cup DonePc
                           => op[c].kind = "create_agent"

(* Whether the hook returns or raises: the error is logged and dropped.    *)
RunHook(c) ==
  /\ pc[c] \in {"pre", "post"}
  /\ todo[c] # <<>>
  /\ HookReturns(Head(todo[c]))
  /\ todo' = [todo EXCEPT ![c] = Tail(@)]
  /\ ran' = IF pc[c] = "pre"
            THEN [ran EXCEPT ![c].before = Append(@, Head(todo[c]))]
            ELSE [ran EXCEPT ![c].after = Append(@, Head(todo[c]))]
  /\ UNCHANGED <<factories, hookVars, lock, pc, op, found, due, era, wonIn>>

(* get_agent_factory(), get_factory(): an unknown name raises, after the   *)
(* pre-create hooks have run.                                              *)
Lookup(c) ==
  /\ pc[c] = "pre"
  /\ todo[c] = <<>>
  /\ lock = None
  /\ found' = [found EXCEPT ![c] = factories[op[c].name]]
  /\ Goto(c, IF factories[op[c].name] = None THEN "raised" ELSE "building")
  /\ UNCHANGED <<factories, hookVars, lock, op, todo, history>>

Build(c) ==
  /\ pc[c] = "building"
  /\ \/ /\ Goto(c, "built")
        /\ due' = [due EXCEPT ![c].after = Range(postHooks)]
     \/ Goto(c, "raised") /\ UNCHANGED due
  /\ UNCHANGED <<factories, hookVars, lock, op, todo, found, ran, era, wonIn>>

(* Mutant: the list of the other hooks is copied.                          *)
SnapshotPostMixedUp(c) ==
  /\ pc[c] = "built"
  /\ lock = None
  /\ todo' = [todo EXCEPT ![c] = preHooks]
  /\ Goto(c, "post")
  /\ UNCHANGED <<factories, hookVars, lock, op, found, history>>

SnapshotPost(c) ==
  /\ pc[c] = "built"
  /\ lock = None
  /\ todo' = [todo EXCEPT ![c] = postHooks]
  /\ Goto(c, "post")
  /\ UNCHANGED <<factories, hookVars, lock, op, found, history>>

Return(c) ==
  /\ pc[c] = "post"
  /\ todo[c] = <<>>
  /\ Goto(c, "returned")
  /\ UNCHANGED <<factories, hookVars, lock, op, todo, found, history>>

------------------------------------------------------------------------------
Step(c) ==
  \/ RegisterTest(c) \/ Insert(c)
  \/ AddPreHook(c) \/ AddPostHook(c) \/ Clear(c)
  \/ SnapshotPre(c) \/ RunHook(c) \/ Lookup(c) \/ Build(c)
  \/ SnapshotPost(c) \/ Return(c)

Next == \E c \in Calls : Step(c) \/ \E o \in Operation : Call(c, o)

Spec == Init /\ [][Next]_vars

(* Threads run, a free lock is taken, and the factory and a hook come back *)
(* when what they wait for has happened.  The calls are finitely many, so  *)
(* a call cannot be kept from the lock for ever and weak fairness is       *)
(* enough.                                                                 *)
FairSpec == Spec /\ \A c \in Calls : WF_vars(Step(c))

------------------------------------------------------------------------------
TypeOK ==
  /\ factories \in [Names -> Factories \cup {None}]
  /\ preHooks \in Seq(Hooks)
  /\ postHooks \in Seq(Hooks)
  /\ lock \in Calls \cup {None}
  /\ pc \in [Calls -> Pc]
  /\ op \in [Calls -> Operation \cup {None}]
  /\ todo \in [Calls -> Seq(Hooks)]
  /\ found \in [Calls -> Factories \cup {None}]

(* Between two clear() calls one registration of a name succeeds, whatever *)
(* threads race for it, and the name keeps the factory of the winner.      *)
FirstRegistrationStands ==
  \A c \in Calls :
    (pc[c] = "returned" /\ op[c].kind \in Registers /\ wonIn[c] = era) =>
      /\ factories[op[c].name] = op[c].factory
      /\ \A d \in Calls \ {c} :
           ~ /\ pc[d] = "returned" /\ op[d].kind \in Registers
             /\ wonIn[d] = era /\ op[d].name = op[c].name

(* A post-create hook that was registered when the agent was built, and    *)
(* not cleared since, has seen the agent when create_agent() returns.      *)
PostHooksSeeTheAgent ==
  \A c \in Calls :
    (pc[c] = "returned" /\ op[c].kind = "create_agent") =>
      due[c].after \subseteq Range(ran[c].after)

(* A pre-create hook that was registered when create_agent() was called,   *)
(* and not cleared since, has run when the factory is called.              *)
PreHooksPrecedeTheAgent ==
  \A c \in Calls :
    pc[c] \in {"building", "built", "post"} =>
      due[c].before \subseteq Range(ran[c].before)

(* To its callers the registry is an atomic store of factories: whatever   *)
(* the threads, register() tests and inserts, create_agent() looks up and  *)
(* clear() forgets at one instant.                                         *)
Verdict(c) ==
  CASE pc[c] = "idle" -> "idle"
    [] pc[c] \in {"declined", "raised"} /\ found[c] = None -> "refused"
    [] \/ pc[c] = "returned" /\ op[c].kind \notin AddsHook
       \/ found[c] # None -> "accepted"
    [] OTHER -> "open"

Store == INSTANCE FactoryStore WITH
           Operations <- Operation, store <- factories, request <- op,
           verdict <- [c \in Calls |-> Verdict(c)], given <- found

ImplementsStore == Store!Spec

(* Every call comes to an end, though hooks wait for other threads that    *)
(* need the registry meanwhile: nobody holds the lock while hooks run.     *)
CallsReturn == \A c \in Calls : pc[c] = "called" ~> pc[c] \in DonePc
==============================================================================
