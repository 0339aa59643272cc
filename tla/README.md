# Unified Runtime Primitive in TLA+

This directory holds TLA+ models of the Unified Runtime Primitive (URP): the
base class of agents in `urp/abstract_urp.py` with its handle in
`urp/agent_key.py`, the SDK agent in `urp/sdk_agent.py`, the factory registry in
`urp/agent_registry.py`, the host in `urp/host.py`, and the web server with its
conversation map in `urp/web_server.py`.  TLC checks the models on small
instances; TLAPS proves theorems about all of them for every value of the
constants.  All file names and line numbers are those of the Python sources.

    tlc -config MCAbstractURP_single.cfg MCAbstractURP
    tlapm AbstractURPProofs.tla

## 1. The system

| component | state | operations | used by |
|---|---|---|---|
| `AbstractURPAgent` (`abstract_urp.py`) | `_state` (status, last_process_result), mailbox, `_shutdown_event`, `_task`, `_emit_callback` | `initialize`, `set_callback`, `start`, `send`, `emit`, `shutdown`, the lifecycle loop; hooks and `process()` of the child class | host, handle, any orchestrator |
| data types (`data_types.py`) | enumerations and records | `ProcessResult` harmonises `text` with the legacy `payload` | everything |
| agent registry (`agent_registry.py`) | factories, pre- and post-create hooks, a lock; once for the module, once per `AgentRegistry` object | register, look up, add hooks, `create_agent`, `clear` | application threads |
| `URPHost` (`host.py`) | the agent, `event_queue`, an external callback | `initialize_and_start`, `send_message`, `get_next_event`, `shutdown` | web server |
| web server (`web_server.py`) | the global `host`, `event_log`, `conversation_map.json` | `initialize_agent`, message and state endpoints, `/ws`, conversations, directory browser | browser |
| key, readiness, handle (`agent_key.py`) | none of its own | send, read-only views, derived readiness | orchestrator |
| `SDKURPAgent` (`sdk_agent.py`) | a conversation object and `llm_messages` | `_on_initialize`, `process` in a worker thread | host |
| `EchoAgent`, package entry points, console page | none that matters | | |

How they interact.  Inside one process everything but the registry runs on one
asyncio event loop: control changes hands only where a coroutine is suspended.
An agent's callers (start, shutdown, send) and its lifecycle loop share the
agent's fields and meet at those points.  The agent speaks through a callback;
the host's callback puts the event in the host's queue, then calls the web
server's `log_event`.  The websocket endpoints take events from that queue.
`initialize_agent` shuts the global host down, replaces it and starts a new
agent.  The registry alone is built for threads, with a lock that it must not
hold while it runs user hooks.

What is hard about it, and what has to be right:

* **Agent.**  Callers interleave with the loop between any two suspensions.
  Hooks, `process()` and the callback may fail, and the loop has four except
  clauses at two depths.  `shutdown()` may overlap itself, the start, the loop,
  and its own callers may be cancelled.  Correct: messages are taken in order,
  answered before the next is taken; no failure loses count of the mailbox or
  stops the loop; after shutdown is asked for at most one message more is taken;
  a terminated agent is quiet; shutdown returns.
* **Registry.**  Test and insertion are atomic; hooks run outside the lock on
  copies of lists that change meanwhile; no call waits for ever.
* **Host.**  Its methods overlap; `shutdown()` clears an agent it read before an
  await; a getter's timeout races the event.  Correct: calls that do not overlap
  never lose the running agent, and no event is lost or duplicated.
* **Web server.**  One agent at a time; its life is logged in order; events go
  to a browser in order; a browser follows a replaced host.
* **SDK agent.**  A thread outlives the coroutine that awaited it, the message
  list spans tasks, and the status is the conversation's, not the run's.
  Correct: a task's answer and outcome are of its own run, and runs of one
  conversation never overlap.
* **Conversation map.**  Read, change, truncate, write, with a failure or a
  crash in between.  Correct: a save never undoes another, an id is listed once,
  and what is listed can be reopened.
* **Handle.**  Whoever reads it gets a snapshot between two suspensions.
  Correct: an idle snapshot means that everything was answered.

`PROJECT.json` lists every hazard at its line with the properties that cover it.

## 2. Modules

| module | stands for |
|---|---|
| `DataTypes` | the enumerations of `data_types.py`, the two fields of `ProcessResult` that the runtime reads, the event types |
| `AbstractURP` | the whole agent: one action for each piece of code between two suspensions |
| `AbstractURPProps` | its invariants, action and liveness properties, and the refinement mapping |
| `MailboxServer` | the abstract specification: a serial server with an inbox, one item and a log of events |
| `HostedAgent` | the abstract specification of an agent as those see it who host it: a loop that runs once, and its events |
| `AgentHandle` | the views of `URPAgentHandle` and the readiness derived from them, with two properties of an observer |
| `SDKAgent` | `SDKURPAgent`: `AbstractURP` with its hooks left alone and `process()` refined into the conversation and its threads |
| `URPHost` | one host with overlapping calls and any child class of the agent |
| `WebServer` | hosts and the server that replaces them, its event log and websocket endpoints |
| `AgentRegistry` | the factory registry, of which the module-level functions and the class are two copies of the same code |
| `FactoryStore` | what the registry's factories promise: an atomic store |
| `ConversationMap` | conversations, the map file, `save_conversation`, and the process being killed |
| `MC*` + `MC*_*.cfg` | small instances of each |
| `AbstractURPProofs`, `AbstractURPMessages`, `AbstractURPSingle`, `SDKAgentProofs`, `URPHostProofs`, `WebServerProofs`, `AgentRegistryProofs`, `ConversationMapProofs` | theorems and proofs |

How they compose.  `SDKAgent` extends `AbstractURP`: its steps are the parent's,
with guards, or steps of the conversation beside it, and a theorem says that it
implements the parent.  `AgentHandle` adds views.  `URPHost` and `WebServer` do
not contain the agent; what they have of each is `HostedAgent`, and so is what
`AbstractURP` with one loop shows of itself.  Both halves are theorems
(`Hosting`).  What an agent does of its own accord beyond that, the loop that
ends once it is told to, is fairness in both, and `ShutdownReturns` of the agent.

Three abstract specifications are implemented.  `AbstractURP` with one loop
implements `MailboxServer` (`ImplementsServer`): its inbox is the mailbox, its
item and stage are `current` and the place of the loop that `_task` names, its
log is `emitted`.  `AgentRegistry` implements `FactoryStore` (`ImplementsStore`):
`Verdict` says what the place of a call shows its caller, and the instant at
which a call takes effect is `Insert`, `Clear` or the look-up of `create_agent`;
lock, hooks and the building of agents are not seen.

Operators introduced by a comment `Mutant:` are no part of a specification.
They are deliberately wrong versions of the operator that follows them, named
in `PROJECT.json`; replacing that operator by the mutant violates the property
listed with it, which shows that the property depends on the code.

### 2.1 AbstractURP

State.  `status`, `callback`, `shutdownEvent`, `task`, `mailbox`, `unfinished`
and `lastResult` are the agent's fields (`unfinished` is the counter inside
`asyncio.Queue`).  `start`, `stop` and `loop` say where each `start()` call,
each `shutdown()` call and each lifecycle loop is suspended; `awaited`,
`current` and `result` are their locals.  A `start()` call spawns at most one
loop, so loops are named by the calls.  `accepted` and `emitted` are histories
that no action tests, except that `Send` uses `accepted` to send each envelope
at most once.

Grain.  One action runs from one suspension point to the next.  `initialize`,
`set_callback` and `send` never suspend: the mailbox is unbounded, so `put()`
returns at once.  A loop is in one of:

    scheduled    created, not run yet          processing   awaiting process()
    polling      awaiting mailbox.get()        postchecking awaiting the postconditions
    prechecking  awaiting the preconditions    replying     awaiting the callback, inside the try
    exited/cancelled  done                     reporting    awaiting the callback, in an except clause

`replying` and `reporting` differ because an exception in the first reaches the
catch-all clause, which answers the message a second time, and an exception in
the second reaches the outer clause, which only logs.  `NextIteration` is the
code from the `while` test to the next suspension, part of every action that
ends an iteration.  `PollTimeout` is the poll interval running out, which may
coincide with a message arriving.

Environment.  Hooks, `process()` and the callback return, refuse, or raise; any
of them may let a CancelledError out (`Cancelled`) or call `shutdown()`
(`ShutdownFromInside`: the agent's own task cannot be awaited, so the event is
set and the call raises).  A caller of `shutdown()` that is cancelled during the
join cancels the loop, which absorbs it (`Cancelled`), unless the loop never
ran (`CancelledUnborn`).  `process()` may return `None` where `Results` says so,
which makes `e.result.outcome` raise inside an except clause
(`PostconditionsPanic`).

Abstractions.  Envelopes are model values.  A `ProcessResult` keeps `outcome`
and `category`.  Events of `process()`'s own making are not in `emitted`.  A
hook that passes leaves the result as it was; a hook that refuses may write one
of `HookCategories` into it, as the NOTE at line 200 says.  A callback is bound
or not; rebinding it to another one is not told apart.

The handle.  `AgentHandle` defines what an observer can read at a suspension
point: the state with the mailbox size, and the readiness.  It has no state and
no step.

### 2.2 SDKAgent

Variables beside the agent's: where the worker thread of each message is,
`execution_status` and `llm_messages` of the conversation, and two histories,
`answer` and `ended`.  `SendMessage` is `process()` up to its only suspension,
`SDKProcessReturns` the rest, which reads the status and the last LLM message
some time after the run has ended.  `RunSpeaks`, `RunReturns` and `RunRaises`
are the thread: it takes steps whenever it likes and is not cancelled with the
coroutine that awaits it.

The class overrides no asynchronous hook, and a coroutine that awaits one that
never suspends keeps the event loop.  `Running` holds while some task is at such
a place; then only its own step (`RunOn`) and the threads' are possible.  The
actions of `AbstractURP` that need a hook to refuse or to raise do not occur.
The SDK is external: assumed of it is that `send_message` tells the callback of
the user's message, as of every other, and that a run ends in one of the
statuses other than RUNNING, or raises.

### 2.3 URPHost

Each call of `initialize_and_start` creates the agent of that name.  It is
suspended in the agent's start hook (`checking`) or in the callback of
AGENT_STARTED (`announcing`); `shutdown` in the agent's shutdown (`stopping`) or
in the callback of AGENT_TERMINATED (`reporting`); each may raise there.
`target` is the agent a `shutdown` began with, which is not what line 79 clears:
it clears `self.agent`.  `get_next_event` is called again and again with any of
`Timeouts`; 0 takes the branch of `None`, as `if timeout:` does.  A timeout may
strike while the queue is not empty.  `owed` bounds what an agent emits about
its messages: two events for each, as `AtMostOneRetraction` says.  A loop may
end untold, since a child class may let a CancelledError out.  `overlapped` records that calls were not
sequential; `log` and `delivered` are histories.

### 2.4 AgentRegistry

Every call is made by a thread of its own.  What a method does inside
`with lock` is one step when no other thread could tell it apart;
`register`'s test and insertion are two, with the lock held between them.
`create_agent` is eight places long: copy the pre-create hooks under the lock,
run them without it, look the factory up under the lock, call it without,
copy the post-create hooks, run them.  Hooks may wait for what other threads do
with the registry (`WaitsFor`), which is what the code releases the lock for.
`ran`, `due`, `era` and `wonIn` are histories; `due` is what was registered when
the call was made and when the agent was built.

### 2.5 WebServer

`initialize_agent` suspends in one place only: where the old agent's
`shutdown()` joins its loop.  The agents the server knows override none of the
asynchronous hooks.  So a request is either one step (`InitAtOnce`,
`InitReplaces`) or two (`InitStops`, then `InitResumes` once the loop has
ended); between the two, other requests, agents and endpoints run.  Creation may
fail in `initialize()`, after the global was replaced.  An endpoint looks the
global host up before each `get_next_event` and then waits at that host's queue.
`streamed` is what it wrote to its socket, which may take an event for a while
although the browser has gone: a send without a browser succeeds (`Sent`) or
fails (`SendFails`).
Queues hold positions of `event_log`, so an event can be followed: `Put` and
`Logged` are queue and log after `URPHost._internal_emit_handler` and its
callback `log_event`, `Supersede` the end of a shutdown with the creation that
follows it, which may log one event or two.

### 2.6 ConversationMap

A workspace directory holds what the SDK persisted there and the map file.
`SaveReads` is `save_conversation` up to the changed copy, `SaveTruncates` the
`open(..., 'w')`, `SaveWrites` the dump and the answer.  The handler never
awaits, so requests are kept apart by the event loop (`EventLoopFree`), but the
operating system may refuse a step (`SaveFails`) and the process may be killed
before any (`Reboot`).  A file that was truncated and not written is torn, and
`json.load` raises on it from then on.  `Open` is what `initialize_agent` and
`SDKURPAgent._on_initialize` do to the active conversation, for any id they are
given.  `named` and
`misplaced` are histories: what was acknowledged, and whether a request named a
workspace other than the conversation's own, which the code does not compare.

## 3. What is checked

| run | instance | distinct states | shows |
|---|---|---|---|
| `core_single` | 1 start, 2 shutdowns, 3 messages, 2 results | 83 thousand | `AnswersWithinLifetime`, `TerminatedIsQuiescent`, `AnswersInOrder`, `NoSilentDrop`, `IdleMeansAnswered`, and that the agent implements `MailboxServer` |
| `core_double` | 2 starts, 1 shutdown, 2 messages, a result or `None`, with fairness | 135 thousand | `TypeOK`, `TaskDoneBalanced`, `AtMostOneRetraction`, `StateAgreesWithEvents`, `OneMessageAfterShutdown`, `ShutdownReturns`, `MessagesAreTaken`, `ReadyAgain`, even with two loops |
| `sdk` | 2 starts, 2 shutdowns, 2 messages, 2 LLM messages a run | 362 thousand | `SDKTypeOK`, `AnswersItsOwnTask`, `OutcomeOfItsOwnRun`, `OneRunAtATime`, `SingleLoop` |
| `host` | 2 starts, 1 shutdown, 1 getter, timeouts 0 and 1, 1 message, with fairness | 703 thousand | `TypeOK`, `KeepsItsAgent`, `QueueConserves`, `AgentsAreHosted`, `ShutdownReturns` |
| `registry_calls` | 4 threads, 1 name, 2 factories, 1 hook, with fairness | 38 thousand | `TypeOK`, `FirstRegistrationStands`, `PreHooksPrecedeTheAgent`, `PostHooksSeeTheAgent`, `CallsReturn`, and that the registry implements `FactoryStore` |
| `web_server` | 3 requests, 2 browsers, 1 answer, with fairness | 912 thousand | `TypeOK`, `SoleAgent`, `LivesFollowEachOther`, `StreamedInOrder`, `EventsConserved`, `ClientFollows` |
| `map` | 2 workspaces, 3 ids, 2 names, 2 requests | 405 thousand | `TypeOK`, `IdsUnique`, `AcknowledgedIsSaved`, `ListedIsResumable` |

Why these bounds are enough.  Two overlapping `shutdown()` calls, one of them
cancelled, is the least that shows a join absorbed by the loop; a third adds no
new pair of actors.  Three messages let one be handled, one wait and one arrive
after shutdown was asked for.  Two starts are needed for two loops, and the
theorems cover any number.  In `sdk` two messages are needed for one run that
outlives its task and another that must not begin, and two words for a last one
that is not the first.  In `host` two starts and one shutdown give every pair of
overlapping calls but two shutdowns, which the core runs have; a getter comes
back for each event.  With one name in the registry all threads meet; two names
never touch the same entry.  Three requests to the web server let one be
replaced, one overlap and one come after; two browsers take turns at a queue,
and `MaxAnswers` leaves an event that may overtake or follow
`AGENT_TERMINATED`.  In `map` three conversations let one entry stay, one be
renamed and one be added; two connections are there to be kept apart.  Symmetry
is used in `core_single` (messages, shutdown calls) and `map` (workspaces, ids,
names, requests), which check no liveness property; nothing in them
distinguishes the values.  All runs set `CHECK_DEADLOCK FALSE`: an agent that is
never started, or has terminated, a registry whose calls have returned and a
server nobody calls really do stop.

### Fairness

Only in `core_double`, `registry_calls`, `web_server` and `host`, and only weak.

* `StartStep`, `LoopStep`, `ShutdownStep`: asyncio runs every ready task, the
  poll timer fires, and hooks, `process()` and callbacks come back.  The last is
  assumed of the child class: the code puts no timeout on them, and without it
  none of the three properties holds.  Nobody is obliged to call anything, to
  cancel, or to shut down from inside.
* `AgentRegistry!Step`: threads run and obtain a free lock.  Weak fairness is
  enough since the calls are finitely many: from some point on, no other call
  competes for the lock.  Hooks return when what they wait for has happened.
* `InitResumes`, `AgentExits`, `WsStep`: ready tasks run, a loop that was told
  to end does (`ShutdownReturns` of the agent), a send to a socket returns or
  fails.
* `URPHost`: `LoopEnds` of a loop that was told to, for the same reason,
  `StopStep` (the agent's shutdown and its callback come back), `GetStep` (a
  getter is woken by an event or by its timer; with `timeout=0` it has none).
  Raising is never obliged.

### Where the code and what is said of it disagree

Each of these runs checks one sentence of the repository and fails.

* `core_final` (`TerminatedIsFinal`).  `start()` tests the status at line 93,
  awaits its precondition hook, and sets WAITING at line 110.  A `shutdown()`
  that completes in between is undone; `send()` accepts messages again and
  nobody takes them.
* `core_one_loop` (`SingleLoop`).  Two `start()` calls both pass line 93 and
  leave two loops on one mailbox.  `_task` keeps one, so `shutdown()` does not
  wait for the other.
* `core_reject` (`RejectsWhileTerminating`).  `send()` says it rejects messages
  to a terminating agent, and tests for TERMINATED only.
* `web_restart` (`RestartReplaces`).  Two overlapping requests shut the same
  host down, and one of the two agents they start runs on, unreachable.
* `map_reboot` (`RestoredAfterReboot`).  `save_conversation` truncates the map
  in place before it writes it.  A process killed in between leaves a map with
  none of the conversations saved before, and listing and saving raise.

Two more can be read off the code and the actions named; no run checks them.

* `.agents/runtime/hosting-and-kernel.md:53` calls `/ws` a stream "broadcasting
  agent lifecycle and output envelopes to UI".  All endpoints take from the one
  `event_queue` of the host (`web_server.py:422`, `host.py:72`), so with two
  browsers each event reaches one of them only, as `Pull` has it.
  `StreamedInOrder` therefore says what one browser gets, and `EventsConserved`
  what all of them get together.
* `README.md:181-182` and `.agents/runtime/lifecycle-and-state-machine.md:85-86`
  put the return to WAITING before the emission of the outcome.  The code emits
  first (`abstract_urp.py:210`) and sets WAITING as the next iteration begins
  (line 174).  So whoever handles an outcome sees PROCESSING; `ReadyAgain` is
  about what comes after and holds in either order.

Properties that the first two would break are checked with a single `start()`
call (`core_single`) and proved wherever one loop was spawned, those of the host
and the web server for calls that do not overlap (`~ overlapped`).
`SingleLoop`, which `core_one_loop` refutes, does hold of `SDKURPAgent` (`sdk`):
its start hook never suspends.  Everything that holds regardless is checked in
`core_double`, with the two loops present.

## 4. What is proved

The assumptions are the named `ASSUME`s of the modules: `None` is none of the
other values, results and hook categories are process results and categories,
`StartCalls` and `Clients` are finite, and for `SDKAgent` that whatever its `process()` makes of
a status is in `Results`.  Messages, other calls, threads, hosts and
workspaces may be infinite in number, and the bounds of the runs are no bounds
of the theorems: `MaxWords`, `MaxMessages` and `MaxAnswers` are any numbers.

### The agent (`AbstractURPProofs`, `AbstractURPMessages`, `AbstractURPSingle`)

| theorem | statement | by |
|---|---|---|
| `Typing` | `Spec => []TypeOK` | `TypeOK` is inductive |
| `AtMostOneMessage` | `Spec => OneMessageAfterShutdown` | step by step, from the types; `NextIterationTests` says that the `while` test guards every `get()` |
| `Balance` | `Spec => []TaskDoneBalanced` | inductive with `TypeOK` and `SpawnedOnce`; `BusyChange` counts the loops that hold a message when one of them moves |
| `Quiescence` | `Spec /\ []OneLoopSpawned => []TerminatedIsQuiescent` | the property together with `Wired` |
| `Implementation` | `Spec /\ []OneLoopSpawned => Server!Spec` | initial states map, and each action maps to a server action or a stutter, under `Wired` |
| `ShutdownWindsDown` | `Spec => [][WindsDown]_vars /\ []JoinsARunningLoop` | `Ahead` counts the places a loop still has before it; `Asked` |
| `OneRetraction` | `Spec => []AtMostOneRetraction` | `Answering` |
| `StateAgrees` | `Spec => []StateAgreesWithEvents` | `Answering` |
| `WithinLifetime` | `Spec /\ []OneLoopSpawned => []AnswersWithinLifetime` | `Asked`, `Born`, `Buried` |
| `InOrder` | `Spec /\ []OneLoopSpawned => []AnswersInOrder` | `Answering`, `InLine` |
| `NothingDropped` | `Spec /\ []OneLoopSpawned => []NoSilentDrop` | with `Unanswered` |
| `IdleIsAnswered` | `Spec /\ []OneLoopSpawned => []IdleMeansAnswered` | with `Unborn`, `Working`, `Latest` |
| `Hosting` | `Spec /\ []OneLoopSpawned => ImplementsHosted` | `Wired`; `LoopSpeaks`: what a loop emits is an answer |
| `SingleQuiescence`, `SingleImplementation`, `SingleStartSuffices` | `SingleStart`: the seven theorems above that need one loop, without the hypothesis | a `start()` call spawns one loop at most |

The inductive invariant is `TypeOK /\ SpawnedOnce /\ Wiring` (lemma `Wired`).
`SpawnedOnce`: a loop exists only if its `start()` has returned, so `StartRun`
never overwrites a loop that holds a message; without it the count of
`TaskDoneBalanced` could drop.  `Wiring` has three parts.  `TaskKnown`: with no
task there is no loop, and a join awaits a real one; without it a `shutdown()`
that finds no task could terminate a running agent.  `CallbackBound`: an
initialized agent has a callback, so the loop's events are not dropped and the
server's log moves with them.  `LocalsKnown`: a loop that has just been created
holds no message, and one at its postconditions holds a result.

`Answering` adds what follows one message.  `Owned`: it is in the mailbox once,
or with one loop, or answered, and never two of these, whatever loops share the
mailbox.  `AnsweredBy`: a loop that works on a message has not answered it, and
one that waits for the callback of an outcome has answered it once, with what
`process()` returned.  Lemma `Moves` reduces the agent's 25 actions to six kinds
of step as far as messages are concerned (`Aside`, `Send`, `Takes`, `Leaves`,
`Advances`, `Says`), over which these proofs go.

With one loop the answers can be placed in time.  `Buried`: after
AGENT_TERMINATED no loop is at work, and the shutdown event is set, so that a
loop which `start()` spawns yet takes nothing; this is how the answers stay
within the agent's lifetime although `start()` may outlive a whole `shutdown()`.
`InLine`: what was taken and the mailbox, in that order, are what was accepted,
and the loop holds the message taken last.  `Unanswered`: a taken message without
an answer is the last one taken, and the loop works on it or ended at it.
`Latest`: once the message taken last is answered, `last_process_result` is the
result of an answer to it, which with `Working` is what makes an idle snapshot of
the handle truthful.

`OneLoopSpawned`, that at most one `start()` call has spawned a loop so far, is
no convenience: `core_one_loop` shows the code has two loops with two
overlapping starts, which take turns at the mailbox and answer in any order.  It
is true of an agent that is started once, which is how `URPHost` uses one
(corollaries), and of every `SDKURPAgent`, which may be started any number of
times.  A `start()` that is refused or raises spawns nothing and is no exception.

`ShutdownWindsDown` is what can be proved of `ShutdownReturns` without fairness.
Once `shutdown()` was asked for, every step of a loop strictly decreases the
number of places before it, which is eight at most: no hook, exception,
cancellation or second `shutdown()` sends it back to `get()`.  Whoever waits in
the join waits for a loop that exists and that the event tells to end.  What is
left to fairness is only that hooks and callbacks come back.

### The SDK agent (`SDKAgentProofs`)

| theorem | statement | by |
|---|---|---|
| `Extends` | `SDKSpec => Spec` | each step is one of the parent's or leaves its state alone; so every theorem about the agent holds of it |
| `SDKTyping` | `[]SDKTypeOK` | inductive, with the message of a loop known (`HeldMessage`) |
| `OneLoop` | `[](OneLoopSpawned /\ SingleLoop)` | `Sole` |
| `SDKPromises` | `TerminatedIsQuiescent`, `AnswersWithinLifetime`, `AnswersInOrder`, `NoSilentDrop`, `IdleMeansAnswered` | `Extends`, `OneLoop` and the theorems about the agent |
| `SDKServes` | `ImplementsServer`, `ImplementsHosted` | likewise |
| `OneRun` | `[]OneRunAtATime` | the property, inductive under `Alone` |
| `OwnWords` | `[]AnswersItsOwnTask` | `Words` |
| `OwnOutcome` | `[]OutcomeOfItsOwnRun` | `Endings` |

`Sole` is why nothing has to be said of the number of `start()` calls here: a call between its test of the
status and the change of it keeps the event loop to itself, and any status but
the first two has one loop.  `Alone` is `Answering` and `Sole`.  `OneRun` then
says that a run is awaited or outlived its task, whose loop is the only one and
has ended.  `Words`: no word of a message before its thread, and while a loop is
with it the last word is of its run; it needs `OneRun`, for otherwise another
run could speak last.  `Endings`: between the end of a run and its report, the
status, then the loop's `result`, still say how it ended.

### The host, the registry, the web server, the map

| theorem | statement | inductive invariant |
|---|---|---|
| `URPHostProofs!Typing`, `Conserved` | `[]TypeOK`, `[]QueueConserves` | with `Counts`: a mailbox has no more than was sent, a `shutdown` under way has an agent; what was delivered followed by the queue only ever grows with the log |
| `URPHostProofs!Keeps` | `[]KeepsItsAgent` | `Sequential`: without overlap one call is under way at most, and whatever is under way is about the host's agent |
| `URPHostProofs!Hosting` | `AgentsAreHosted` | `TypeOK` and `Counts` |
| `AgentRegistryProofs!Typing` | `[]TypeOK` | with the calls' operations known where they are |
| `FirstStands` | `[]FirstRegistrationStands` | `RegisteringInv`: whoever is between test and insertion has the lock, and the name is still free |
| `PreHooksPrecede`, `PostHooksSee` | `[]PreHooksPrecedeTheAgent`, `[]PostHooksSeeTheAgent` | what is due is in the list, or in the copy still to be run, or has run |
| `StoreIsAtomic` | `ImplementsStore` | `RegisteringInv`, and `LooksOnce`: a factory is looked up by a call that creates and has none yet |
| `RegistryGoesOn` | `[]NoDeadlock /\ [][CallsGoOn]_vars` | `HolderInserts`: who holds the lock is about to insert and waits for nothing |
| `WebServerProofs!Sole` | `[]SoleAgent` | `ControlOK` (types of what decides it) and `Sequential`: one request stops an agent at a time, that of the global host |
| `WebServerProofs!Typing` | `[]TypeOK` | with `InQueues`: a queue holds positions of its own host's events, in their order |
| `OnceInOrder` | `[]StreamedInOrder` | `Streaming`: what was taken from a queue is older than what it holds, no two hands or browsers have the same event, and each browser has those of a host in order |
| `OneLifeAfterAnother` | `[]LivesFollowEachOther` | `Sequential`, `Settled`, `Created`: a host is logged once its request created it, and lets go of its agent as its end is logged; `Good`: whoever has spoken and has not been reported terminated is the global host's agent (`Quiet`) |
| `Conserved` | `[]EventsConserved` | `Streaming`: an event in a hand is nowhere else, so a connection that breaks loses exactly that one |
| `WebServerProofs!Hosting` | `AgentsAreHosted` | `ControlOK`, `Settled`: what the log has of a host, `Told`, grows by what its agent does |
| `ConversationMapProofs!Typing`, `Uniqueness` | `[]TypeOK`, `[]IdsUnique` | `Unique` is preserved by `Updated` |
| `Acknowledged` | `[]AcknowledgedIsSaved` | `SavingInv`: one handler at a time, and its copy keeps every acknowledged entry but the one it renames |
| `Resumable` | `[]ListedIsResumable` | `ResumingInv`: the active conversation is persisted, and a copy lists persisted ones |

The three theorems named `Hosting` join the models.  `HostedAgent` has what those
who host an agent need of it, and no more: the loop runs once and answers only
while it runs, AGENT_STARTED is emitted as it begins, AGENT_TERMINATED only while
none runs, and there is a status TERMINATED only of an agent that was told to
shut down.  Events are filed under the instant of their emission, so that an
agent's own log and its part of a log it shares are told alike.  `AbstractURP`
has this of one agent with one loop, `URPHost` of each agent however its calls
overlap, and `WebServer` of each agent however requests overlap and creation
fails.  So nothing is assumed of an agent there that its code does not keep.  The
converse, that the hosts let an agent do everything `HostedAgent` allows, is not
a refinement and is not proved: in `URPHost` an agent ends whenever it likes and
answers within what it is owed, in `WebServer` it overrides no asynchronous hook
and so starts and terminates within one step.

`StoreIsAtomic` is the linearizability of the factories: test and insertion are
two steps with the lock held in between, so the writer takes effect at the
second and a refusal at the first, and the theorem needs that nobody else can
change the name in between.  `RegistryGoesOn` is what can be proved of
`CallsReturn` without fairness: some call under way can always go on, although
hooks wait for other threads to register, add hooks and clear, and each step
shortens the way of its call, `Ahead` in places and then in hooks to run.  Hooks
that wait for other `create_agent` calls are left out (`HookReturns`): two of
them can wait for each other, which no lock discipline prevents.

### Only model-checked

Liveness (`ShutdownReturns`, `MessagesAreTaken`, `ReadyAgain`, `CallsReturn`,
`ClientFollows`): fairness and ENABLED are out of the prover's
reach; the safety halves of the first and of `CallsReturn` are theorems.  Every
invariant, every action property and all three refinements that a passing run
checks (`ImplementsServer`, `ImplementsStore`, `AgentsAreHosted` of `URPHost`)
are theorems; `ImplementsHosted` and `AgentsAreHosted` of `WebServer` are
theorems only.  That the guards of `CanGoOn` are those of `Step` is the part of
`RegistryGoesOn` that is about ENABLED.

## 5. Not modelled

* `ProcessResult`: how `text` and the legacy `payload` fill each other, and the
  record that is rebuilt after failed postconditions without artifacts and
  metadata.  The runtime branches on neither.
* Events that `process()` emits of its own accord, such as `ECHO_RECEIVED` of
  `EchoAgent`; they go the way of any other event, through `emit`.  `EchoAgent`
  is otherwise one of the behaviours `AbstractURP` allows.
* Hooks of a child class that do more than return, refuse, raise, wait, cancel
  or shut down; in particular what a repeated `_on_initialize` does.
* A child class that raises the runtime's own `PreconditionsViolatedError` or
  `PostconditionsViolatedError`, which `urp/__init__.py` exports, from
  `process()`, a hook or the callback: they would reach the clauses at lines 218
  and 238 instead of the catch-all at 252, to which `Raises` sends every
  exception.  `AtMostOneRetraction`, `NoSilentDrop` and the theorems about them
  assume that it does not.
* A constructor of the agent class that raises in `initialize_and_start`: the
  host is as it was.
* In `URPHost`, the suspension in the callback of
  AGENT_START_PRECONDITIONS_VIOLATED (line 103 of the agent): nothing but an
  exception follows it.  In `SDKAgent`, `shutdown()` called from inside the
  loop, which that class's code never does.
* Hazards named in `PROJECT.json` that no property covers, because nothing in
  the repository says what should happen: a wait with `timeout=0`, which never
  ends (`host.py:70`); overlapping calls of one host's methods (`host.py:50`,
  `host.py:79`), of which the properties speak only as long as there are none; a
  write that the operating system breaks off in the middle; a conversation saved
  under another workspace than its own.
* The SDK: what a run says and does, persistence of a conversation, security
  and confirmation settings.
* Console page, directory browser, package entry points, A2A card
  serialisation, read-only queries of the registry, `/agent/state`: no state of
  the system.

## 6. Plan

1. **Harmonisation of `ProcessResult`** as a function, checked over all cases
   and after the postcondition branch rebuilds the record.
2. **One host of the web server.**  That `WebServer` calls `URPHost` sequentially
   unless requests overlap, so that `KeepsItsAgent` applies to each of its hosts.
   Its steps are several of the host's at once, so this is no refinement step by
   step; what can be stated is that `overlapped` of the one implies that of the
   other.
