------------------------- MODULE AgentRegistryProofs -------------------------
(***************************************************************************)
(* Proofs about AgentRegistry, for every value of its constants: any       *)
(* number of threads, names and hooks.                                     *)
(***************************************************************************)
EXTENDS AgentRegistry, TLAPS

LEMMA RangeOfAppend ==
  ASSUME NEW s \in Seq(Hooks), NEW h \in Hooks
  PROVE  Range(Append(s, h)) = Range(s) \cup {h}
<1> DEFINE u == Append(s, h)
<1>1. /\ DOMAIN u = 1 .. Len(s) + 1 /\ DOMAIN s = 1 .. Len(s) /\ Len(s) \in Nat
      /\ u[Len(s) + 1] = h
      /\ \A n \in 1 .. Len(s) : u[n] = s[n]
  OBVIOUS
<1> HIDE DEF u
<1>2. Range(u) = Range(s) \cup {h}
  BY <1>1 DEF Range
<1>3. QED
  BY <1>2 DEF u

LEMMA RangeOfTail ==
  ASSUME NEW s \in Seq(Hooks), s # <<>>
  PROVE  /\ Head(s) \in Hooks
         /\ Tail(s) \in Seq(Hooks)
         /\ Range(s) \subseteq {Head(s)} \cup Range(Tail(s))
<1>1. Head(s) \in Hooks /\ Tail(s) \in Seq(Hooks)
  OBVIOUS
<1>2. ASSUME NEW n \in DOMAIN s, n # 1
      PROVE  n - 1 \in DOMAIN Tail(s) /\ Tail(s)[n - 1] = s[n]
  <2>1. n \in 1 .. Len(s) /\ Len(s) \in Nat
    OBVIOUS
  <2>2. Len(Tail(s)) = Len(s) - 1 /\ DOMAIN Tail(s) = 1 .. Len(Tail(s))
    OBVIOUS
  <2>3. n - 1 \in 1 .. Len(s) - 1
    BY <1>2, <2>1
  <2>4. Tail(s)[n - 1] = s[n - 1 + 1]
    BY <2>1, <2>3
  <2>5. QED
    BY <2>1, <2>2, <2>3, <2>4
<1>3. s[1] = Head(s)
  OBVIOUS
<1>4. QED
  BY <1>1, <1>2, <1>3 DEF Range

(* What an operation of each kind carries.                                 *)
LEMMA Operations ==
  ASSUME NEW o \in Operation
  PROVE  /\ o.kind \in Registers => o.name \in Names /\ o.factory \in Factories
         /\ o.kind \in AddsHook => o.hook \in Hooks
         /\ o.kind = "create_agent" => o.name \in Names
  BY DEF Operation, Registers, AddsHook

------------------------------------------------------------------------------
(* The types of the history; and where a call may be, by what it is.       *)
HistoryOK ==
  /\ ran \in [Calls -> [before : Seq(Hooks), after : Seq(Hooks)]]
  /\ due \in [Calls -> [before : SUBSET Hooks, after : SUBSET Hooks]]
  /\ era \in Nat
  /\ wonIn \in [Calls -> Nat]

Creating == {"pre", "building", "built", "post"}

Places ==
  \A c \in Calls :
    /\ pc[c] # "idle" => op[c] \in Operation
    /\ pc[c] = "inserting" => op[c].kind \in Registers
    /\ pc[c] \in Creating => op[c].kind = "create_agent"

Typed == TypeOK /\ HistoryOK /\ Places

LEMMA InitTyped == Init => Typed
<1> SUFFICES ASSUME Init PROVE Typed
  OBVIOUS
<1>1. TypeOK
  BY DEF Init, TypeOK, Pc, DonePc
<1>2. ran \in [Calls -> [before : Seq(Hooks), after : Seq(Hooks)]]
  BY DEF Init
<1>3. due \in [Calls -> [before : SUBSET Hooks, after : SUBSET Hooks]]
  BY DEF Init, NothingDue
<1>4. QED
  BY <1>1, <1>2, <1>3 DEF Init, Typed, HistoryOK, Places, Creating

LEMMA StepTyped == Typed /\ [Next]_vars => Typed'
<1> SUFFICES ASSUME Typed, [Next]_vars PROVE Typed'
  OBVIOUS
<1> USE DEF Typed, history, hookVars, callVars
<1>1. CASE UNCHANGED vars
  BY <1>1 DEF vars, TypeOK, HistoryOK, Places
<1>2. ASSUME NEW c \in Calls, NEW o \in Operation, Call(c, o)
      PROVE  Typed'
  <2>1. Range(preHooks) \in SUBSET Hooks
    BY DEF TypeOK, Range
  <2>2. due' \in [Calls -> [before : SUBSET Hooks, after : SUBSET Hooks]]
    BY <1>2, <2>1 DEF Call, HistoryOK
  <2>3. TypeOK'
    BY <1>2 DEF Call, Goto, TypeOK, Pc
  <2>4. Places'
    BY <1>2 DEF Call, Goto, TypeOK, Places, Creating
  <2>5. QED
    BY <1>2, <2>2, <2>3, <2>4 DEF Call, HistoryOK
<1>3. ASSUME NEW c \in Calls, RegisterTest(c)
      PROVE  Typed'
  <2>1. /\ \E p \in {"raised", "declined", "inserting"} : Goto(c, p)
        /\ lock' \in Calls \cup {None}
        /\ op[c].kind \in Registers
        /\ UNCHANGED <<factories, hookVars, op, todo, found, history>>
    BY <1>3 DEF RegisterTest, IsCall, TypeOK
  <2>2. TypeOK'
    BY <2>1 DEF Goto, TypeOK, Pc, DonePc
  <2>3. Places'
    BY <1>3, <2>1 DEF RegisterTest, IsCall, Goto, TypeOK, Places, Creating
  <2>4. QED
    BY <2>1, <2>2, <2>3 DEF HistoryOK
<1>4. ASSUME NEW c \in Calls, Insert(c)
      PROVE  Typed'
  <2>1. op[c].name \in Names /\ op[c].factory \in Factories
    BY <1>4, Operations DEF Insert, Places
  <2>2. TypeOK'
    BY <1>4, <2>1 DEF Insert, Goto, TypeOK, Pc, DonePc
  <2>3. Places' /\ HistoryOK'
    BY <1>4 DEF Insert, Goto, TypeOK, Places, Creating, HistoryOK
  <2>4. QED
    BY <2>2, <2>3
<1>5. ASSUME NEW c \in Calls, AddPreHook(c) \/ AddPostHook(c)
      PROVE  Typed'
  <2>1. op[c].hook \in Hooks
    BY <1>5, Operations DEF AddPreHook, AddPostHook, IsCall, Places, AddsHook
  <2>2. /\ preHooks \in Seq(Hooks) /\ Append(preHooks, op[c].hook) \in Seq(Hooks)
        /\ postHooks \in Seq(Hooks) /\ Append(postHooks, op[c].hook) \in Seq(Hooks)
    BY <2>1 DEF TypeOK
  <2>3. preHooks' \in Seq(Hooks) /\ postHooks' \in Seq(Hooks)
    BY <1>5, <2>2 DEF AddPreHook, AddPostHook
  <2>4. /\ Goto(c, "returned")
        /\ UNCHANGED <<factories, lock, op, todo, found, history>>
    BY <1>5 DEF AddPreHook, AddPostHook
  <2>5. TypeOK'
    BY <2>3, <2>4 DEF Goto, TypeOK, Pc, DonePc
  <2>6. Places'
    BY <1>5, <2>4 DEF AddPreHook, AddPostHook, IsCall, Goto, TypeOK, Places, Creating
  <2>7. QED
    BY <2>4, <2>5, <2>6 DEF HistoryOK
<1>6. ASSUME NEW c \in Calls, Clear(c)
      PROVE  Typed'
  <2>1. due' \in [Calls -> [before : SUBSET Hooks, after : SUBSET Hooks]]
    BY <1>6 DEF Clear, NothingDue
  <2>2. HistoryOK'
    BY <1>6, <2>1 DEF Clear, HistoryOK
  <2>3. /\ factories' \in [Names -> Factories \cup {None}]
        /\ preHooks' \in Seq(Hooks) /\ postHooks' \in Seq(Hooks)
    BY <1>6 DEF Clear
  <2>4. /\ Goto(c, "returned")
        /\ UNCHANGED <<lock, op, todo, found>>
    BY <1>6 DEF Clear
  <2>5. TypeOK'
    BY <2>3, <2>4 DEF Goto, TypeOK, Pc, DonePc
  <2>6. Places'
    BY <1>6, <2>4 DEF Clear, IsCall, Goto, TypeOK, Places, Creating
  <2>7. QED
    BY <2>2, <2>5, <2>6
<1>7. ASSUME NEW c \in Calls, SnapshotPre(c) \/ SnapshotPost(c)
      PROVE  Typed'
  <2>1. op[c].kind = "create_agent" /\ op[c] \in Operation
    BY <1>7 DEF SnapshotPre, SnapshotPost, IsCall, Places, Creating
  <2>2. /\ Goto(c, "pre") \/ Goto(c, "post")
        /\ todo' \in [Calls -> Seq(Hooks)]
        /\ UNCHANGED <<factories, hookVars, lock, op, found, history>>
    BY <1>7 DEF SnapshotPre, SnapshotPost, TypeOK
  <2>3. QED
    BY <2>1, <2>2 DEF Goto, TypeOK, Places, Creating, HistoryOK, Pc, DonePc
<1>8. ASSUME NEW c \in Calls, RunHook(c)
      PROVE  Typed'
  <2>1. todo[c] \in Seq(Hooks) /\ todo[c] # <<>>
    BY <1>8 DEF RunHook, TypeOK
  <2>2. Head(todo[c]) \in Hooks /\ Tail(todo[c]) \in Seq(Hooks)
    BY <2>1, RangeOfTail
  <2>3. todo' \in [Calls -> Seq(Hooks)]
    BY <1>8, <2>2 DEF RunHook, TypeOK
  <2>4. /\ ran[c] \in [before : Seq(Hooks), after : Seq(Hooks)]
        /\ Append(ran[c].before, Head(todo[c])) \in Seq(Hooks)
        /\ Append(ran[c].after, Head(todo[c])) \in Seq(Hooks)
    BY <2>2 DEF HistoryOK
  <2>5. ran' \in [Calls -> [before : Seq(Hooks), after : Seq(Hooks)]]
    BY <1>8, <2>4 DEF RunHook, HistoryOK
  <2>6. QED
    BY <1>8, <2>3, <2>5 DEF RunHook, TypeOK, Places, HistoryOK
<1>9. ASSUME NEW c \in Calls, Lookup(c)
      PROVE  Typed'
  <2>1. op[c].name \in Names /\ op[c] \in Operation /\ op[c].kind = "create_agent"
    BY <1>9, Operations DEF Lookup, Places, Creating
  <2>2. /\ found' \in [Calls -> Factories \cup {None}]
        /\ Goto(c, "raised") \/ Goto(c, "building")
        /\ UNCHANGED <<factories, hookVars, lock, op, todo, history>>
    BY <1>9, <2>1 DEF Lookup, TypeOK
  <2>3. QED
    BY <2>1, <2>2 DEF Goto, TypeOK, Places, Creating, HistoryOK, Pc, DonePc
<1>10. ASSUME NEW c \in Calls, Build(c)
       PROVE  Typed'
  <2>1. Range(postHooks) \in SUBSET Hooks
    BY DEF TypeOK, Range
  <2>2. due' \in [Calls -> [before : SUBSET Hooks, after : SUBSET Hooks]]
    BY <1>10, <2>1 DEF Build, HistoryOK
  <2>3. op[c].kind = "create_agent" /\ op[c] \in Operation
    BY <1>10 DEF Build, Places, Creating
  <2>4. /\ Goto(c, "raised") \/ Goto(c, "built")
        /\ UNCHANGED <<factories, hookVars, lock, op, todo, found, ran, era, wonIn>>
    BY <1>10 DEF Build
  <2>5. QED
    BY <2>2, <2>3, <2>4 DEF Goto, TypeOK, Places, Creating, HistoryOK, Pc, DonePc
<1>11. ASSUME NEW c \in Calls, Return(c)
       PROVE  Typed'
  BY <1>11 DEF Return, Goto, TypeOK, Places, Creating, HistoryOK, Pc, DonePc
<1>12. QED
  BY <1>1, <1>2, <1>3, <1>4, <1>5, <1>6, <1>7, <1>8, <1>9, <1>10, <1>11
     DEF Next, Step

(* Every variable of the registry has its type in every reachable state.   *)
THEOREM Typing == Spec => []TypeOK
<1>1. Typed => TypeOK
  BY DEF Typed
<1>2. QED
  BY <1>1, InitTyped, StepTyped, PTL DEF Spec

------------------------------------------------------------------------------
(* A call that is about to insert its factory holds the lock and has found *)
(* the name free; no registration succeeded in an era yet to come.         *)
Won(c) == pc[c] = "returned" /\ op[c].kind \in Registers

AboutToInsert ==
  \A c \in Calls : pc[c] = "inserting" => lock = c /\ factories[op[c].name] = None

Eras == \A c \in Calls : wonIn[c] <= era

RegisteringInv == AboutToInsert /\ Eras /\ FirstRegistrationStands

LEMMA RegisteringAlways == Spec => [](Typed /\ RegisteringInv)
<1>1. ASSUME Init PROVE RegisteringInv
  BY <1>1 DEF Init, RegisteringInv, AboutToInsert, Eras, FirstRegistrationStands
<1>2. Typed /\ RegisteringInv /\ [Next]_vars => RegisteringInv'
  <2> SUFFICES ASSUME Typed, RegisteringInv, [Next]_vars PROVE RegisteringInv'
    OBVIOUS
  <2> USE DEF history, hookVars, callVars
  <2>1. ASSUME UNCHANGED <<factories, op, era, wonIn>>,
               \A d \in Calls : Won(d)' => Won(d),
               \A d \in Calls : pc'[d] = "inserting" => pc[d] = "inserting" /\ lock' = lock
        PROVE  RegisteringInv'
    <3>1. AboutToInsert' /\ Eras'
      BY <2>1 DEF RegisteringInv, AboutToInsert, Eras
    <3>2. \A d \in Calls : pc'[d] = "returned" /\ op'[d].kind \in Registers
                           => pc[d] = "returned" /\ op[d].kind \in Registers
      BY <2>1 DEF Won
    <3>3. FirstRegistrationStands'
      BY <2>1, <3>2 DEF RegisteringInv, FirstRegistrationStands
    <3>4. QED
      BY <3>1, <3>3 DEF RegisteringInv
  <2>2. CASE UNCHANGED vars
    BY <2>1, <2>2 DEF vars, Won
  <2>3. ASSUME NEW c \in Calls, NEW o \in Operation, Call(c, o)
        PROVE  RegisteringInv'
    <3>1. /\ \A d \in Calls : d # c => op'[d] = op[d] /\ pc'[d] = pc[d]
          /\ pc'[c] = "called"
          /\ UNCHANGED <<factories, lock, era, wonIn>>
      BY <2>3 DEF Call, Goto, Typed, TypeOK
    <3>2. AboutToInsert' /\ Eras'
      BY <3>1 DEF RegisteringInv, AboutToInsert, Eras
    <3>3. FirstRegistrationStands'
      BY <3>1 DEF RegisteringInv, FirstRegistrationStands
    <3>4. QED
      BY <3>2, <3>3 DEF RegisteringInv
  <2>4. ASSUME NEW c \in Calls, RegisterTest(c)
        PROVE  RegisteringInv'
    <3>1. /\ \A d \in Calls : d # c => pc'[d] = pc[d]
          /\ pc'[c] \in {"raised", "declined", "inserting"}
          /\ pc'[c] = "inserting" => factories[op[c].name] = None /\ lock' = c
          /\ UNCHANGED <<factories, op, era, wonIn>>
          /\ lock = None
      BY <2>4 DEF RegisterTest, Goto, Typed, TypeOK
    <3>2. \A d \in Calls : pc[d] # "inserting"
      BY <3>1, NoneAssumption DEF RegisteringInv, AboutToInsert
    <3>3. AboutToInsert' /\ Eras'
      BY <3>1, <3>2 DEF RegisteringInv, AboutToInsert, Eras
    <3>4. FirstRegistrationStands'
      BY <3>1 DEF RegisteringInv, FirstRegistrationStands
    <3>5. QED
      BY <3>3, <3>4 DEF RegisteringInv
  <2>5. ASSUME NEW c \in Calls, Insert(c)
        PROVE  RegisteringInv'
    <3>1. /\ op[c].name \in Names /\ op[c].factory \in Factories
          /\ op[c].kind \in Registers
      BY <2>5, Operations DEF Insert, Typed, Places
    <3>2. /\ pc'[c] = "returned" /\ wonIn'[c] = era
          /\ \A d \in Calls : d # c => pc'[d] = pc[d] /\ wonIn'[d] = wonIn[d]
          /\ factories'[op[c].name] = op[c].factory
          /\ \A n \in Names : n # op[c].name => factories'[n] = factories[n]
          /\ UNCHANGED <<op, era>>
      BY <2>5, <3>1 DEF Insert, Goto, Typed, TypeOK, HistoryOK
    <3>3. /\ factories[op[c].name] = None
          /\ \A d \in Calls : d # c => pc[d] # "inserting"
      BY <2>5 DEF Insert, RegisteringInv, AboutToInsert
    <3>4. AboutToInsert'
      BY <3>2, <3>3 DEF AboutToInsert
    <3>5. Eras'
      <4>1. era <= era
        BY DEF Typed, HistoryOK
      <4>2. \A d \in Calls : wonIn[d] <= era
        BY DEF RegisteringInv, Eras
      <4>3. QED
        BY <3>2, <4>1, <4>2 DEF Eras
    <3>6. ASSUME NEW d \in Calls, d # c, Won(d), wonIn[d] = era
          PROVE  /\ factories[op[d].name] = op[d].factory
                 /\ op[d].name # op[c].name
                 /\ op[d].name \in Names
      <4>1. op[d].name \in Names /\ op[d].factory \in Factories
        BY <3>6, Operations DEF Won, Typed, Places
      <4>2. factories[op[d].name] = op[d].factory
        BY <3>6 DEF Won, RegisteringInv, FirstRegistrationStands
      <4>3. QED
        BY <3>3, <4>1, <4>2, NoneAssumption
    <3>7. FirstRegistrationStands'
      <4>1. ASSUME NEW a \in Calls, Won(a)', wonIn'[a] = era'
            PROVE  factories'[op'[a].name] = op'[a].factory
        BY <3>2, <3>6, <4>1 DEF Won
      <4>2. ASSUME NEW a \in Calls, NEW b \in Calls, a # b, Won(a)', Won(b)',
                   wonIn'[a] = era', wonIn'[b] = era'
            PROVE  op'[a].name # op'[b].name
        <5>1. CASE a = c \/ b = c
          BY <3>2, <3>6, <4>2, <5>1 DEF Won
        <5>2. CASE a # c /\ b # c
          BY <3>2, <4>2, <5>2 DEF Won, RegisteringInv, FirstRegistrationStands
        <5>3. QED
          BY <5>1, <5>2
      <4>3. QED
        BY <4>1, <4>2 DEF FirstRegistrationStands, Won
    <3>8. QED
      BY <3>4, <3>5, <3>7 DEF RegisteringInv
  <2>6. ASSUME NEW c \in Calls, Clear(c)
        PROVE  RegisteringInv'
    <3>1. /\ lock = None /\ era' = era + 1
          /\ \A d \in Calls : pc'[d] = "inserting" => pc[d] = "inserting"
          /\ UNCHANGED <<op, wonIn>>
      BY <2>6 DEF Clear, Goto, Typed, TypeOK
    <3>2. AboutToInsert'
      BY <3>1, NoneAssumption DEF RegisteringInv, AboutToInsert
    <3>3. \A d \in Calls : wonIn'[d] <= era' /\ wonIn'[d] # era'
      BY <3>1 DEF Typed, HistoryOK, RegisteringInv, Eras
    <3>4. QED
      BY <3>2, <3>3 DEF RegisteringInv, Eras, FirstRegistrationStands
  <2>7. ASSUME NEW c \in Calls, AddPreHook(c) \/ AddPostHook(c)
        PROVE  RegisteringInv'
    <3>1. op[c].kind \notin Registers
      BY <2>7 DEF AddPreHook, AddPostHook, IsCall, Registers
    <3>2. \A d \in Calls : pc'[d] = IF d = c THEN "returned" ELSE pc[d]
      BY <2>7 DEF AddPreHook, AddPostHook, Goto, Typed, TypeOK
    <3>3. UNCHANGED <<factories, lock, op, era, wonIn>>
      BY <2>7 DEF AddPreHook, AddPostHook
    <3>4. QED
      BY <2>1, <3>1, <3>2, <3>3 DEF Won
  <2>8. ASSUME NEW c \in Calls,
               \/ SnapshotPre(c) \/ RunHook(c) \/ Lookup(c) \/ Build(c)
               \/ SnapshotPost(c) \/ Return(c)
        PROVE  RegisteringInv'
    <3>1. op[c].kind \notin Registers
      BY <2>8 DEF SnapshotPre, RunHook, Lookup, Build, SnapshotPost, Return, IsCall,
                  Registers, Typed, Places, Creating
    <3>2. \E p \in {"pre", "post", "raised", "building", "built", "returned"} :
            \A d \in Calls : pc'[d] = IF d = c THEN p ELSE pc[d]
      BY <2>8 DEF SnapshotPre, RunHook, Lookup, Build, SnapshotPost, Return, Goto,
                  Typed, TypeOK
    <3>3. UNCHANGED <<factories, lock, op, era, wonIn>>
      BY <2>8 DEF SnapshotPre, RunHook, Lookup, Build, SnapshotPost, Return
    <3>4. QED
      BY <2>1, <3>1, <3>2, <3>3 DEF Won
  <2>9. QED
    BY <2>2, <2>3, <2>4, <2>5, <2>6, <2>7, <2>8 DEF Next, Step
<1>3. QED
  BY <1>1, <1>2, InitTyped, StepTyped, PTL DEF Spec

(* In every reachable state, of the calls that race for a name at most one *)
(* has registered it since the last clear(), and the name has its factory. *)
THEOREM FirstStands == Spec => []FirstRegistrationStands
<1>1. RegisteringInv => FirstRegistrationStands
  BY DEF RegisteringInv
<1>2. QED
  BY <1>1, RegisteringAlways, PTL

------------------------------------------------------------------------------
(* A pre-create hook that is due has run, or is in the snapshot the call   *)
(* is working off, or is registered when no snapshot was taken yet.        *)
PreHooksAreComing ==
  \A c \in Calls :
    /\ pc[c] = "called" => due[c].before \subseteq Range(preHooks)
    /\ pc[c] = "pre" => due[c].before \subseteq Range(ran[c].before) \cup Range(todo[c])

PreHooksInv == PreHooksAreComing /\ PreHooksPrecedeTheAgent

(* In every reachable state the pre-create hooks registered when a call of *)
(* create_agent() was made, and not cleared since, have run by the time    *)
(* the factory is called.                                                  *)
THEOREM PreHooksPrecede == Spec => []PreHooksPrecedeTheAgent
<1>1. ASSUME Init PROVE PreHooksInv
  BY <1>1 DEF Init, PreHooksInv, PreHooksAreComing, PreHooksPrecedeTheAgent
<1>2. Typed /\ PreHooksInv /\ [Next]_vars => PreHooksInv'
  <2> SUFFICES ASSUME Typed, PreHooksInv, [Next]_vars PROVE PreHooksInv'
    OBVIOUS
  <2> USE DEF history, hookVars, callVars, Typed, PreHooksInv
  <2>1. ASSUME \A d \in Calls : due'[d].before = due[d].before,
               \A d \in Calls : todo'[d] = todo[d] \/ pc'[d] = "post",
               \A d \in Calls : ran'[d].before = ran[d].before,
               Range(preHooks) \subseteq Range(preHooks'),
               \A d \in Calls :
                 \/ pc'[d] = pc[d]
                 \/ pc'[d] \in DonePc \cup {"inserting"}
                 \/ pc'[d] = "built" /\ pc[d] = "building"
                 \/ pc'[d] = "post" /\ pc[d] = "built"
        PROVE  PreHooksInv'
    BY <2>1 DEF PreHooksAreComing, PreHooksPrecedeTheAgent, DonePc
  <2>2. CASE UNCHANGED vars
    BY <2>1, <2>2 DEF vars
  <2>3. ASSUME NEW c \in Calls, NEW o \in Operation, Call(c, o)
        PROVE  PreHooksInv'
    <3>1. /\ pc'[c] = "called" /\ due'[c].before = Range(preHooks)
          /\ \A d \in Calls : d # c => pc'[d] = pc[d] /\ due'[d] = due[d]
          /\ UNCHANGED <<preHooks, ran, todo>>
      BY <2>3 DEF Call, Goto, TypeOK, HistoryOK
    <3>2. QED
      BY <3>1 DEF PreHooksAreComing, PreHooksPrecedeTheAgent
  <2>4. ASSUME NEW c \in Calls, RegisterTest(c) \/ Insert(c) \/ AddPostHook(c)
        PROVE  PreHooksInv'
    <3>1. /\ UNCHANGED <<due, todo, ran, preHooks>>
          /\ \A d \in Calls : pc'[d] = pc[d] \/ pc'[d] \in DonePc \cup {"inserting"}
      BY <2>4 DEF RegisterTest, Insert, AddPostHook, Goto, TypeOK, DonePc
    <3>2. QED
      BY <2>1, <3>1
  <2>5. ASSUME NEW c \in Calls, AddPreHook(c)
        PROVE  PreHooksInv'
    <3>1. op[c].hook \in Hooks
      BY <2>5, Operations DEF AddPreHook, IsCall, Places, AddsHook
    <3>2. Range(preHooks) \subseteq Range(preHooks')
      BY <2>5, <3>1, RangeOfAppend DEF AddPreHook, TypeOK
    <3>3. /\ UNCHANGED <<due, todo, ran>>
          /\ \A d \in Calls : pc'[d] = pc[d] \/ pc'[d] \in DonePc \cup {"inserting"}
      BY <2>5 DEF AddPreHook, Goto, TypeOK, DonePc
    <3>4. QED
      BY <2>1, <3>2, <3>3
  <2>6. ASSUME NEW c \in Calls, Clear(c)
        PROVE  PreHooksInv'
    <3>1. \A d \in Calls : due'[d].before = {}
      BY <2>6 DEF Clear, NothingDue
    <3>2. QED
      BY <3>1 DEF PreHooksAreComing, PreHooksPrecedeTheAgent
  <2>7. ASSUME NEW c \in Calls, SnapshotPre(c)
        PROVE  PreHooksInv'
    <3>1. /\ pc[c] = "called" /\ pc'[c] = "pre" /\ todo'[c] = preHooks
          /\ \A d \in Calls : d # c => pc'[d] = pc[d] /\ todo'[d] = todo[d]
          /\ UNCHANGED <<due, ran, preHooks>>
      BY <2>7 DEF SnapshotPre, IsCall, Goto, TypeOK
    <3>2. QED
      BY <3>1 DEF PreHooksAreComing, PreHooksPrecedeTheAgent
  <2>8. ASSUME NEW c \in Calls, RunHook(c)
        PROVE  PreHooksInv'
    <3>1. /\ todo[c] \in Seq(Hooks) /\ todo[c] # <<>>
          /\ ran[c].before \in Seq(Hooks)
      BY <2>8 DEF RunHook, TypeOK, HistoryOK
    <3>2. /\ Head(todo[c]) \in Hooks
          /\ Range(todo[c]) \subseteq {Head(todo[c])} \cup Range(Tail(todo[c]))
      BY <3>1, RangeOfTail
    <3>3. Range(Append(ran[c].before, Head(todo[c])))
            = Range(ran[c].before) \cup {Head(todo[c])}
      BY <3>1, <3>2, RangeOfAppend
    <3>4. /\ UNCHANGED <<pc, due, preHooks>>
          /\ \A d \in Calls : d # c => ran'[d] = ran[d] /\ todo'[d] = todo[d]
          /\ todo'[c] = Tail(todo[c])
          /\ pc[c] \in {"pre", "post"}
          /\ pc[c] = "pre" => ran'[c].before = Append(ran[c].before, Head(todo[c]))
          /\ pc[c] = "post" => ran'[c].before = ran[c].before
      BY <2>8 DEF RunHook, TypeOK, HistoryOK
    <3>5. PreHooksAreComing'
      BY <3>2, <3>3, <3>4 DEF PreHooksAreComing
    <3>6. PreHooksPrecedeTheAgent'
      BY <3>4 DEF PreHooksPrecedeTheAgent
    <3>7. QED
      BY <3>5, <3>6
  <2>9. ASSUME NEW c \in Calls, Lookup(c)
        PROVE  PreHooksInv'
    <3>1. /\ pc[c] = "pre" /\ pc'[c] \in {"raised", "building"} /\ todo[c] = <<>>
          /\ \A d \in Calls : d # c => pc'[d] = pc[d]
          /\ UNCHANGED <<due, ran, preHooks, todo>>
      BY <2>9 DEF Lookup, Goto, TypeOK
    <3>2. Range(<<>>) = {}
      BY DEF Range
    <3>3. due[c].before \subseteq Range(ran[c].before)
      BY <3>1, <3>2 DEF PreHooksAreComing
    <3>4. QED
      BY <3>1, <3>3 DEF PreHooksAreComing, PreHooksPrecedeTheAgent
  <2>10. ASSUME NEW c \in Calls, Build(c)
         PROVE  PreHooksInv'
    <3>1. /\ pc[c] = "building" /\ pc'[c] \in {"raised", "built"}
          /\ \A d \in Calls : d # c => pc'[d] = pc[d]
          /\ UNCHANGED <<ran, preHooks, todo>>
      BY <2>10 DEF Build, Goto, TypeOK
    <3>2. \/ due' = due
          \/ due' = [due EXCEPT ![c].after = Range(postHooks)]
      BY <2>10 DEF Build
    <3>3. \A d \in Calls : due'[d].before = due[d].before
      BY <3>2 DEF HistoryOK
    <3>4. QED
      BY <2>1, <3>1, <3>3 DEF DonePc
  <2>11. ASSUME NEW c \in Calls, SnapshotPost(c) \/ Return(c)
         PROVE  PreHooksInv'
    <3>1. /\ UNCHANGED <<due, ran, preHooks>>
          /\ \A d \in Calls : d # c => pc'[d] = pc[d] /\ todo'[d] = todo[d]
          /\ \/ pc[c] = "built" /\ pc'[c] = "post"
             \/ pc'[c] = "returned" /\ todo'[c] = todo[c]
      BY <2>11 DEF SnapshotPost, Return, Goto, TypeOK
    <3>2. QED
      BY <2>1, <3>1 DEF DonePc
  <2>12. QED
    BY <2>2, <2>3, <2>4, <2>5, <2>6, <2>7, <2>8, <2>9, <2>10, <2>11 DEF Next, Step
<1>3. PreHooksInv => PreHooksPrecedeTheAgent
  BY DEF PreHooksInv
<1>4. QED
  BY <1>1, <1>2, <1>3, InitTyped, StepTyped, PTL DEF Spec

------------------------------------------------------------------------------
(* The same for the post-create hooks, which are due from the time the     *)
(* agent was built.                                                        *)
PostHooksAreComing ==
  \A c \in Calls :
    /\ pc[c] = "built" => due[c].after \subseteq Range(postHooks)
    /\ pc[c] = "post" => due[c].after \subseteq Range(ran[c].after) \cup Range(todo[c])

PostHooksInv == PostHooksAreComing /\ PostHooksSeeTheAgent

(* In every reachable state a create_agent() that returned has shown the   *)
(* agent to the post-create hooks registered when it was built, and not    *)
(* cleared since.                                                          *)
THEOREM PostHooksSee == Spec => []PostHooksSeeTheAgent
<1>1. ASSUME Init PROVE PostHooksInv
  BY <1>1 DEF Init, PostHooksInv, PostHooksAreComing, PostHooksSeeTheAgent
<1>2. Typed /\ PostHooksInv /\ [Next]_vars => PostHooksInv'
  <2> SUFFICES ASSUME Typed, PostHooksInv, [Next]_vars PROVE PostHooksInv'
    OBVIOUS
  <2> USE DEF history, hookVars, callVars, Typed, PostHooksInv
  <2>1. ASSUME UNCHANGED due,
               \A d \in Calls : todo'[d] = todo[d] \/ pc'[d] = "pre",
               \A d \in Calls : ran'[d].after = ran[d].after,
               Range(postHooks) \subseteq Range(postHooks'),
               \A d \in Calls : pc[d] = "returned" => op'[d] = op[d],
               \A d \in Calls :
                 \/ pc'[d] = pc[d]
                 \/ pc'[d] \in {"called", "inserting", "pre", "building", "raised",
                               "declined"}
                 \/ pc'[d] = "returned" /\ op'[d].kind # "create_agent"
        PROVE  PostHooksInv'
    BY <2>1 DEF PostHooksAreComing, PostHooksSeeTheAgent
  <2>2. CASE UNCHANGED vars
    BY <2>1, <2>2 DEF vars
  <2>3. ASSUME NEW c \in Calls, NEW o \in Operation, Call(c, o)
        PROVE  PostHooksInv'
    <3>1. /\ pc'[c] = "called"
          /\ \A d \in Calls : d # c => pc'[d] = pc[d] /\ op'[d] = op[d]
          /\ \A d \in Calls : due'[d].after = due[d].after
          /\ UNCHANGED <<postHooks, ran, todo>>
      BY <2>3 DEF Call, Goto, TypeOK, HistoryOK
    <3>2. QED
      BY <3>1 DEF PostHooksAreComing, PostHooksSeeTheAgent
  <2>4. ASSUME NEW c \in Calls, RegisterTest(c) \/ Insert(c) \/ AddPreHook(c)
        PROVE  PostHooksInv'
    <3>1. op[c].kind # "create_agent"
      BY <2>4 DEF RegisterTest, Insert, AddPreHook, IsCall, Places, Registers, AddsHook
    <3>2. /\ UNCHANGED <<due, todo, ran, postHooks, op>>
          /\ pc'[c] \in {"raised", "declined", "inserting", "returned"}
          /\ \A d \in Calls : d # c => pc'[d] = pc[d]
      BY <2>4 DEF RegisterTest, Insert, AddPreHook, Goto, TypeOK
    <3>3. QED
      BY <2>1, <3>1, <3>2
  <2>5. ASSUME NEW c \in Calls, AddPostHook(c)
        PROVE  PostHooksInv'
    <3>1. op[c].hook \in Hooks /\ op[c].kind # "create_agent"
      BY <2>5, Operations DEF AddPostHook, IsCall, Places, AddsHook
    <3>2. Range(postHooks) \subseteq Range(postHooks')
      BY <2>5, <3>1, RangeOfAppend DEF AddPostHook, TypeOK
    <3>3. /\ UNCHANGED <<due, todo, ran, op>>
          /\ pc'[c] = "returned"
          /\ \A d \in Calls : d # c => pc'[d] = pc[d]
      BY <2>5 DEF AddPostHook, Goto, TypeOK
    <3>4. QED
      BY <2>1, <3>1, <3>2, <3>3
  <2>6. ASSUME NEW c \in Calls, Clear(c)
        PROVE  PostHooksInv'
    <3>1. \A d \in Calls : due'[d].after = {}
      BY <2>6 DEF Clear, NothingDue
    <3>2. QED
      BY <3>1 DEF PostHooksAreComing, PostHooksSeeTheAgent
  <2>7. ASSUME NEW c \in Calls, SnapshotPre(c) \/ Lookup(c)
        PROVE  PostHooksInv'
    <3>1. /\ UNCHANGED <<due, ran, postHooks, op>>
          /\ \A d \in Calls : d # c => pc'[d] = pc[d] /\ todo'[d] = todo[d]
          /\ \/ pc'[c] = "pre"
             \/ pc'[c] \in {"raised", "building"} /\ todo'[c] = todo[c]
      BY <2>7 DEF SnapshotPre, Lookup, Goto, TypeOK
    <3>2. QED
      BY <2>1, <3>1
  <2>8. ASSUME NEW c \in Calls, RunHook(c)
        PROVE  PostHooksInv'
    <3>1. /\ todo[c] \in Seq(Hooks) /\ todo[c] # <<>>
          /\ ran[c].after \in Seq(Hooks)
      BY <2>8 DEF RunHook, TypeOK, HistoryOK
    <3>2. /\ Head(todo[c]) \in Hooks
          /\ Range(todo[c]) \subseteq {Head(todo[c])} \cup Range(Tail(todo[c]))
      BY <3>1, RangeOfTail
    <3>3. Range(Append(ran[c].after, Head(todo[c])))
            = Range(ran[c].after) \cup {Head(todo[c])}
      BY <3>1, <3>2, RangeOfAppend
    <3>4. /\ UNCHANGED <<pc, op, due, postHooks>>
          /\ \A d \in Calls : d # c => ran'[d] = ran[d] /\ todo'[d] = todo[d]
          /\ todo'[c] = Tail(todo[c])
          /\ pc[c] \in {"pre", "post"}
          /\ pc[c] = "post" => ran'[c].after = Append(ran[c].after, Head(todo[c]))
      BY <2>8 DEF RunHook, TypeOK, HistoryOK
    <3>5. PostHooksAreComing'
      BY <3>2, <3>3, <3>4 DEF PostHooksAreComing
    <3>6. PostHooksSeeTheAgent'
      BY <3>4 DEF PostHooksSeeTheAgent
    <3>7. QED
      BY <3>5, <3>6
  <2>9. ASSUME NEW c \in Calls, Build(c)
        PROVE  PostHooksInv'
    <3>1. /\ pc'[c] \in {"raised", "built"}
          /\ \A d \in Calls : d # c => pc'[d] = pc[d]
          /\ UNCHANGED <<ran, postHooks, todo, op>>
      BY <2>9 DEF Build, Goto, TypeOK
    <3>2. \/ due' = due /\ pc'[c] = "raised"
          \/ due' = [due EXCEPT ![c].after = Range(postHooks)]
      BY <2>9 DEF Build, Goto, TypeOK
    <3>3. /\ \A d \in Calls : d # c => due'[d] = due[d]
          /\ pc'[c] = "built" => due'[c].after = Range(postHooks)
      BY <3>1, <3>2 DEF HistoryOK
    <3>4. QED
      BY <3>1, <3>3 DEF PostHooksAreComing, PostHooksSeeTheAgent
  <2>10. ASSUME NEW c \in Calls, SnapshotPost(c)
         PROVE  PostHooksInv'
    <3>1. /\ pc[c] = "built" /\ pc'[c] = "post" /\ todo'[c] = postHooks
          /\ \A d \in Calls : d # c => pc'[d] = pc[d] /\ todo'[d] = todo[d]
          /\ UNCHANGED <<due, ran, postHooks, op>>
      BY <2>10 DEF SnapshotPost, Goto, TypeOK
    <3>2. QED
      BY <3>1 DEF PostHooksAreComing, PostHooksSeeTheAgent
  <2>11. ASSUME NEW c \in Calls, Return(c)
         PROVE  PostHooksInv'
    <3>1. /\ pc[c] = "post" /\ pc'[c] = "returned" /\ todo[c] = <<>>
          /\ \A d \in Calls : d # c => pc'[d] = pc[d]
          /\ UNCHANGED <<due, ran, postHooks, todo, op>>
      BY <2>11 DEF Return, Goto, TypeOK
    <3>2. Range(<<>>) = {}
      BY DEF Range
    <3>3. due[c].after \subseteq Range(ran[c].after)
      BY <3>1, <3>2 DEF PostHooksAreComing
    <3>4. QED
      BY <3>1, <3>3 DEF PostHooksAreComing, PostHooksSeeTheAgent
  <2>12. QED
    BY <2>2, <2>3, <2>4, <2>5, <2>6, <2>7, <2>8, <2>9, <2>10, <2>11 DEF Next, Step
<1>3. PostHooksInv => PostHooksSeeTheAgent
  BY DEF PostHooksInv
<1>4. QED
  BY <1>1, <1>2, <1>3, InitTyped, StepTyped, PTL DEF Spec

------------------------------------------------------------------------------
(* The store.  A call that builds an agent has found its factory, and one  *)
(* that has not looked yet has none.                                       *)
LooksOnce ==
  \A c \in Calls :
    /\ pc[c] \in {"building", "built", "post"} => found[c] # None
    /\ pc[c] \in {"idle", "called", "inserting", "pre"} => found[c] = None

(* A step of one call changes no verdict but its own.                      *)
Verdicts == [c \in Calls |-> Verdict(c)]

LEMMA VerdictMoves ==
  ASSUME NEW c \in Calls,
         \A d \in Calls : d # c => /\ pc'[d] = pc[d] /\ op'[d] = op[d]
                                   /\ found'[d] = found[d]
  PROVE  Verdicts' = [Verdicts EXCEPT ![c] = Verdict(c)']
<1>1. \A d \in Calls : d # c => Verdict(d)' = Verdict(d)
  BY DEF Verdict
<1>2. QED
  BY <1>1 DEF Verdicts

LEMMA LooksOnceStep == Typed /\ LooksOnce /\ [Next]_vars => LooksOnce'
<1> SUFFICES ASSUME Typed, LooksOnce, [Next]_vars PROVE LooksOnce'
  OBVIOUS
<1> USE DEF Typed, TypeOK, history, hookVars, callVars, Goto
<1>1. CASE UNCHANGED vars
  BY <1>1 DEF vars, LooksOnce
<1>2. ASSUME NEW c \in Calls, NEW o \in Operation, Call(c, o)
      PROVE  LooksOnce'
  BY <1>2 DEF Call, LooksOnce
<1>3. ASSUME NEW c \in Calls, RegisterTest(c) \/ Insert(c)
      PROVE  LooksOnce'
  BY <1>3 DEF RegisterTest, Insert, IsCall, LooksOnce
<1>4. ASSUME NEW c \in Calls, AddPreHook(c) \/ AddPostHook(c) \/ Clear(c)
      PROVE  LooksOnce'
  BY <1>4 DEF AddPreHook, AddPostHook, Clear, IsCall, LooksOnce
<1>5. ASSUME NEW c \in Calls, SnapshotPre(c) \/ SnapshotPost(c)
      PROVE  LooksOnce'
  BY <1>5 DEF SnapshotPre, SnapshotPost, IsCall, LooksOnce
<1>6. ASSUME NEW c \in Calls, RunHook(c) \/ Return(c) \/ Build(c)
      PROVE  LooksOnce'
  BY <1>6 DEF RunHook, Return, Build, LooksOnce
<1>7. ASSUME NEW c \in Calls, Lookup(c)
      PROVE  LooksOnce'
  BY <1>7 DEF Lookup, LooksOnce
<1>8. QED
  BY <1>1, <1>2, <1>3, <1>4, <1>5, <1>6, <1>7 DEF Next, Step

(* For any number of threads the registry is an atomic store of factories: *)
(* register() takes effect when it inserts, or when it finds the name      *)
(* taken, create_agent() when it looks the factory up, clear() at once.    *)
THEOREM StoreIsAtomic == Spec => ImplementsStore
<1> USE DEF history, hookVars, callVars, Goto
<1>1. Init => Store!Init /\ LooksOnce
  BY DEF Init, Store!Init, Verdict, LooksOnce
<1>2. Typed /\ RegisteringInv /\ LooksOnce /\ [Next]_vars => [Store!Next]_(Store!vars)
  <2> SUFFICES ASSUME Typed, RegisteringInv, LooksOnce, [Next]_vars
               PROVE  Store!Next \/ UNCHANGED Store!vars
    OBVIOUS
  <2> DEFINE Stays(c) == /\ \A d \in Calls : d # c => pc'[d] = pc[d]
                         /\ UNCHANGED <<factories, op, found>>
                         /\ Verdict(c)' = Verdict(c)
  <2>1. ASSUME NEW c \in Calls, Stays(c)
        PROVE  UNCHANGED Store!vars
    <3>1. Verdicts' = [Verdicts EXCEPT ![c] = Verdict(c)]
      BY <2>1, VerdictMoves
    <3>2. Verdicts' = Verdicts
      BY <3>1 DEF Verdicts
    <3>3. QED
      BY <2>1, <3>2 DEF Store!vars, Verdicts
  <2>2. CASE UNCHANGED vars
    BY <2>2 DEF vars, Store!vars, Verdict
  <2>3. ASSUME NEW c \in Calls, NEW o \in Operation, Call(c, o)
        PROVE  Store!Next
    <3>1. /\ pc[c] = "idle" /\ pc'[c] = "called" /\ op' = [op EXCEPT ![c] = o]
          /\ \A d \in Calls : d # c => pc'[d] = pc[d] /\ op'[d] = op[d]
          /\ UNCHANGED <<factories, found>>
      BY <2>3 DEF Call, Typed, TypeOK
    <3>2. found[c] = None
      BY <3>1 DEF LooksOnce
    <3>3. Verdict(c) = "idle" /\ Verdict(c)' = "open"
      BY <3>1, <3>2 DEF Verdict
    <3>4. Verdicts' = [Verdicts EXCEPT ![c] = "open"]
      BY <3>1, <3>3, VerdictMoves
    <3>5. Store!Ask(c, o)
      BY <3>1, <3>3, <3>4 DEF Store!Ask, Verdicts
    <3>6. QED
      BY <3>5 DEF Store!Next
  <2>4. ASSUME NEW c \in Calls, RegisterTest(c)
        PROVE  Store!Next \/ UNCHANGED Store!vars
    <3>1. /\ pc[c] = "called" /\ op[c].kind \in Registers /\ found[c] = None
          /\ \A d \in Calls : d # c => pc'[d] = pc[d]
          /\ UNCHANGED <<factories, op, found>>
          /\ \/ pc'[c] \in {"raised", "declined"} /\ factories[op[c].name] # None
             \/ pc'[c] = "inserting"
      BY <2>4 DEF RegisterTest, IsCall, Typed, TypeOK, LooksOnce
    <3>2. Verdict(c) = "open"
      BY <3>1 DEF Verdict
    <3>3. CASE pc'[c] = "inserting"
      <4>1. Verdict(c)' = "open"
        BY <3>1, <3>3 DEF Verdict
      <4>2. QED
        BY <2>1, <3>1, <3>2, <4>1
    <3>4. CASE pc'[c] # "inserting"
      <4>1. Verdict(c)' = "refused"
        BY <3>1, <3>4 DEF Verdict
      <4>2. Verdicts' = [Verdicts EXCEPT ![c] = "refused"]
        BY <3>1, <4>1, VerdictMoves
      <4>3. Store!Refuse(c)
        BY <3>1, <3>2, <3>4, <4>2 DEF Store!Refuse, Store!Answer, Verdicts, Registers
      <4>4. QED
        BY <4>3 DEF Store!Next
    <3>5. QED
      BY <3>3, <3>4
  <2>5. ASSUME NEW c \in Calls, Insert(c)
        PROVE  Store!Next
    <3>1. /\ pc[c] = "inserting" /\ pc'[c] = "returned" /\ found[c] = None
          /\ op[c].kind \in Registers /\ factories[op[c].name] = None
          /\ \A d \in Calls : d # c => pc'[d] = pc[d]
          /\ factories' = [factories EXCEPT ![op[c].name] = op[c].factory]
          /\ UNCHANGED <<op, found>>
      BY <2>5 DEF Insert, Typed, TypeOK, Places, LooksOnce, RegisteringInv, AboutToInsert
    <3>2. Verdict(c) = "open" /\ Verdict(c)' = "accepted"
      BY <3>1 DEF Verdict, Registers, AddsHook
    <3>3. Verdicts' = [Verdicts EXCEPT ![c] = "accepted"]
      BY <3>1, <3>2, VerdictMoves
    <3>4. Store!Write(c)
      BY <3>1, <3>2, <3>3 DEF Store!Write, Store!Answer, Verdicts, Registers
    <3>5. QED
      BY <3>4 DEF Store!Next
  <2>6. ASSUME NEW c \in Calls, Clear(c)
        PROVE  Store!Next
    <3>1. /\ pc[c] = "called" /\ pc'[c] = "returned" /\ found[c] = None
          /\ op[c].kind = "clear" /\ factories' = [n \in Names |-> None]
          /\ \A d \in Calls : d # c => pc'[d] = pc[d]
          /\ UNCHANGED <<op, found>>
      BY <2>6 DEF Clear, IsCall, Typed, TypeOK, LooksOnce
    <3>2. Verdict(c) = "open" /\ Verdict(c)' = "accepted"
      BY <3>1 DEF Verdict, AddsHook
    <3>3. Verdicts' = [Verdicts EXCEPT ![c] = "accepted"]
      BY <3>1, <3>2, VerdictMoves
    <3>4. Store!Empty(c)
      BY <3>1, <3>2, <3>3 DEF Store!Empty, Store!Answer, Verdicts
    <3>5. QED
      BY <3>4 DEF Store!Next
  <2>7. ASSUME NEW c \in Calls, Lookup(c)
        PROVE  Store!Next
    <3>1. /\ pc[c] = "pre" /\ found[c] = None /\ op[c].kind = "create_agent"
          /\ found' = [found EXCEPT ![c] = factories[op[c].name]]
          /\ found'[c] = factories[op[c].name]
          /\ \A d \in Calls : d # c => pc'[d] = pc[d] /\ found'[d] = found[d]
          /\ pc'[c] = IF factories[op[c].name] = None THEN "raised" ELSE "building"
          /\ UNCHANGED <<factories, op>>
      BY <2>7 DEF Lookup, Typed, TypeOK, Places, Creating, LooksOnce
    <3>2. Verdict(c) = "open"
      BY <3>1 DEF Verdict
    <3>3. CASE factories[op[c].name] = None
      <4>1. Verdict(c)' = "refused" /\ found' = found
        BY <3>1, <3>3 DEF Verdict, Typed, TypeOK
      <4>2. Verdicts' = [Verdicts EXCEPT ![c] = "refused"]
        BY <3>1, <4>1, VerdictMoves
      <4>3. Store!Refuse(c)
        BY <3>1, <3>2, <3>3, <4>1, <4>2 DEF Store!Refuse, Store!Answer, Verdicts
      <4>4. QED
        BY <4>3 DEF Store!Next
    <3>4. CASE factories[op[c].name] # None
      <4>1. Verdict(c)' = "accepted"
        BY <3>1, <3>4 DEF Verdict
      <4>2. Verdicts' = [Verdicts EXCEPT ![c] = "accepted"]
        BY <3>1, <4>1, VerdictMoves
      <4>3. Store!Read(c)
        BY <3>1, <3>2, <3>4, <4>2 DEF Store!Read, Store!Answer, Verdicts
      <4>4. QED
        BY <4>3 DEF Store!Next
    <3>5. QED
      BY <3>3, <3>4
  <2>8. ASSUME NEW c \in Calls, AddPreHook(c) \/ AddPostHook(c)
        PROVE  UNCHANGED Store!vars
    <3>1. /\ pc[c] = "called" /\ pc'[c] = "returned" /\ found[c] = None
          /\ op[c].kind \in AddsHook
          /\ \A d \in Calls : d # c => pc'[d] = pc[d]
          /\ UNCHANGED <<factories, op, found>>
      BY <2>8 DEF AddPreHook, AddPostHook, IsCall, AddsHook, Typed, TypeOK, LooksOnce
    <3>2. Verdict(c) = "open" /\ Verdict(c)' = "open"
      BY <3>1 DEF Verdict
    <3>3. QED
      BY <2>1, <3>1, <3>2
  <2>9. ASSUME NEW c \in Calls, SnapshotPre(c) \/ RunHook(c)
        PROVE  UNCHANGED Store!vars
    <3>1. /\ \/ pc[c] \in {"called", "pre"} /\ pc'[c] = "pre"
             \/ pc[c] = "post" /\ pc'[c] = "post"
          /\ \A d \in Calls : d # c => pc'[d] = pc[d]
          /\ UNCHANGED <<factories, op, found>>
      BY <2>9 DEF SnapshotPre, RunHook, IsCall, Typed, TypeOK
    <3>2. Verdict(c)' = Verdict(c)
      BY <3>1 DEF Verdict, LooksOnce
    <3>3. QED
      BY <2>1, <3>1, <3>2
  <2>10. ASSUME NEW c \in Calls, Build(c) \/ SnapshotPost(c) \/ Return(c)
         PROVE  UNCHANGED Store!vars
    <3>1. /\ pc[c] \in {"building", "built", "post"}
          /\ pc'[c] \in {"built", "raised", "post", "returned"}
          /\ \A d \in Calls : d # c => pc'[d] = pc[d]
          /\ UNCHANGED <<factories, op, found>>
      BY <2>10 DEF Build, SnapshotPost, Return, Typed, TypeOK
    <3>2. found[c] # None /\ op[c].kind = "create_agent"
      BY <3>1 DEF LooksOnce, Typed, Places, Creating
    <3>3. Verdict(c) = "accepted" /\ Verdict(c)' = "accepted"
      BY <3>1, <3>2 DEF Verdict, AddsHook
    <3>4. QED
      BY <2>1, <3>1, <3>3
  <2>11. QED
    BY <2>2, <2>3, <2>4, <2>5, <2>6, <2>7, <2>8, <2>9, <2>10 DEF Next, Step
<1>3. QED
  BY <1>1, <1>2, LooksOnceStep, RegisteringAlways, PTL
     DEF Spec, ImplementsStore, Store!Spec

------------------------------------------------------------------------------
(* No deadlock.  A call under way can go on: it needs no lock, or the lock *)
(* is free, or the hook it is to run has nothing to wait for.              *)
UnderWay(c) == pc[c] \notin {"idle"} \cup DonePc

CanGoOn(c) ==
  \/ pc[c] \in {"called", "built"} /\ lock = None
  \/ pc[c] \in {"inserting", "building"}
  \/ pc[c] \in {"pre", "post"} /\ todo[c] # <<>> /\ HookReturns(Head(todo[c]))
  \/ pc[c] = "pre" /\ todo[c] = <<>> /\ lock = None
  \/ pc[c] = "post" /\ todo[c] = <<>>

(* Whatever hooks wait for what the other threads do with the registry,    *)
(* some call under way can go on.                                          *)
NoDeadlock ==
  (\E c \in Calls : UnderWay(c)) => \E c \in Calls : UnderWay(c) /\ CanGoOn(c)

(* Every step is one CanGoOn allows, and brings its call nearer to its end;*)
(* it leaves the place of all the others alone.                            *)
Ahead(place) == CASE place = "idle" -> 8
                  [] place = "called" -> 7
                  [] place = "inserting" -> 6
                  [] place = "pre" -> 5
                  [] place = "building" -> 4
                  [] place = "built" -> 3
                  [] place = "post" -> 2
                  [] place \in DonePc -> 1

GoesOn(c) ==
  /\ CanGoOn(c)
  /\ \/ Ahead(pc'[c]) < Ahead(pc[c])
     \/ pc'[c] = pc[c] /\ Len(todo'[c]) < Len(todo[c])
  /\ \A d \in Calls : d # c => pc'[d] = pc[d] /\ todo'[d] = todo[d]

CallsGoOn == \A c \in Calls : Step(c) => GoesOn(c)

(* Nobody keeps the lock while hooks run: its holder is about to insert.   *)
HolderInserts == lock # None => pc[lock] = "inserting"

LEMMA HolderInsertsStep ==
  Typed /\ RegisteringInv /\ HolderInserts /\ [Next]_vars => HolderInserts'
<1> SUFFICES ASSUME Typed, RegisteringInv, HolderInserts, [Next]_vars
             PROVE  HolderInserts'
  OBVIOUS
<1> USE DEF Typed, TypeOK, history, hookVars, callVars, Goto
<1>1. ASSUME UNCHANGED lock, NEW c \in Calls, pc[c] # "inserting",
             \A d \in Calls : d # c => pc'[d] = pc[d]
      PROVE  HolderInserts'
  BY <1>1 DEF HolderInserts
<1>2. CASE UNCHANGED vars
  BY <1>2 DEF vars, HolderInserts
<1>3. ASSUME NEW c \in Calls, NEW o \in Operation, Call(c, o)
      PROVE  HolderInserts'
  BY <1>1, <1>3 DEF Call
<1>4. ASSUME NEW c \in Calls, RegisterTest(c) \/ Insert(c)
      PROVE  HolderInserts'
  BY <1>4, NoneAssumption DEF RegisterTest, Insert, IsCall, HolderInserts
<1>5. ASSUME NEW c \in Calls, AddPreHook(c) \/ AddPostHook(c) \/ Clear(c)
      PROVE  HolderInserts'
  BY <1>1, <1>5 DEF AddPreHook, AddPostHook, Clear, IsCall
<1>6. ASSUME NEW c \in Calls, SnapshotPre(c) \/ RunHook(c) \/ Lookup(c)
      PROVE  HolderInserts'
  BY <1>1, <1>6 DEF SnapshotPre, RunHook, Lookup, IsCall
<1>7. ASSUME NEW c \in Calls, Build(c) \/ SnapshotPost(c) \/ Return(c)
      PROVE  HolderInserts'
  BY <1>1, <1>7 DEF Build, SnapshotPost, Return
<1>8. QED
  BY <1>2, <1>3, <1>4, <1>5, <1>6, <1>7 DEF Next, Step

(* For any number of threads, and hooks that wait for whatever calls: the  *)
(* registry never deadlocks, and no call makes infinitely many steps.      *)
THEOREM RegistryGoesOn == Spec => []NoDeadlock /\ [][CallsGoOn]_vars
<1>1. Init => HolderInserts
  BY DEF Init, HolderInserts
<1>2. Typed /\ HolderInserts => NoDeadlock
  <2> SUFFICES ASSUME Typed, HolderInserts, NEW c \in Calls, UnderWay(c)
               PROVE  \E d \in Calls : UnderWay(d) /\ CanGoOn(d)
    BY DEF NoDeadlock
  <2>1. CASE lock # None
    <3>1. lock \in Calls /\ UnderWay(lock) /\ CanGoOn(lock)
      BY <2>1 DEF HolderInserts, UnderWay, CanGoOn, Typed, TypeOK, DonePc
    <3>2. QED
      BY <3>1
  <2>2. CASE lock = None
    <3>1. CASE pc[c] \in {"pre", "post"} /\ todo[c] # <<>>
                 /\ ~ HookReturns(Head(todo[c]))
      <4>1. Head(todo[c]) \in Hooks
        BY <3>1, RangeOfTail DEF Typed, TypeOK
      <4>2. PICK d \in WaitsFor[Head(todo[c])] :
              UnderWay(d) /\ op[d].kind # "create_agent"
        BY <3>1 DEF HookReturns, UnderWay
      <4>3. d \in Calls
        BY <4>1, <4>2, WaitsForAssumption
      <4>4. pc[d] \in {"called", "inserting"}
        BY <4>2, <4>3 DEF UnderWay, Typed, TypeOK, Places, Creating, Pc
      <4>5. QED
        BY <2>2, <4>2, <4>3, <4>4 DEF CanGoOn
    <3>2. CASE ~ (pc[c] \in {"pre", "post"} /\ todo[c] # <<>>
                    /\ ~ HookReturns(Head(todo[c])))
      BY <2>2, <3>2 DEF CanGoOn, UnderWay, Typed, TypeOK, Pc
    <3>3. QED
      BY <3>1, <3>2
  <2>3. QED
    BY <2>1, <2>2
<1>3. Typed /\ [Next]_vars => [CallsGoOn]_vars
  <2> SUFFICES ASSUME Typed, NEW c \in Calls, Step(c)
               PROVE  GoesOn(c)
    BY DEF CallsGoOn
  <2> DEFINE Others == \A d \in Calls : d # c => pc'[d] = pc[d] /\ todo'[d] = todo[d]
  <2>1. /\ Ahead("called") = 7 /\ Ahead("inserting") = 6 /\ Ahead("pre") = 5
        /\ Ahead("building") = 4 /\ Ahead("built") = 3 /\ Ahead("post") = 2
        /\ \A place \in DonePc : Ahead(place) = 1
    BY DEF Ahead, DonePc
  <2> USE DEF Typed, TypeOK, Goto
  <2>2. CASE RegisterTest(c)
    <3>1. /\ pc[c] = "called" /\ pc'[c] \in {"inserting", "raised", "declined"}
          /\ CanGoOn(c) /\ Others
      BY <2>2 DEF RegisterTest, IsCall, CanGoOn
    <3>2. Ahead(pc'[c]) < Ahead(pc[c])
      BY <2>1, <3>1 DEF DonePc
    <3>3. QED
      BY <3>1, <3>2 DEF GoesOn
  <2>3. CASE Insert(c)
    <3>1. pc[c] = "inserting" /\ pc'[c] = "returned" /\ CanGoOn(c) /\ Others
      BY <2>3 DEF Insert, CanGoOn
    <3>2. Ahead(pc'[c]) < Ahead(pc[c])
      BY <2>1, <3>1 DEF DonePc
    <3>3. QED
      BY <3>1, <3>2 DEF GoesOn
  <2>4. CASE AddPreHook(c) \/ AddPostHook(c) \/ Clear(c)
    <3>1. pc[c] = "called" /\ pc'[c] = "returned" /\ CanGoOn(c) /\ Others
      BY <2>4 DEF AddPreHook, AddPostHook, Clear, IsCall, CanGoOn
    <3>2. Ahead(pc'[c]) < Ahead(pc[c])
      BY <2>1, <3>1 DEF DonePc
    <3>3. QED
      BY <3>1, <3>2 DEF GoesOn
  <2>5. CASE SnapshotPre(c) \/ SnapshotPost(c)
    <3>1. /\ \/ pc[c] = "called" /\ pc'[c] = "pre"
             \/ pc[c] = "built" /\ pc'[c] = "post"
          /\ CanGoOn(c) /\ Others
      BY <2>5 DEF SnapshotPre, SnapshotPost, IsCall, CanGoOn
    <3>2. Ahead(pc'[c]) < Ahead(pc[c])
      BY <2>1, <3>1
    <3>3. QED
      BY <3>1, <3>2 DEF GoesOn
  <2>6. CASE RunHook(c)
    <3>1. pc'[c] = pc[c] /\ todo'[c] = Tail(todo[c]) /\ CanGoOn(c) /\ Others
      BY <2>6 DEF RunHook, CanGoOn
    <3>2. todo[c] \in Seq(Hooks) /\ todo[c] # <<>>
      BY <2>6 DEF RunHook
    <3>3. Len(todo'[c]) < Len(todo[c])
      BY <3>1, <3>2
    <3>4. QED
      BY <3>1, <3>3 DEF GoesOn
  <2>7. CASE Lookup(c)
    <3>1. /\ pc[c] = "pre" /\ pc'[c] \in {"raised", "building"}
          /\ CanGoOn(c) /\ Others
      BY <2>7 DEF Lookup, CanGoOn
    <3>2. Ahead(pc'[c]) < Ahead(pc[c])
      BY <2>1, <3>1 DEF DonePc
    <3>3. QED
      BY <3>1, <3>2 DEF GoesOn
  <2>8. CASE Build(c)
    <3>1. /\ pc[c] = "building" /\ pc'[c] \in {"raised", "built"}
          /\ CanGoOn(c) /\ Others
      BY <2>8 DEF Build, CanGoOn
    <3>2. Ahead(pc'[c]) < Ahead(pc[c])
      BY <2>1, <3>1 DEF DonePc
    <3>3. QED
      BY <3>1, <3>2 DEF GoesOn
  <2>9. CASE Return(c)
    <3>1. pc[c] = "post" /\ pc'[c] = "returned" /\ CanGoOn(c) /\ Others
      BY <2>9 DEF Return, CanGoOn
    <3>2. Ahead(pc'[c]) < Ahead(pc[c])
      BY <2>1, <3>1 DEF DonePc
    <3>3. QED
      BY <3>1, <3>2 DEF GoesOn
  <2>10. QED
    BY <2>2, <2>3, <2>4, <2>5, <2>6, <2>7, <2>8, <2>9 DEF Step
<1>4. QED
  BY <1>1, <1>2, <1>3, HolderInsertsStep, InitTyped, StepTyped, RegisteringAlways, PTL
     DEF Spec
==============================================================================
