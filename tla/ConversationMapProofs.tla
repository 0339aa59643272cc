------------------------ MODULE ConversationMapProofs ------------------------
(***************************************************************************)
(* Proofs about ConversationMap, for every value of its constants.         *)
(***************************************************************************)
EXTENDS ConversationMap, TLAPS

(* The map with an entry updated is a map.                                 *)
LEMMA UpdatedType ==
  ASSUME NEW c \in Seq(Entry), NEW e \in Entry
  PROVE  Updated(c, e) \in Seq(Entry)
  BY DEF Updated

(* It has the entry, and every other entry of another id; and no id that   *)
(* is new but the entry's.                                                 *)
LEMMA UpdatedEntries ==
  ASSUME NEW c \in Seq(Entry), NEW e \in Entry
  PROVE  /\ e \in Range(Updated(c, e))
         /\ \A x \in Range(c) : x.id # e.id => x \in Range(Updated(c, e))
         /\ \A x \in Range(Updated(c, e)) : x = e \/ x \in Range(c)
<1>1. CASE \E n \in DOMAIN c : c[n].id = e.id
  <2> DEFINE u == [n \in DOMAIN c |-> IF c[n].id = e.id THEN e ELSE c[n]]
  <2>1. Updated(c, e) = u
    BY <1>1 DEF Updated
  <2>2. QED
    BY <1>1, <2>1 DEF Range
<1>2. CASE ~ \E n \in DOMAIN c : c[n].id = e.id
  <2> DEFINE u == Append(c, e)
  <2>1. Updated(c, e) = u
    BY <1>2 DEF Updated
  <2>2. /\ DOMAIN u = 1 .. Len(c) + 1 /\ DOMAIN c = 1 .. Len(c) /\ Len(c) \in Nat
        /\ u[Len(c) + 1] = e
        /\ \A n \in 1 .. Len(c) : u[n] = c[n]
    OBVIOUS
  <2>3. /\ e \in Range(u)
        /\ \A x \in Range(c) : x \in Range(u)
        /\ \A x \in Range(u) : x = e \/ x \in Range(c)
    <3> HIDE DEF u
    <3>1. QED
      BY <2>2 DEF Range
  <2>4. QED
    BY <2>1, <2>3
<1>3. QED
  BY <1>1, <1>2

(* An update does not make an id occur twice.                              *)
LEMMA UpdatedUnique ==
  ASSUME NEW c \in Seq(Entry), NEW e \in Entry, Unique(c)
  PROVE  Unique(Updated(c, e))
<1>1. CASE \E n \in DOMAIN c : c[n].id = e.id
  BY <1>1 DEF Updated, Unique
<1>2. CASE ~ \E n \in DOMAIN c : c[n].id = e.id
  <2> DEFINE u == Append(c, e)
  <2>1. /\ DOMAIN u = 1 .. Len(c) + 1 /\ DOMAIN c = 1 .. Len(c) /\ Len(c) \in Nat
        /\ u[Len(c) + 1] = e
        /\ \A n \in 1 .. Len(c) : u[n] = c[n]
    OBVIOUS
  <2>2. Updated(c, e) = u
    BY <1>2 DEF Updated
  <2> HIDE DEF u
  <2>3. QED
    BY <1>2, <2>1, <2>2 DEF Unique
<1>3. QED
  BY <1>1, <1>2

------------------------------------------------------------------------------
(* The copy a request has once it has read the map of w.                   *)
TheEntry(name) == [id |-> active.id, name |-> name]
TheMap(w) == conv_file[w].conversations
TheCopy(name, w) ==
  [workspace |-> w, entry |-> TheEntry(name),
   conversations |-> Updated(TheMap(w), TheEntry(name))]

LEMMA CopyTaken ==
  ASSUME TypeOK, NEW q \in Requests, NEW name \in Names, NEW w \in Workspaces,
         SaveReads(q, name, w)
  PROVE  /\ TheEntry(name) \in Entry
         /\ TheMap(w) \in Seq(Entry)
         /\ TheCopy(name, w) \in Copy
         /\ copy'[q] = TheCopy(name, w)
         /\ \A r \in Requests : r # q => copy'[r] = copy[r]
<1>1. TheEntry(name) \in Entry
  BY NoneAssumption DEF SaveReads, TypeOK, NoConversation, Entry, TheEntry
<1>2. TheMap(w) \in Seq(Entry)
  BY DEF TypeOK, TheMap
<1>3. TheCopy(name, w) \in Copy
  BY <1>1, <1>2, UpdatedType DEF Copy, TheCopy
<1>4. copy' = [copy EXCEPT ![q] = TheCopy(name, w)]
  BY DEF SaveReads, TheCopy, TheEntry, TheMap
<1>5. DOMAIN copy = Requests
  BY DEF TypeOK
<1>6. QED
  BY <1>1, <1>2, <1>3, <1>4, <1>5

(* Every variable of the conversation map has its type in every reachable  *)
(* state; a request that is under way has a copy it can write.             *)
THEOREM Typing == Spec => []TypeOK
<1>1. Init => TypeOK
  <2> SUFFICES ASSUME Init PROVE TypeOK
    OBVIOUS
  <2>1. conv_file \in [Workspaces -> [kind : {"absent", "torn", "whole"},
                                      conversations : Seq(Entry)]]
    BY DEF Init, Absent
  <2>2. /\ pc \in [Requests -> {"idle", "read", "truncated"}]
        /\ \A q \in Requests : pc[q] = "idle"
    BY DEF Init
  <2>3. copy \in [Requests -> Copy \cup {NoCopy}]
    BY DEF Init
  <2>4. QED
    BY <2>1, <2>2, <2>3 DEF Init, TypeOK
<1>2. TypeOK /\ [Next]_vars => TypeOK'
  <2> SUFFICES ASSUME TypeOK, [Next]_vars PROVE TypeOK'
    OBVIOUS
  <2>1. CASE UNCHANGED vars
    BY <2>1 DEF TypeOK, vars
  <2>2. ASSUME NEW id \in Ids, NEW w \in Workspaces, Open(id, w) \/ OpenFails(id, w)
        PROVE  TypeOK'
    <3>1. active' \in [id : Ids, home : Workspaces] \cup {NoConversation}
      BY <2>2 DEF Open, OpenFails
    <3>2. persisted' \in [Workspaces -> SUBSET Ids]
      <4>1. /\ persisted \in [Workspaces -> SUBSET Ids]
            /\ persisted[w] \cup {id} \in SUBSET Ids
        BY DEF TypeOK
      <4>2. \/ persisted' = persisted
            \/ persisted' = [persisted EXCEPT ![w] = persisted[w] \cup {id}]
        BY <2>2 DEF Open, OpenFails
      <4>3. QED
        BY <4>1, <4>2
    <3>3. UNCHANGED <<conv_file, pc, copy, named, misplaced>>
      BY <2>2 DEF Open, OpenFails
    <3>4. QED
      BY <3>1, <3>2, <3>3 DEF TypeOK
  <2>3. ASSUME NEW q \in Requests, NEW name \in Names, NEW w \in Workspaces,
               SaveReads(q, name, w)
        PROVE  TypeOK'
    <3>1. /\ TheCopy(name, w) \in Copy
          /\ copy'[q] = TheCopy(name, w)
          /\ \A r \in Requests : r # q => copy'[r] = copy[r]
      BY <2>3, CopyTaken
    <3>2. copy' \in [Requests -> Copy \cup {NoCopy}]
      BY <2>3, <3>1 DEF SaveReads, TypeOK
    <3>3. /\ pc' = [pc EXCEPT ![q] = "read"]
          /\ UNCHANGED <<active, persisted, conv_file, named>>
          /\ misplaced' \in BOOLEAN
      BY <2>3 DEF SaveReads
    <3>4. QED
      BY <3>1, <3>2, <3>3 DEF TypeOK
  <2>4. ASSUME NEW q \in Requests, SaveTruncates(q)
        PROVE  TypeOK'
    BY <2>4 DEF SaveTruncates, TypeOK, Torn, Copy
  <2>5. ASSUME NEW q \in Requests, SaveWrites(q)
        PROVE  TypeOK'
    <3>1. copy[q] \in Copy
      BY <2>5 DEF SaveWrites, TypeOK
    <3>2. conv_file' \in [Workspaces -> [kind : {"absent", "torn", "whole"},
                                         conversations : Seq(Entry)]]
      BY <2>5, <3>1 DEF SaveWrites, TypeOK, Whole, Copy
    <3>3. named' \in [Workspaces -> [Ids -> Names \cup {None}]]
      BY <2>5, <3>1 DEF SaveWrites, TypeOK, Copy, Entry
    <3>4. QED
      BY <2>5, <3>2, <3>3 DEF SaveWrites, Done, TypeOK
  <2>6. CASE Reboot \/ \E q \in Requests : SaveFails(q)
    BY <2>6 DEF Reboot, SaveFails, Done, TypeOK
  <2>7. QED
    BY <2>1, <2>2, <2>3, <2>4, <2>5, <2>6 DEF Next
<1>3. QED
  BY <1>1, <1>2, PTL DEF Spec

------------------------------------------------------------------------------
(* In every reachable state no map, on the disk or about to be written,    *)
(* has two entries of one id.                                              *)
THEOREM Uniqueness == Spec => []IdsUnique
<1>1. Init => IdsUnique
  BY DEF Init, IdsUnique, Unique, NoCopy, Absent
<1>2. TypeOK /\ IdsUnique /\ [Next]_vars => IdsUnique'
  <2> SUFFICES ASSUME TypeOK, IdsUnique, [Next]_vars PROVE IdsUnique'
    OBVIOUS
  <2>1. CASE UNCHANGED <<conv_file, copy>>
    BY <2>1 DEF IdsUnique
  <2>2. ASSUME NEW q \in Requests, NEW name \in Names, NEW w \in Workspaces,
               SaveReads(q, name, w)
        PROVE  IdsUnique'
    <3>1. /\ TheEntry(name) \in Entry
          /\ TheMap(w) \in Seq(Entry)
          /\ copy'[q] = TheCopy(name, w)
          /\ \A r \in Requests : r # q => copy'[r] = copy[r]
      BY <2>2, CopyTaken
    <3>2. Unique(TheMap(w))
      BY DEF IdsUnique, TheMap
    <3>3. Unique(TheCopy(name, w).conversations)
      BY <3>1, <3>2, UpdatedUnique DEF TheCopy
    <3>4. conv_file' = conv_file
      BY <2>2 DEF SaveReads
    <3>5. QED
      BY <3>1, <3>3, <3>4 DEF IdsUnique
  <2>3. ASSUME NEW q \in Requests, SaveTruncates(q)
        PROVE  IdsUnique'
    <3>1. Unique(Torn.conversations)
      BY DEF Torn, Unique
    <3>2. copy' = copy
      BY <2>3 DEF SaveTruncates
    <3>3. \A v \in Workspaces : conv_file'[v] = conv_file[v] \/ conv_file'[v] = Torn
      BY <2>3 DEF SaveTruncates, TypeOK
    <3>4. QED
      BY <3>1, <3>2, <3>3 DEF IdsUnique
  <2>4. Unique(NoCopy.conversations)
    BY DEF NoCopy, Unique
  <2>5. ASSUME NEW q \in Requests, SaveWrites(q)
        PROVE  IdsUnique'
    <3>1. \A v \in Workspaces :
            \/ conv_file'[v] = conv_file[v]
            \/ conv_file'[v] = Whole(copy[q].conversations)
      BY <2>5 DEF SaveWrites, TypeOK
    <3>2. Whole(copy[q].conversations).conversations = copy[q].conversations
      BY DEF Whole
    <3>3. \A r \in Requests : copy'[r] = copy[r] \/ copy'[r] = NoCopy
      BY <2>5 DEF SaveWrites, Done, TypeOK
    <3>4. QED
      BY <2>4, <3>1, <3>2, <3>3 DEF IdsUnique
  <2>6. CASE Reboot \/ \E q \in Requests : SaveFails(q)
    <3>1. conv_file' = conv_file
      BY <2>6 DEF Reboot, SaveFails
    <3>2. \A r \in Requests : copy'[r] = copy[r] \/ copy'[r] = NoCopy
      BY <2>6 DEF Reboot, SaveFails, Done, TypeOK
    <3>3. QED
      BY <2>4, <3>1, <3>2 DEF IdsUnique
  <2>7. QED
    BY <2>1, <2>2, <2>3, <2>5, <2>6 DEF Next, Open, OpenFails, vars
<1>3. QED
  BY <1>1, <1>2, Typing, PTL DEF Spec

------------------------------------------------------------------------------
(* A request's copy has all that was saved before it: it is the only one   *)
(* under way, so nothing is saved while it has it.                         *)
OneAtATime ==
  \A q, r \in Requests : pc[q] # "idle" /\ pc[r] # "idle" => q = r

CopyKeepsTheSaved ==
  \A q \in Requests : pc[q] # "idle" =>
    /\ copy[q].entry \in Range(copy[q].conversations)
    /\ \A x \in Saved(copy[q].workspace) :
         x.id # copy[q].entry.id => x \in Range(copy[q].conversations)

SavingInv == OneAtATime /\ CopyKeepsTheSaved /\ AcknowledgedIsSaved

(* In every reachable state a map that is not torn has every conversation  *)
(* whose saving was acknowledged, under its last name.                     *)
THEOREM Acknowledged == Spec => []AcknowledgedIsSaved
<1>1. ASSUME Init PROVE SavingInv
  <2>1. OneAtATime /\ CopyKeepsTheSaved
    BY <1>1 DEF Init, OneAtATime, CopyKeepsTheSaved
  <2>2. \A w \in Workspaces : Saved(w) = {}
    BY <1>1, NoneAssumption DEF Init, Saved, Entry
  <2>3. QED
    BY <2>1, <2>2 DEF SavingInv, AcknowledgedIsSaved
<1>2. TypeOK /\ SavingInv /\ [Next]_vars => SavingInv'
  <2> SUFFICES ASSUME TypeOK, SavingInv, [Next]_vars PROVE SavingInv'
    OBVIOUS
  <2> USE DEF SavingInv
  <2>1. CASE UNCHANGED <<conv_file, pc, copy, named>>
    BY <2>1 DEF OneAtATime, CopyKeepsTheSaved, AcknowledgedIsSaved, Saved
  <2>2. ASSUME NEW q \in Requests, NEW name \in Names, NEW w \in Workspaces,
               SaveReads(q, name, w)
        PROVE  SavingInv'
    <3>1. /\ TheEntry(name) \in Entry
          /\ TheMap(w) \in Seq(Entry)
          /\ copy'[q] = TheCopy(name, w)
      BY <2>2, CopyTaken
    <3>2. /\ \A r \in Requests : r # q => pc'[r] = "idle"
          /\ conv_file' = conv_file
          /\ named' = named
          /\ conv_file[w].kind # "torn"
      BY <2>2 DEF SaveReads, EventLoopFree, TypeOK
    <3>3. \A x \in Saved(w) : x \in Range(TheMap(w))
      BY <3>2 DEF AcknowledgedIsSaved, TheMap
    <3>4. /\ TheEntry(name) \in Range(Updated(TheMap(w), TheEntry(name)))
          /\ \A x \in Saved(w) : x.id # TheEntry(name).id =>
               x \in Range(Updated(TheMap(w), TheEntry(name)))
      BY <3>1, <3>3, UpdatedEntries
    <3>5. /\ copy'[q].workspace = w
          /\ copy'[q].entry = TheEntry(name)
          /\ copy'[q].conversations = Updated(TheMap(w), TheEntry(name))
      BY <3>1 DEF TheCopy
    <3>6. \A v : Saved(v)' = Saved(v)
      BY <3>2 DEF Saved
    <3>7. CopyKeepsTheSaved'
      BY <3>2, <3>4, <3>5, <3>6 DEF CopyKeepsTheSaved, Saved
    <3>8. OneAtATime' /\ AcknowledgedIsSaved'
      BY <3>2 DEF OneAtATime, AcknowledgedIsSaved, Saved
    <3>9. QED
      BY <3>7, <3>8
  <2>3. ASSUME NEW q \in Requests, SaveTruncates(q)
        PROVE  SavingInv'
    <3>1. /\ \A r \in Requests : pc'[r] # "idle" => pc[r] # "idle"
          /\ copy' = copy
          /\ named' = named
          /\ \A v \in Workspaces : conv_file'[v] = conv_file[v] \/ conv_file'[v] = Torn
      BY <2>3 DEF SaveTruncates, TypeOK
    <3>2. Torn.kind = "torn"
      BY DEF Torn
    <3>3. AcknowledgedIsSaved'
      BY <3>1, <3>2 DEF AcknowledgedIsSaved, Saved
    <3>4. OneAtATime' /\ CopyKeepsTheSaved'
      BY <3>1 DEF OneAtATime, CopyKeepsTheSaved, Saved
    <3>5. QED
      BY <3>3, <3>4
  <2>4. ASSUME NEW q \in Requests, SaveWrites(q)
        PROVE  SavingInv'
    <3> DEFINE w == copy[q].workspace
               e == copy[q].entry
    <3>1. /\ w \in Workspaces /\ e \in Entry
          /\ e.id \in Ids
          /\ pc[q] # "idle"
      BY <2>4 DEF SaveWrites, TypeOK, Copy, Entry
    <3>2. \A r \in Requests : pc'[r] = "idle"
      BY <2>4 DEF SaveWrites, Done, TypeOK, OneAtATime
    <3>3. OneAtATime' /\ CopyKeepsTheSaved'
      BY <3>2 DEF OneAtATime, CopyKeepsTheSaved
    <3>4. /\ named' = [named EXCEPT ![w][e.id] = e.name]
          /\ conv_file'[w].conversations = copy[q].conversations
          /\ \A v \in Workspaces : v # w => conv_file'[v] = conv_file[v]
      BY <2>4, <3>1 DEF SaveWrites, TypeOK, Whole
    <3>5. /\ named'[w][e.id] = e.name
          /\ \A id \in Ids : id # e.id => named'[w][id] = named[w][id]
          /\ \A v \in Workspaces : v # w => named'[v] = named[v]
      <4> HIDE DEF w, e
      <4>1. QED
        BY <3>1, <3>4 DEF TypeOK
    <3>6. ASSUME NEW x \in Entry, named'[w][x.id] = x.name
          PROVE  x \in Range(copy[q].conversations)
      <4>1. CASE x.id = e.id
        <5>1. x = e
          BY <3>1, <3>5, <3>6, <4>1 DEF Entry
        <5>2. QED
          BY <3>1, <5>1 DEF CopyKeepsTheSaved
      <4>2. CASE x.id # e.id
        <5>1. x \in Saved(w)
          BY <3>5, <3>6, <4>2 DEF Saved, Entry
        <5>2. QED
          BY <3>1, <4>2, <5>1 DEF CopyKeepsTheSaved
      <4>3. QED
        BY <4>1, <4>2
    <3>7. ASSUME NEW v \in Workspaces, conv_file'[v].kind # "torn",
                 NEW x \in Entry, named'[v][x.id] = x.name
          PROVE  x \in Range(conv_file'[v].conversations)
      <4>1. CASE v = w
        BY <3>4, <3>6, <3>7, <4>1
      <4>2. CASE v # w
        <5>1. conv_file[v].kind # "torn" /\ x \in Saved(v)
          BY <3>4, <3>5, <3>7, <4>2 DEF Saved
        <5>2. QED
          BY <3>4, <4>2, <5>1 DEF AcknowledgedIsSaved
      <4>3. QED
        BY <4>1, <4>2
    <3>8. AcknowledgedIsSaved'
      BY <3>7 DEF AcknowledgedIsSaved, Saved
    <3>9. QED
      BY <3>3, <3>8
  <2>5. CASE Reboot \/ \E q \in Requests : SaveFails(q)
    <3>1. /\ \A r \in Requests :
               pc'[r] # "idle" => pc[r] # "idle" /\ copy'[r] = copy[r]
          /\ UNCHANGED <<conv_file, named>>
      BY <2>5 DEF Reboot, SaveFails, Done, TypeOK
    <3>2. AcknowledgedIsSaved'
      BY <3>1 DEF AcknowledgedIsSaved, Saved
    <3>3. OneAtATime' /\ CopyKeepsTheSaved'
      BY <3>1 DEF OneAtATime, CopyKeepsTheSaved, Saved
    <3>4. QED
      BY <3>2, <3>3
  <2>6. QED
    BY <2>1, <2>2, <2>3, <2>4, <2>5 DEF Next, Open, OpenFails, vars
<1>3. SavingInv => AcknowledgedIsSaved
  BY DEF SavingInv
<1>4. QED
  BY <1>1, <1>2, <1>3, Typing, PTL DEF Spec

------------------------------------------------------------------------------
(* The conversations a request is about to write are in their workspace,   *)
(* and so is the active one.                                               *)
CopyIsResumable ==
  \A q \in Requests : pc[q] # "idle" =>
    \A x \in Range(copy[q].conversations) : x.id \in persisted[copy[q].workspace]

ActiveIsPersisted == active.id # None => active.id \in persisted[active.home]

ResumingInv ==
  ActiveIsPersisted /\ (~ misplaced => CopyIsResumable) /\ ListedIsResumable

(* In every reachable state, unless a save named a workspace that is not   *)
(* the conversation's own, every listed conversation is in its workspace.  *)
THEOREM Resumable == Spec => []ListedIsResumable
<1>1. ASSUME Init PROVE ResumingInv
  <2>1. ActiveIsPersisted /\ CopyIsResumable
    BY <1>1 DEF Init, NoConversation, ActiveIsPersisted, CopyIsResumable
  <2>2. \A w \in Workspaces : Listed(w) = {}
    BY <1>1 DEF Init, Absent, Listed, Range
  <2>3. QED
    BY <2>1, <2>2 DEF ResumingInv, ListedIsResumable
<1>2. TypeOK /\ ResumingInv /\ [Next]_vars => ResumingInv'
  <2> SUFFICES ASSUME TypeOK, ResumingInv, [Next]_vars PROVE ResumingInv'
    OBVIOUS
  <2> USE DEF ResumingInv
  <2>1. CASE UNCHANGED vars
    BY <2>1 DEF vars, ActiveIsPersisted, CopyIsResumable, ListedIsResumable, Listed
  <2>2. ASSUME NEW id \in Ids, NEW w \in Workspaces, Open(id, w) \/ OpenFails(id, w)
        PROVE  ResumingInv'
    <3>1. /\ UNCHANGED <<conv_file, pc, copy, misplaced>>
          /\ \A v \in Workspaces : persisted[v] \subseteq persisted'[v]
      BY <2>2 DEF Open, OpenFails, TypeOK
    <3>2. ActiveIsPersisted'
      BY <2>2 DEF Open, OpenFails, TypeOK, NoConversation, ActiveIsPersisted
    <3>3. ASSUME ~ misplaced' PROVE CopyIsResumable'
      <4>1. \A q \in Requests : pc[q] # "idle" => copy[q].workspace \in Workspaces
        BY DEF TypeOK, Copy
      <4>2. QED
        BY <3>1, <3>3, <4>1 DEF CopyIsResumable
    <3>4. ListedIsResumable'
      BY <3>1 DEF ListedIsResumable, Listed
    <3>5. QED
      BY <3>2, <3>3, <3>4
  <2>3. ASSUME NEW q \in Requests, NEW name \in Names, NEW w \in Workspaces,
               SaveReads(q, name, w)
        PROVE  ResumingInv'
    <3>1. /\ TheEntry(name) \in Entry
          /\ TheMap(w) \in Seq(Entry)
          /\ copy'[q] = TheCopy(name, w)
      BY <2>3, CopyTaken
    <3>2. /\ \A r \in Requests : r # q => pc'[r] = "idle"
          /\ UNCHANGED <<active, persisted, conv_file>>
          /\ active.id # None
          /\ ~ misplaced' => ~ misplaced /\ w = active.home
      BY <2>3 DEF SaveReads, EventLoopFree, TypeOK
    <3>3. ASSUME ~ misplaced', NEW x \in Range(Updated(TheMap(w), TheEntry(name)))
          PROVE  x.id \in persisted[w]
      <4>1. x = TheEntry(name) \/ x \in Range(TheMap(w))
        BY <3>1, <3>3, UpdatedEntries
      <4>2. CASE x = TheEntry(name)
        BY <3>2, <3>3, <4>2 DEF TheEntry, ActiveIsPersisted
      <4>3. CASE x \in Range(TheMap(w))
        BY <3>2, <3>3, <4>3 DEF TheMap, ListedIsResumable, Listed
      <4>4. QED
        BY <4>1, <4>2, <4>3
    <3>4. /\ copy'[q].workspace = w
          /\ copy'[q].conversations = Updated(TheMap(w), TheEntry(name))
      BY <3>1 DEF TheCopy
    <3>5. ~ misplaced' => CopyIsResumable'
      BY <3>2, <3>3, <3>4 DEF CopyIsResumable
    <3>6. ActiveIsPersisted' /\ ListedIsResumable'
      BY <3>2 DEF ActiveIsPersisted, ListedIsResumable, Listed
    <3>7. QED
      BY <3>5, <3>6
  <2>4. ASSUME NEW q \in Requests, SaveTruncates(q)
        PROVE  ResumingInv'
    <3>1. /\ \A r \in Requests : pc'[r] # "idle" => pc[r] # "idle"
          /\ UNCHANGED <<active, persisted, copy, misplaced>>
          /\ \A v \in Workspaces : conv_file'[v] = conv_file[v] \/ conv_file'[v] = Torn
      BY <2>4 DEF SaveTruncates, TypeOK
    <3>2. Range(Torn.conversations) = {}
      BY DEF Torn, Range
    <3>3. ListedIsResumable'
      BY <3>1, <3>2 DEF ListedIsResumable, Listed
    <3>4. ActiveIsPersisted' /\ (~ misplaced' => CopyIsResumable')
      BY <3>1 DEF ActiveIsPersisted, CopyIsResumable
    <3>5. QED
      BY <3>3, <3>4
  <2>5. ASSUME NEW q \in Requests, SaveWrites(q)
        PROVE  ResumingInv'
    <3>1. pc[q] # "idle" /\ copy[q].workspace \in Workspaces
      BY <2>5 DEF SaveWrites, TypeOK, Copy
    <3>2. /\ UNCHANGED <<active, persisted, misplaced>>
          /\ \A r \in Requests :
               pc'[r] # "idle" => pc[r] # "idle" /\ copy'[r] = copy[r]
      BY <2>5 DEF SaveWrites, Done, TypeOK
    <3>3. /\ conv_file'[copy[q].workspace].conversations = copy[q].conversations
          /\ \A v \in Workspaces :
               v # copy[q].workspace => conv_file'[v] = conv_file[v]
      BY <2>5, <3>1 DEF SaveWrites, TypeOK, Whole
    <3>4. ListedIsResumable'
      BY <3>1, <3>2, <3>3 DEF CopyIsResumable, ListedIsResumable, Listed
    <3>5. ActiveIsPersisted' /\ (~ misplaced' => CopyIsResumable')
      BY <3>2 DEF ActiveIsPersisted, CopyIsResumable
    <3>6. QED
      BY <3>4, <3>5
  <2>6. CASE Reboot \/ \E q \in Requests : SaveFails(q)
    <3>1. /\ \A r \in Requests :
               pc'[r] # "idle" => pc[r] # "idle" /\ copy'[r] = copy[r]
          /\ UNCHANGED <<persisted, conv_file, misplaced>>
          /\ active' = active \/ active' = NoConversation
      BY <2>6 DEF Reboot, SaveFails, Done, TypeOK
    <3>2. ActiveIsPersisted'
      BY <3>1 DEF ActiveIsPersisted, NoConversation
    <3>3. (~ misplaced' => CopyIsResumable') /\ ListedIsResumable'
      BY <3>1 DEF CopyIsResumable, ListedIsResumable, Listed
    <3>4. QED
      BY <3>2, <3>3
  <2>7. QED
    BY <2>1, <2>2, <2>3, <2>4, <2>5, <2>6 DEF Next
<1>3. ResumingInv => ListedIsResumable
  BY DEF ResumingInv
<1>4. QED
  BY <1>1, <1>2, <1>3, Typing, PTL DEF Spec
==============================================================================
