--------------------------- MODULE ConversationMap ---------------------------
(***************************************************************************)
(* The conversations of urp/web_server.py: each workspace directory holds  *)
(* the conversations the SDK persisted there and a file, the map, of those *)
(* the user saved under a name.  save_conversation() reads the map,        *)
(* changes its copy, truncates the file and writes it.  It never awaits,   *)
(* so requests do not interleave, but the process may be killed between    *)
(* any two of its steps, and the operating system may refuse each.         *)
(***************************************************************************)
EXTENDS Sequences, FiniteSets, Naturals, Functions

CONSTANTS
  Workspaces, \* the workspace directories
  Ids,        \* the conversation ids
  Names,      \* the names the user may give a conversation
  Requests,   \* the connections that send requests to save
  None

ASSUME NoneAssumption == None \notin Ids \cup Names

VARIABLES
  active,    \* the conversation of host.agent and its workspace, or no id
  persisted, \* the conversations the SDK persisted in each workspace
  conv_file, \* conversation_map.json of each workspace
  pc,        \* where each request is
  copy,      \* its locals: the conversations it is going to write, and where
  named,     \* history: the name each conversation was last saved under
  misplaced  \* history: was a conversation saved outside of its workspace?

vars == <<active, persisted, conv_file, pc, copy, named, misplaced>>

Entry == [id : Ids, name : Names]
NoConversation == [id |-> None, home |-> None]
Copy == [workspace : Workspaces, entry : Entry, conversations : Seq(Entry)]
NoCopy == [workspace |-> None, entry |-> None, conversations |-> <<>>]
(* A file is torn from open(..., 'w') to the end of json.dump(), and for   *)
(* ever when the process does not get there: json.load() raises on it.     *)
Absent == [kind |-> "absent", conversations |-> <<>>]
Torn == [kind |-> "torn", conversations |-> <<>>]
Whole(c) == [kind |-> "whole", conversations |-> c]

Init ==
  /\ active = NoConversation
  /\ persisted = [w \in Workspaces |-> {}]
  /\ conv_file = [w \in Workspaces |-> Absent]
  /\ pc = [q \in Requests |-> "idle"]
  /\ copy = [q \in Requests |-> NoCopy]
  /\ named = [w \in Workspaces |-> [id \in Ids |-> None]]
  /\ misplaced = FALSE

(* Mutant: the handlers run in threads.                                    *)
EventLoopNeverHeld == TRUE

(* No handler is between two of its steps.                                 *)
EventLoopFree == \A q \in Requests : pc[q] = "idle"

(* list_conversations().                                                   *)
Listed(w) == {e.id : e \in Range(conv_file[w].conversations)}

------------------------------------------------------------------------------
(* initialize_agent(), as far as it decides the active conversation.       *)

(* SDKURPAgent takes a new id, or whichever one the request gives; the SDK *)
(* creates the conversation or finds it in the workspace.                  *)
Open(id, w) ==
  /\ EventLoopFree
  /\ active' = [id |-> id, home |-> w]
  /\ persisted' = [persisted EXCEPT ![w] = @ \cup {id}]
  /\ UNCHANGED <<conv_file, pc, copy, named, misplaced>>

(* Mutant: the id is known before the conversation is created.             *)
OpenFailsLate(id, w) ==
  /\ EventLoopFree
  /\ active' = [id |-> id, home |-> w]
  /\ UNCHANGED <<persisted, conv_file, pc, copy, named, misplaced>>

(* EchoAgent has no conversation, nor an agent whose initialisation failed *)
(* or a host that has let go of its agent.                                 *)
OpenFails(id, w) ==
  /\ EventLoopFree
  /\ active' = NoConversation
  /\ UNCHANGED <<persisted, conv_file, pc, copy, named, misplaced>>

------------------------------------------------------------------------------
(* save_conversation().                                                    *)

(* Mutant: the id is not looked for.                                       *)
UpdatedByAppending(conversations, e) == Append(conversations, e)

(* The entry of the same id gets the name, or a new entry is appended.     *)
Updated(conversations, e) ==
  IF \E n \in DOMAIN conversations : conversations[n].id = e.id
  THEN [n \in DOMAIN conversations |->
          IF conversations[n].id = e.id THEN e ELSE conversations[n]]
  ELSE Append(conversations, e)

(* Mutant: the id is not tested before it is used.                         *)
SaveReadsUnchecked(q, name, w) ==
  /\ EventLoopFree /\ pc[q] = "idle"
  /\ conv_file[w].kind # "torn"
  /\ LET e == [id |-> active.id, name |-> name] IN
       copy' = [copy EXCEPT ![q] =
         [workspace |-> w, entry |-> e,
          conversations |-> Updated(conv_file[w].conversations, e)]]
  /\ pc' = [pc EXCEPT ![q] = "read"]
  /\ misplaced' = (misplaced \/ w # active.home)
  /\ UNCHANGED <<active, persisted, conv_file, named>>

(* Without an active conversation the request is declined, and a torn map  *)
(* makes json.load() raise: neither changes anything.                      *)
SaveReads(q, name, w) ==
  /\ EventLoopFree /\ pc[q] = "idle"
  /\ active.id # None
  /\ conv_file[w].kind # "torn"
  /\ LET e == [id |-> active.id, name |-> name] IN
       copy' = [copy EXCEPT ![q] =
         [workspace |-> w, entry |-> e,
          conversations |-> Updated(conv_file[w].conversations, e)]]
  /\ pc' = [pc EXCEPT ![q] = "read"]
  /\ misplaced' = (misplaced \/ w # active.home)
  /\ UNCHANGED <<active, persisted, conv_file, named>>

SaveTruncates(q) ==
  /\ pc[q] = "read"
  /\ conv_file' = [conv_file EXCEPT ![copy[q].workspace] = Torn]
  /\ pc' = [pc EXCEPT ![q] = "truncated"]
  /\ UNCHANGED <<active, persisted, copy, named, misplaced>>

Done(q) ==
  /\ pc' = [pc EXCEPT ![q] = "idle"]
  /\ copy' = [copy EXCEPT ![q] = NoCopy]

(* The map is written and the request acknowledged.                        *)
SaveWrites(q) ==
  /\ pc[q] = "truncated"
  /\ conv_file' = [conv_file EXCEPT ![copy[q].workspace] =
                     Whole(copy[q].conversations)]
  /\ named' = [named EXCEPT ![copy[q].workspace][copy[q].entry.id] =
                 copy[q].entry.name]
  /\ Done(q)
  /\ UNCHANGED <<active, persisted, misplaced>>

(* open() or json.dump() raises: the file stays as it is at that point.    *)
SaveFails(q) ==
  /\ pc[q] # "idle"
  /\ Done(q)
  /\ UNCHANGED <<active, persisted, conv_file, named, misplaced>>

(* The process is killed wherever it is; the new one begins with EchoAgent *)
(* and the same directories.                                               *)
Reboot ==
  /\ active' = NoConversation
  /\ pc' = [q \in Requests |-> "idle"]
  /\ copy' = [q \in Requests |-> NoCopy]
  /\ UNCHANGED <<persisted, conv_file, named, misplaced>>

------------------------------------------------------------------------------
Next ==
  \/ \E id \in Ids, w \in Workspaces : Open(id, w) \/ OpenFails(id, w)
  \/ \E q \in Requests :
       \/ \E name \in Names, w \in Workspaces : SaveReads(q, name, w)
       \/ SaveTruncates(q) \/ SaveWrites(q) \/ SaveFails(q)
  \/ Reboot

Spec == Init /\ [][Next]_vars

------------------------------------------------------------------------------
TypeOK ==
  /\ active \in [id : Ids, home : Workspaces] \cup {NoConversation}
  /\ persisted \in [Workspaces -> SUBSET Ids]
  /\ conv_file \in [Workspaces -> [kind : {"absent", "torn", "whole"},
                                   conversations : Seq(Entry)]]
  /\ pc \in [Requests -> {"idle", "read", "truncated"}]
  /\ copy \in [Requests -> Copy \cup {NoCopy}]
  /\ \A q \in Requests : pc[q] # "idle" => copy[q] \in Copy
  /\ named \in [Workspaces -> [Ids -> Names \cup {None}]]
  /\ misplaced \in BOOLEAN

Unique(c) == \A a, b \in DOMAIN c : c[a].id = c[b].id => a = b

(* No two entries of a map, on the disk or about to be written, have the   *)
(* same id, however conversations are reopened and renamed.                *)
IdsUnique ==
  /\ \A w \in Workspaces : Unique(conv_file[w].conversations)
  /\ \A q \in Requests : Unique(copy[q].conversations)

(* The entries that acknowledged requests put in the map of w.             *)
Saved(w) == {e \in Entry : named[w][e.id] = e.name}

(* A map that is not torn has every conversation whose saving was          *)
(* acknowledged, under its last name: whatever happened in between, no     *)
(* save undid another, also of those that failed.                          *)
AcknowledgedIsSaved ==
  \A w \in Workspaces :
    conv_file[w].kind # "torn" => Saved(w) \subseteq Range(conv_file[w].conversations)

(* When each save named the workspace its conversation lives in, a listed  *)
(* conversation is there to be reopened: also one whose request failed, or *)
(* that was saved before the process was killed.                           *)
ListedIsResumable ==
  ~ misplaced => \A w \in Workspaces : Listed(w) \subseteq persisted[w]

------------------------------------------------------------------------------
(* README.md:368: the host "provides persistent conversation state         *)
(* restoration across host reboots via conversation directory mappings".   *)
RestoredAfterReboot ==
  [][Reboot => \A w \in Workspaces :
       Saved(w) \subseteq Range(conv_file'[w].conversations)]_vars
==============================================================================
