------------------------------ MODULE Registry ------------------------------
(***************************************************************************)
(* Who is on the bus, and whose files are whose: the registry of agents,   *)
(* the members of the rooms, and the inbox and cursor file of each id, as  *)
(* register, unregister, rename_agent, join_room, leave_room, list_agents  *)
(* and prune change them (src/tools.ts).                                   *)
(*                                                                         *)
(* Each of these files is updated under a lock of its own, one after the   *)
(* other: a rename or a prune is a series of steps between which anything  *)
(* may happen.  Mail may be sent to an id nobody has registered; it waits  *)
(* in the inbox.  A read is one step here (Mailbox has it in detail), and  *)
(* the part of prune that removes old entries is left to Prune.            *)
(***************************************************************************)
EXTENDS Integers, Sequences, FiniteSets

CONSTANTS
  Ids,            \* the ids agents go by
  Rooms,          \* the rooms besides the default one
  Calls,          \* concurrent calls of handlers with several steps
  Evictions,      \* whether an agent may be silent for EVICT_MS
  MaxMail,        \* bound: messages ever sent
  MaxCalls,       \* bound: calls with several steps ever made
  NoFile

ASSUME BoundAssumption == MaxMail \in Nat /\ MaxCalls \in Nat
ASSUME EvictionAssumption == Evictions \in BOOLEAN
ASSUME NoFileAssumption == NoFile \notin Seq(1..MaxMail) \cup Nat

VARIABLES
  registered,     \* the ids in agents.json
  members,        \* members[r]: the ids in room r, in rooms.json
  inbox, cursor,  \* the inbox and the cursor file of each id, or NoFile
  pc,             \* where a call is
  id, new,        \* the agent it is about, and its new id
  known, todo,    \* of a prune: the registry it read, and the inboxes it found
  sent, made,     \* history: messages sent; calls made
  delivered, again, \* history: messages read; messages read a second time
  orphaned,       \* history: messages deleted with an inbox nobody owned
  heads,          \* history: registrations less departures
  strangers,      \* history: ids in a room while not registered, or evicted
  clash           \* history: calls got in each other's way

fileVars == <<registered, members, inbox, cursor>>
callVars == <<pc, id, new, known, todo, made>>
mailVars == <<sent, delivered, again, orphaned, strangers>>
registryVars == <<fileVars, callVars, mailVars, heads, clash>>

Mail(i) == IF inbox[i] = NoFile THEN <<>> ELSE inbox[i]
Offset(i) == IF cursor[i] = NoFile THEN 0 ELSE cursor[i]
Ids_(entries) == {entries[n] : n \in DOMAIN entries}
Unread(i) == Ids_(SubSeq(Mail(i), Offset(i) + 1, Len(Mail(i))))

\* A rename that is at work on the files of id i, and one that has moved the
\* inbox and not yet the cursor.
Moving(i) ==
  \E c \in Calls : pc[c] \in {"members", "inbox", "cursor"} /\ i \in {id[c], new[c]}
HalfMoved(i) == \E c \in Calls : pc[c] = "cursor" /\ i \in {id[c], new[c]}

RegistryInit ==
  /\ registered = {}
  /\ members = [r \in Rooms |-> {}]
  /\ inbox = [i \in Ids |-> NoFile]
  /\ cursor = [i \in Ids |-> NoFile]
  /\ pc = [c \in Calls |-> "idle"]
  /\ id \in [Calls -> Ids] /\ new = id
  /\ known = [c \in Calls |-> {}]
  /\ todo = [c \in Calls |-> {}]
  /\ sent = 0 /\ made = 0 /\ heads = 0
  /\ delivered = {} /\ again = {} /\ orphaned = {} /\ strangers = {}
  /\ clash = FALSE

-----------------------------------------------------------------------------
(* Handlers with one step                                                  *)

Register(i) ==
  /\ registered' = registered \cup {i}
  /\ heads' = IF i \in registered THEN heads ELSE heads + 1
  /\ UNCHANGED <<members, inbox, cursor, callVars, mailVars, clash>>

\* list_agents drops an agent that was silent for a day, and nothing else.
Evict(i) ==
  /\ Evictions
  /\ i \in registered
  /\ registered' = registered \ {i}
  /\ heads' = heads - 1
  /\ strangers' = strangers \cup {i}
  /\ UNCHANGED <<members, inbox, cursor, callVars, sent, delivered, again, orphaned,
                 clash>>

\* join_room and leave_room do not ask whether the agent is registered.
JoinRoom(i, r) ==
  /\ members' = [members EXCEPT ![r] = @ \cup {i}]
  /\ strangers' = IF i \in registered THEN strangers ELSE strangers \cup {i}
  /\ UNCHANGED <<registered, inbox, cursor, callVars, sent, delivered, again, orphaned,
                 heads, clash>>

LeaveRoom(i, r) ==
  /\ members' = [members EXCEPT ![r] = @ \ {i}]
  /\ UNCHANGED <<registered, inbox, cursor, callVars, mailVars, heads, clash>>

\* A DM is stored whether or not its recipient is registered.
Send(i) ==
  /\ sent < MaxMail
  /\ sent' = sent + 1
  /\ inbox' = [inbox EXCEPT ![i] = Append(Mail(i), sent + 1)]
  /\ UNCHANGED <<registered, members, cursor, callVars, delivered, again, orphaned,
                 strangers, heads, clash>>

Read(i) ==
  /\ cursor' = [cursor EXCEPT ![i] =
                  IF Offset(i) < Len(Mail(i)) THEN Len(Mail(i)) ELSE Offset(i)]
  /\ delivered' = delivered \cup Unread(i)
  /\ again' = again \cup (delivered \cap Unread(i))
  /\ clash' = (clash \/ Moving(i))
  /\ UNCHANGED <<registered, members, inbox, callVars, sent, orphaned, strangers, heads>>

-----------------------------------------------------------------------------
Begin(c, i, n, step) ==
  /\ pc[c] = "idle"
  /\ made < MaxCalls
  /\ made' = made + 1
  /\ pc' = [pc EXCEPT ![c] = step]
  /\ id' = [id EXCEPT ![c] = i]
  /\ new' = [new EXCEPT ![c] = n]

Step(c, next) ==
  /\ pc' = [pc EXCEPT ![c] = next]
  /\ UNCHANGED <<id, new, known, todo, made>>

(* unregister: out of the registry, then out of the rooms.                 *)

Unregister(c, i) ==
  /\ Begin(c, i, i, "leave")
  /\ registered' = registered \ {i}
  /\ heads' = IF i \in registered THEN heads - 1 ELSE heads
  /\ UNCHANGED <<members, inbox, cursor, known, todo, mailVars, clash>>

UnregisterRooms(c) ==
  /\ pc[c] = "leave"
  /\ members' = [r \in Rooms |-> members[r] \ {id[c]}]
  /\ clash' = (clash \/ Moving(id[c]))
  /\ Step(c, "idle")
  /\ UNCHANGED <<registered, inbox, cursor, mailVars, heads>>

(* rename_agent: a check, and then file after file.                        *)

RenameCheck(c, i, n) ==
  /\ i \in registered /\ n \notin registered
  /\ Begin(c, i, n, "registry")
  /\ UNCHANGED <<fileVars, known, todo, mailVars, heads, clash>>

\* Mutant of RenameRegistry: the old entry stays.
RenameCopies(c) ==
  /\ pc[c] = "registry"
  /\ registered' = IF id[c] \in registered
                   THEN registered \cup {new[c]} ELSE registered
  /\ clash' = (clash \/ id[c] \notin registered \/ new[c] \in registered)
  /\ Step(c, "members")
  /\ UNCHANGED <<members, inbox, cursor, mailVars, heads>>

\* The entry moves, over another one if there is one by now.
RenameRegistry(c) ==
  /\ pc[c] = "registry"
  /\ registered' = IF id[c] \in registered
                   THEN (registered \ {id[c]}) \cup {new[c]} ELSE registered
  /\ clash' = (clash \/ id[c] \notin registered \/ new[c] \in registered)
  /\ Step(c, "members")
  /\ UNCHANGED <<members, inbox, cursor, mailVars, heads>>

\* Mutant of RenameMembers: the new id joins, the old one stays.
RenameJoins(c) ==
  /\ pc[c] = "members"
  /\ members' = [r \in Rooms |-> IF id[c] \in members[r]
                                 THEN members[r] \cup {new[c]} ELSE members[r]]
  /\ Step(c, "inbox")
  /\ UNCHANGED <<registered, inbox, cursor, mailVars, heads, clash>>

RenameMembers(c) ==
  /\ pc[c] = "members"
  /\ members' = [r \in Rooms |-> IF id[c] \in members[r]
                                 THEN (members[r] \ {id[c]}) \cup {new[c]}
                                 ELSE members[r]]
  /\ clash' = (clash \/ \E d \in Calls \ {c} :
                  pc[d] = "members" /\ {id[d], new[d]} \cap {id[c], new[c]} # {})
  /\ Step(c, "inbox")
  /\ UNCHANGED <<registered, inbox, cursor, mailVars, heads>>

\* moveFile: nothing if there is no file; else it replaces what is there.
Moved(file, c) ==
  IF file[id[c]] = NoFile THEN file
  ELSE [file EXCEPT ![new[c]] = file[id[c]], ![id[c]] = NoFile]

\* Mutant of RenameInbox: when the file cannot be renamed it is only unlinked.
RenameUnlinks(c) ==
  /\ pc[c] = "inbox"
  /\ inbox' = [inbox EXCEPT ![id[c]] = NoFile]
  /\ Step(c, "cursor")
  /\ UNCHANGED <<registered, members, cursor, mailVars, heads, clash>>

RenameInbox(c) ==
  /\ pc[c] = "inbox"
  /\ inbox' = Moved(inbox, c)
  /\ clash' = (clash \/ inbox[new[c]] # NoFile \/ cursor[new[c]] # NoFile
                     \/ HalfMoved(id[c]) \/ HalfMoved(new[c]))
  /\ Step(c, "cursor")
  /\ UNCHANGED <<registered, members, cursor, mailVars, heads>>

\* Mutant of RenameCursor: the cursor file is left behind.
RenameKeepsCursor(c) ==
  /\ pc[c] = "cursor"
  /\ Step(c, "idle")
  /\ UNCHANGED <<fileVars, mailVars, heads, clash>>

RenameCursor(c) ==
  /\ pc[c] = "cursor"
  /\ cursor' = Moved(cursor, c)
  /\ clash' = (clash \/ cursor[new[c]] # NoFile)
  /\ Step(c, "idle")
  /\ UNCHANGED <<registered, members, inbox, mailVars, heads>>

(* prune: the registry is read once; inboxes of unknown ids are deleted    *)
(* one by one, and at last unknown members are dropped from the rooms.     *)

\* It is read without a lock: a writer, any heartbeat, may have it truncated,
\* which parses as an empty one.
PruneRead(c) ==
  /\ Begin(c, id[c], new[c], "list")
  /\ \E found \in {registered, {}} : known' = [known EXCEPT ![c] = found]
  /\ UNCHANGED <<fileVars, todo, mailVars, heads, clash>>

PruneList(c) ==
  /\ pc[c] = "list"
  /\ pc' = [pc EXCEPT ![c] = "sweep"]
  /\ todo' = [todo EXCEPT ![c] = {i \in Ids \ known[c] : inbox[i] # NoFile}]
  /\ UNCHANGED <<fileVars, id, new, known, made, mailVars, heads, clash>>

\* The cursor file of the id stays.
PruneInbox(c, i) ==
  /\ pc[c] = "sweep"
  /\ i \in todo[c]
  /\ todo' = [todo EXCEPT ![c] = @ \ {i}]
  /\ inbox' = [inbox EXCEPT ![i] = NoFile]
  /\ orphaned' = orphaned \cup (IF i \in registered THEN {} ELSE Unread(i))
  /\ clash' = (clash \/ i \in registered \/ Moving(i) \/ Offset(i) > 0)
  /\ UNCHANGED <<registered, members, cursor, pc, id, new, known, made, sent,
                 delivered, again, strangers, heads>>

\* Mutant of PruneMembers: the members are dropped before the inboxes are swept.
PruneMembersEarly(c) ==
  /\ pc[c] = "sweep"
  /\ members' = [r \in Rooms |-> members[r] \cap known[c]]
  /\ pc' = [pc EXCEPT ![c] = "idle"]
  /\ known' = [known EXCEPT ![c] = {}]
  /\ UNCHANGED <<registered, inbox, cursor, id, new, todo, made, mailVars, heads, clash>>

PruneMembers(c) ==
  /\ pc[c] = "sweep"
  /\ todo[c] = {}
  /\ members' = [r \in Rooms |-> members[r] \cap known[c]]
  /\ pc' = [pc EXCEPT ![c] = "idle"]
  /\ known' = [known EXCEPT ![c] = {}]
  /\ UNCHANGED <<registered, inbox, cursor, id, new, todo, made, mailVars, heads, clash>>

-----------------------------------------------------------------------------
Handle(c) ==
  \/ \E i \in Ids : Unregister(c, i) \/ PruneInbox(c, i)
  \/ \E i, n \in Ids : RenameCheck(c, i, n)
  \/ UnregisterRooms(c)
  \/ RenameRegistry(c) \/ RenameMembers(c) \/ RenameInbox(c) \/ RenameCursor(c)
  \/ PruneRead(c) \/ PruneList(c) \/ PruneMembers(c)

RegistryNext ==
  \/ \E i \in Ids : Register(i) \/ Evict(i) \/ Send(i) \/ Read(i)
  \/ \E i \in Ids, r \in Rooms : JoinRoom(i, r) \/ LeaveRoom(i, r)
  \/ \E c \in Calls : Handle(c)

RegistrySpec == RegistryInit /\ [][RegistryNext]_registryVars

-----------------------------------------------------------------------------
(* Properties                                                              *)

\* The types of the files and the calls.
RegistryTypeOK ==
  /\ registered \subseteq Ids
  /\ members \in [Rooms -> SUBSET Ids]
  /\ inbox \in [Ids -> Seq(1..MaxMail) \cup {NoFile}]
  /\ cursor \in [Ids -> Nat \cup {NoFile}]
  /\ pc \in [Calls -> {"idle", "leave", "registry", "members", "inbox", "cursor",
                       "list", "sweep"}]
  /\ id \in [Calls -> Ids] /\ new \in [Calls -> Ids]
  /\ known \in [Calls -> SUBSET Ids] /\ todo \in [Calls -> SUBSET Ids]
  /\ made \in 0..MaxCalls
  /\ \A c \in Calls : /\ todo[c] # {} => pc[c] = "sweep"
                      /\ known[c] # {} => pc[c] \in {"list", "sweep"}

\* Mail is never lost, for any interleaving of renames, prunes, departures,
\* returns and evictions, but in one of these ways: a prune that works with a
\* stale or an empty registry deletes the inbox of an agent, or of an id whose cursor has
\* moved and stays; a rename moves files onto others, or finds that its agent
\* has gone; a read, or a second rename of the id, slips in between the move of
\* inbox and cursor.  Short of that every message is read, or can be, or was
\* deleted with an orphan inbox.
MailKept ==
  ~clash => \A m \in 1..sent :
    \/ m \in delivered \cup orphaned
    \/ \E i \in Ids : m \in Unread(i)
    \/ \E c \in Calls : pc[c] = "cursor" /\ m \in Ids_(Mail(id[c]))

\* Nor is any mail read twice, since the cursor moves with the inbox.
ReadOnce == ~clash => again = {}

\* Mail is read exactly once, or deleted with an inbox nobody owns.
MailKeptOnce == MailKept /\ ReadOnce

\* A rename neither splits nor merges agents: there is one entry for each that
\* registered and has not left.
OneEntryEach == ~clash => Cardinality(registered) = heads

Settled == \A c \in Calls : pc[c] = "idle"

\* Once no call is under way, a room has no member that left: every member is
\* registered, or joined without being so, or was evicted, for any interleaving
\* of renames, departures and prunes but the departure of an agent in the middle
\* of a rename of it, and two renames of it at a time.
NoGhost ==
  Settled /\ ~clash => \A r \in Rooms : members[r] \subseteq registered \cup strangers

\* The registry has every agent that is there once, and the rooms agree with it.
Consistent == OneEntryEach /\ NoGhost

\* src/tools.ts:1006: no offset may point past the end of its file, or "read_
\* messages return [] forever": also not after a prune has deleted the inbox.
InReach ==
  Settled => \A i \in Ids : Offset(i) <= Len(Mail(i))

\* src/tools.ts:380: "offline delivery is intentional": what waits in the inbox
\* of an id nobody has yet is there when an agent takes the id by a rename.
RenameKeepsMail ==
  [][\A c \in Calls : pc[c] = "inbox" /\ pc'[c] = "cursor" =>
       \A i \in Ids : Ids_(Mail(i)) \subseteq UNION {Ids_(Mail(j)') : j \in Ids}]_registryVars

\* README.md:86: prune "removes inbox files for agents no longer in the
\* registry, and compacts orphan channel memberships": an agent in the registry
\* loses neither.
SparesRegistered ==
  [][\A c \in Calls : pc[c] = "sweep" => \A i \in registered :
       /\ todo'[c] # todo[c] => (inbox[i] # NoFile => inbox'[i] # NoFile)
       /\ pc'[c] = "idle" => \A r \in Rooms : i \in members[r] => i \in members'[r]]_registryVars
=============================================================================
