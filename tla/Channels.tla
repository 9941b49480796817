------------------------------ MODULE Channels ------------------------------
(***************************************************************************)
(* One channel besides the default one, and the two tools that clean up    *)
(* behind the others: delete_room and doctor with fix (src/tools.ts).      *)
(*                                                                         *)
(* A channel is three things in three places: an entry in rooms.json, a    *)
(* log in rooms/, and an offset in the cursor file of every agent that     *)
(* read it.  No lock covers more than one file, so joining, posting,       *)
(* deleting and the doctor's checks are series of steps, and the doctor    *)
(* acts at the end of its run on what it read at its start.                *)
(*                                                                         *)
(* A log is a sequence of lines: a Message, a Fragment (a line that was    *)
(* cut short and has no end yet) or Junk (a line that does not parse).     *)
(* Offsets count the lines that parse.                                     *)
(***************************************************************************)
EXTENDS Integers, Sequences, FiniteSets

CONSTANTS
  Agents,         \* the agents; the inbox of an agent goes by its name
  Channel,        \* the channel
  Calls,          \* concurrent calls of the agents' tools
  Backlogs,       \* how long the channel's log may be at the start
  Spoils,         \* whether an append may be cut short
  MaxCalls,       \* bound: calls of the agents' tools that take several steps
  MaxMoves,       \* bound: registrations, evictions and departures
  MaxDeletes,     \* bound: calls of delete_room
  MaxDoctors,     \* bound: calls of doctor
  None

ASSUME ChannelAssumption == Channel \notin Agents
ASSUME ChannelBoundAssumption ==
  /\ {MaxCalls, MaxMoves, MaxDeletes, MaxDoctors} \subseteq Nat
  /\ Backlogs \subseteq Nat
ASSUME SpoilsAssumption == Spoils \in BOOLEAN

Files == Agents \cup {Channel}
Stages == {"ensure", "seat", "meta", "post", "look"}

\* No file goes by the name of a stage of a call; None is no agent, no offset
\* and no count.
ASSUME NamesAssumption ==
  /\ Files \cap (Stages \cup {""}) = {}
  /\ None \notin Agents \cup Nat \cup [parsed : Nat, malformed : Nat]

Message == 1
Fragment == 0
Junk == -1

VARIABLES
  registered,     \* the agents in agents.json
  writing,        \* what is about to be written to it: meanwhile it is empty
  entry, members, \* the channel's entry in rooms.json, and its members
  present, lines, \* which JSONL files exist, and their lines
  cursor, kept,   \* the offsets of each agent, and whether its file exists
  call,           \* the agents' calls
  del,            \* the call of delete_room
  doc,            \* the call of doctor
  made, moves, deletes, doctors, \* history: calls made, of each kind
  seated,         \* history: agents that joined, were told so and did not leave
  overtaken,      \* history: calls during which the channel was deleted, or
                  \* the agent left it
  purged,         \* history: registered agents whose unread mail was deleted
  late, misread,  \* history: agents registered while the doctor was at work;
                  \* it read agents.json while that was empty
  raced,          \* history: agents reading a log while it was deleted
  calm            \* history: nothing but the doctor moved since it began

diskVars == <<registered, writing, entry, members, present, lines, cursor, kept>>
ghosts == <<seated, overtaken, purged, late, misread, raced>>
counters == <<made, moves, deletes, doctors>>
channelVars == <<diskVars, call, del, doc, counters, ghosts, calm>>

Idle == [op |-> "idle", at |-> "", who |-> None, saw |-> 0]
NoDelete == [at |-> "idle", todo |-> {}]
Unscanned == [f \in Files |-> None]
NoDoctor == [at |-> "idle", known |-> {}, there |-> FALSE, seats |-> {},
             todo |-> {}, counts |-> Unscanned, who |-> None]

\* How many lines parse, and what a rewrite keeps: those lines, which are alike.
Whole(content) == Cardinality({i \in DOMAIN content : content[i] = Message})
Messages(content) == [i \in 1..Whole(content) |-> Message]

Parsed(f) == Whole(lines[f])
Malformed(f) == Len(lines[f]) - Parsed(f)

\* An offset that is missing from the cursor counts as 0.
Offset(a, f) == IF cursor[a][f] = None THEN 0 ELSE cursor[a][f]
Own(a) == {Channel, a}

\* A message lands on a line of its own, or on the rest of a fragment, which
\* then never parses.
Appended(content, m) ==
  IF content # <<>> /\ content[Len(content)] = Fragment
  THEN [content EXCEPT ![Len(content)] = Junk] ELSE Append(content, m)

\* The channel has been in use: no agent is a member of it or all are, and none
\* has read it or all have, up to its end.
ChannelsInit ==
  /\ registered = Agents /\ writing = None
  /\ entry = TRUE /\ members \in {{}, Agents}
  /\ \E n \in Backlogs, read \in {{}, Agents} :
       /\ lines = [f \in Files |-> IF f = Channel THEN [i \in 1..n |-> Message] ELSE <<>>]
       /\ present = [f \in Files |-> f = Channel]
       /\ cursor = [a \in Agents |-> [f \in Files |->
                      IF f = Channel /\ a \in read /\ n > 0 THEN n ELSE None]]
       /\ kept = read
  /\ call = [c \in Calls |-> Idle]
  /\ del = NoDelete /\ doc = NoDoctor
  /\ made = 0 /\ moves = 0 /\ deletes = 0 /\ doctors = 0
  /\ seated = members
  /\ overtaken = {} /\ purged = {} /\ late = {} /\ raced = {}
  /\ misread = FALSE /\ calm = FALSE

-----------------------------------------------------------------------------
(* agents.json: every write of it empties the file first                   *)

KnownNow == IF writing = None THEN registered ELSE {}

Register(a) ==
  /\ writing = None /\ moves < MaxMoves /\ moves' = moves + 1
  /\ writing' = registered \cup {a}
  /\ UNCHANGED <<registered, entry, members, present, lines, cursor, kept,
                 call, del, doc, made, deletes, doctors, ghosts>>

\* list_agents drops an agent that has been silent too long.
Evict(a) ==
  /\ writing = None /\ moves < MaxMoves /\ moves' = moves + 1 /\ a \in registered
  /\ writing' = registered \ {a}
  /\ UNCHANGED <<registered, entry, members, present, lines, cursor, kept,
                 call, del, doc, made, deletes, doctors, ghosts>>

StoreRegistry ==
  /\ writing # None
  /\ registered' = writing /\ writing' = None
  /\ late' = IF doc.at = "idle" THEN late ELSE late \cup (writing \ registered)
  /\ UNCHANGED <<entry, members, present, lines, cursor, kept, call, del, doc, counters,
                 seated, overtaken, purged, misread, raced>>

-----------------------------------------------------------------------------
(* The agents' tools                                                       *)

Begin(c, op, a) ==
  /\ call[c] = Idle /\ made < MaxCalls
  /\ made' = made + 1
  /\ call' = [call EXCEPT ![c] =
       [op |-> op, who |-> a, saw |-> 0,
        at |-> CASE op = "mail" -> "post" [] op = "read" -> "look" [] OTHER -> "ensure"]]
  /\ seated' = IF op = "join" THEN seated \ {a} ELSE seated
  /\ overtaken' = overtaken \ {c}
  /\ UNCHANGED <<diskVars, del, doc, moves, deletes, doctors, purged, late, misread, raced>>

\* ensureRoom, the first step of join_room, of a post and of setting the topic
\* or the MOTD.
EnsureRoom(c) ==
  /\ call[c].at = "ensure"
  /\ entry' = TRUE
  /\ call' = [call EXCEPT ![c].at =
       CASE @ # "ensure" -> @ [] call[c].op = "join" -> "seat"
         [] call[c].op = "topic" -> "meta" [] OTHER -> "post"]
  /\ UNCHANGED <<registered, writing, members, present, lines, cursor, kept,
                 del, doc, counters, ghosts>>

\* addMember makes the entry again if it is gone.
AddMember(c) ==
  /\ call[c].at = "seat"
  /\ entry' = TRUE /\ members' = members \cup {call[c].who}
  /\ call' = [call EXCEPT ![c].at = "post"]
  /\ UNCHANGED <<registered, writing, present, lines, cursor, kept,
                 del, doc, counters, ghosts>>

\* So does setRoomMeta, which has the topic and the MOTD to store.
SetRoomMeta(c) ==
  /\ call[c].at = "meta"
  /\ entry' = TRUE
  /\ call' = [call EXCEPT ![c].at = "post"]
  /\ UNCHANGED <<registered, writing, members, present, lines, cursor, kept,
                 del, doc, counters, ghosts>>

\* The message, or the notice of a join or a new topic; then the reply.
Post(c) ==
  /\ call[c].at = "post"
  /\ LET f == IF call[c].op = "mail" THEN call[c].who ELSE Channel IN
       /\ lines' = [lines EXCEPT ![f] = Appended(@, Message)]
       /\ present' = [present EXCEPT ![f] = TRUE]
  /\ seated' = IF call[c].op = "join" /\ c \notin overtaken
               THEN seated \cup {call[c].who} ELSE seated
  /\ call' = [call EXCEPT ![c] = Idle]
  /\ UNCHANGED <<registered, writing, entry, members, cursor, kept, del, doc, counters,
                 overtaken, purged, late, misread, raced>>

\* The disk is full, or the process dies, in the middle of the line.
PostSpoilt(c) ==
  /\ Spoils
  /\ call[c].at = "post"
  /\ LET f == IF call[c].op = "mail" THEN call[c].who ELSE Channel IN
       /\ lines' = [lines EXCEPT ![f] = Appended(@, Fragment)]
       /\ present' = [present EXCEPT ![f] = TRUE]
  /\ call' = [call EXCEPT ![c] = Idle]
  /\ UNCHANGED <<registered, writing, entry, members, cursor, kept,
                 del, doc, counters, ghosts>>

LeaveRoom(a) ==
  /\ moves < MaxMoves /\ moves' = moves + 1
  /\ members' = members \ {a}
  /\ seated' = seated \ {a}
  /\ overtaken' = overtaken \cup {c \in Calls : call[c].who = a}
  /\ UNCHANGED <<registered, writing, entry, present, lines, cursor, kept, call, del, doc,
                 made, deletes, doctors, purged, late, misread, raced>>

\* read_messages parses the log before it has the cursor's lock ...
Look(c, f) ==
  /\ call[c].at = "look" /\ f \in Own(call[c].who)
  /\ call' = [call EXCEPT ![c].at = f, ![c].saw = Parsed(f)]
  /\ UNCHANGED <<diskVars, del, doc, counters, ghosts>>

\* ... and moves the offset under it, if it found anything.
Take(c) ==
  /\ call[c].at \in Files
  /\ LET a == call[c].who
         f == call[c].at IN
       /\ cursor' = IF call[c].saw > Offset(a, f)
                    THEN [cursor EXCEPT ![a][f] = call[c].saw] ELSE cursor
       /\ kept' = kept \cup {a}
  /\ call' = [call EXCEPT ![c] = Idle]
  /\ UNCHANGED <<registered, writing, entry, members, present, lines, del, doc, counters,
                 ghosts>>

-----------------------------------------------------------------------------
(* delete_room                                                             *)

Reading(f) == {call[c].who : c \in {c \in Calls : call[c].at = f}}

\* A channel with members is deleted only by force.
DeleteCheck(force) ==
  /\ del.at = "idle" /\ deletes < MaxDeletes
  /\ entry /\ (members = {} \/ force)
  /\ deletes' = deletes + 1
  /\ del' = [del EXCEPT !.at = "entry"]
  /\ UNCHANGED <<diskVars, call, doc, made, moves, doctors, ghosts>>

DeleteEntry ==
  /\ del.at = "entry"
  /\ entry' = FALSE /\ members' = {}
  /\ seated' = {}
  /\ overtaken' = overtaken \cup {c \in Calls : call[c] # Idle}
  /\ del' = [del EXCEPT !.at = "file"]
  /\ UNCHANGED <<registered, writing, present, lines, cursor, kept, call, doc, counters,
                 purged, late, misread, raced>>

\* Unlinks the log, then lists the cursor files.
DeleteLog ==
  /\ del.at = "file"
  /\ present' = [present EXCEPT ![Channel] = FALSE]
  /\ lines' = [lines EXCEPT ![Channel] = <<>>]
  /\ raced' = raced \cup Reading(Channel)
  /\ del' = [at |-> "cursors", todo |-> kept]
  /\ UNCHANGED <<registered, writing, entry, members, cursor, kept, call, doc, counters,
                 seated, overtaken, purged, late, misread>>

\* Mutant of DropOffset: no offset is dropped.
DropOffsetSkipped(a) ==
  /\ del.at = "cursors" /\ a \in del.todo
  /\ del' = [del EXCEPT !.todo = @ \ {a}]
  /\ kept' = kept \cup {a}
  /\ UNCHANGED <<registered, writing, entry, members, present, lines, cursor, call, doc,
                 counters, ghosts>>

DropOffset(a) ==
  /\ del.at = "cursors" /\ a \in del.todo
  /\ cursor' = [cursor EXCEPT ![a][Channel] = None]
  /\ kept' = kept \cup {a}
  /\ del' = [del EXCEPT !.todo = @ \ {a}]
  /\ UNCHANGED <<registered, writing, entry, members, present, lines, call, doc,
                 counters, ghosts>>

\* The notice goes to the default channel.
DeleteEnds ==
  /\ del.at = "cursors" /\ del.todo = {}
  /\ del' = NoDelete
  /\ UNCHANGED <<diskVars, call, doc, counters, ghosts>>

-----------------------------------------------------------------------------
(* doctor with fix, check by check                                         *)

DoctorReadAgents ==
  /\ doc.at = "idle" /\ doctors < MaxDoctors
  /\ doctors' = doctors + 1
  /\ doc' = [doc EXCEPT !.at = "rooms", !.known = KnownNow]
  /\ misread' = (misread \/ writing # None)
  /\ UNCHANGED <<diskVars, call, del, made, moves, deletes, seated, overtaken, purged, late, raced>>

DoctorReadRooms ==
  /\ doc.at = "rooms"
  /\ doc' = [doc EXCEPT !.at = "members", !.there = entry, !.seats = members]
  /\ UNCHANGED <<diskVars, call, del, counters, ghosts>>

\* The doctor goes from one check to the next, over the files it then lists:
\* check 5 has the inboxes, and the channel if rooms.json had it.
InboxFiles == {a \in Agents : present[a]}
Work(d) ==
  CASE d.at = "inboxes" -> [d EXCEPT !.todo = InboxFiles, !.seats = {}]
    [] d.at = "cursors" -> [d EXCEPT !.todo = kept]
    [] d.at = "offsets" -> [d EXCEPT !.todo = kept, !.known = {}]
    [] d.at = "lines" -> [d EXCEPT !.todo = InboxFiles \cup (IF d.there THEN {Channel} ELSE {})]
    [] OTHER -> d

Goes(from, to) ==
  /\ doc.at = from /\ doc.todo = {} /\ doc.who = None
  /\ doc' = Work([doc EXCEPT !.at = to])

DoctorGoes ==
  /\ Goes("inboxes", "cursors") \/ Goes("cursors", "offsets") \/ Goes("offsets", "lines")
  /\ UNCHANGED <<diskVars, call, del, counters, ghosts>>

\* Mutants of DoctorMembers: the members are put back as they were read; a
\* single orphan is not worth an update.
DoctorMembersStale ==
  /\ doc.at = "members"
  /\ members' = IF doc.seats \subseteq doc.known THEN members ELSE doc.seats \cap doc.known
  /\ seated' = seated \cap registered
  /\ doc' = Work([doc EXCEPT !.at = "inboxes"])
  /\ UNCHANGED <<registered, writing, entry, present, lines, cursor, kept, call, del, counters,
                 overtaken, purged, late, misread, raced>>
DoctorMembersMany ==
  /\ doc.at = "members"
  /\ members' = IF Cardinality(doc.seats \ doc.known) < 2 THEN members
                ELSE members \cap doc.known
  /\ seated' = seated \cap registered
  /\ doc' = Work([doc EXCEPT !.at = "inboxes"])
  /\ UNCHANGED <<registered, writing, entry, present, lines, cursor, kept, call, del, counters,
                 overtaken, purged, late, misread, raced>>

\* Check 2, and the list of inboxes for check 3.  An agent that is in fact
\* registered should keep its seat.
DoctorMembers ==
  /\ doc.at = "members"
  /\ members' = IF doc.seats \subseteq doc.known THEN members ELSE members \cap doc.known
  /\ seated' = IF doc.seats \subseteq doc.known THEN seated ELSE seated \cap registered
  /\ overtaken' = overtaken \cup {c \in Calls : call[c] # Idle /\ call[c].who \notin registered}
  /\ doc' = Work([doc EXCEPT !.at = "inboxes"])
  /\ UNCHANGED <<registered, writing, entry, present, lines, cursor, kept, call, del, counters,
                 purged, late, misread, raced>>

\* Check 3: the inbox of an agent the registry did not have.
DoctorInbox(a) ==
  /\ doc.at = "inboxes" /\ a \in doc.todo
  /\ doc' = [doc EXCEPT !.todo = @ \ {a}]
  /\ IF a \in doc.known
     THEN UNCHANGED <<present, lines, purged, raced>>
     ELSE /\ present' = [present EXCEPT ![a] = FALSE]
          /\ lines' = [lines EXCEPT ![a] = <<>>]
          /\ raced' = raced \cup Reading(a)
          /\ purged' = IF a \in registered /\ Parsed(a) > Offset(a, a)
                       THEN purged \cup {a} ELSE purged
  /\ UNCHANGED <<registered, writing, entry, members, cursor, kept, call, del, counters,
                 seated, overtaken, late, misread>>

\* Check 3: its cursor file.
DoctorCursor(a) ==
  /\ doc.at = "cursors" /\ a \in doc.todo
  /\ doc' = [doc EXCEPT !.todo = @ \ {a}]
  /\ IF a \in doc.known
     THEN UNCHANGED <<cursor, kept>>
     ELSE /\ cursor' = [cursor EXCEPT ![a] = [f \in Files |-> None]]
          /\ kept' = kept \ {a}
  /\ UNCHANGED <<registered, writing, entry, members, present, lines, call, del, counters, ghosts>>

\* countFor: a file is scanned once in a run of the doctor, and never again.
Scanned(fs) ==
  [f \in Files |-> IF f \in fs /\ doc.counts[f] = None
                   THEN [parsed |-> Parsed(f), malformed |-> Malformed(f)]
                   ELSE doc.counts[f]]

\* Check 4: the log of every offset of the cursor is scanned, and the inbox in
\* any case.
DoctorOffset(a) ==
  /\ doc.at = "offsets" /\ doc.who = None /\ a \in doc.todo
  /\ LET fs == {a} \cup {f \in Own(a) : cursor[a][f] # None}
         counts == Scanned(fs)
         over == \E f \in fs : Offset(a, f) > counts[f].parsed IN
       doc' = [doc EXCEPT !.todo = @ \ {a}, !.counts = counts,
                          !.who = IF over THEN a ELSE None]
  /\ UNCHANGED <<diskVars, call, del, counters, ghosts>>

\* An offset that was not there before has no count: it is set back to 0.
Clamped(a) ==
  [f \in Files |->
     LET most == IF doc.counts[f] = None THEN 0 ELSE doc.counts[f].parsed IN
     IF cursor[a][f] # None /\ cursor[a][f] > most THEN most ELSE cursor[a][f]]

DoctorClamp ==
  /\ doc.at = "offsets" /\ doc.who # None
  /\ cursor' = [cursor EXCEPT ![doc.who] = Clamped(doc.who)]
  /\ kept' = kept \cup {doc.who}
  /\ doc' = [doc EXCEPT !.who = None]
  /\ UNCHANGED <<registered, writing, entry, members, present, lines, call, del, counters, ghosts>>

\* Check 5: a log with lines that do not parse is copied, and rewriteJsonl drops
\* them, under the lock.
Spoilt(f) == Scanned({f})[f].malformed > 0

DoctorRewrite(f) ==
  /\ doc.at = "lines" /\ f \in doc.todo
  /\ Spoilt(f) => present[f]
  /\ doc' = [doc EXCEPT !.todo = @ \ {f}, !.counts = Scanned({f})]
  /\ lines' = IF Spoilt(f) THEN [lines EXCEPT ![f] = Messages(@)] ELSE lines
  /\ UNCHANGED <<registered, writing, entry, members, present, cursor, kept, call, del,
                 counters, ghosts>>

\* Such a log is gone since it was scanned: the copy throws, the doctor fails.
DoctorFails(f) ==
  /\ doc.at = "lines" /\ f \in doc.todo
  /\ Spoilt(f) /\ ~present[f]
  /\ doc' = NoDoctor
  /\ UNCHANGED <<diskVars, call, del, counters, ghosts>>

\* Check 9: a log without an entry, when rooms.json was read, gets one.
DoctorRegister ==
  /\ doc.at = "lines" /\ doc.todo = {}
  /\ entry' = (entry \/ (present[Channel] /\ ~doc.there))
  /\ doc' = [doc EXCEPT !.at = "done"]
  /\ UNCHANGED <<registered, writing, members, present, lines, cursor, kept, call, del,
                 counters, ghosts>>

DoctorEnds ==
  /\ doc.at = "done"
  /\ doc' = NoDoctor
  /\ UNCHANGED <<diskVars, call, del, counters, ghosts>>

-----------------------------------------------------------------------------

Registration == (\E a \in Agents : Register(a) \/ Evict(a)) \/ StoreRegistry

Tool(c) ==
  \/ \E op \in {"join", "topic", "send", "mail", "read"}, a \in Agents : Begin(c, op, a)
  \/ EnsureRoom(c) \/ AddMember(c) \/ SetRoomMeta(c) \/ Post(c) \/ PostSpoilt(c)
  \/ \E f \in Files : Look(c, f)
  \/ Take(c)

DeleteRoom ==
  \/ \E force \in BOOLEAN : DeleteCheck(force)
  \/ DeleteEntry \/ DeleteLog \/ DeleteEnds
  \/ \E a \in Agents : DropOffset(a)

Doctor ==
  \/ DoctorReadRooms \/ DoctorMembers
  \/ \E a \in Agents : DoctorInbox(a) \/ DoctorCursor(a) \/ DoctorOffset(a)
  \/ DoctorGoes \/ DoctorClamp
  \/ \E f \in Files : DoctorRewrite(f) \/ DoctorFails(f)
  \/ DoctorRegister \/ DoctorEnds

Quiet == writing = None /\ del = NoDelete /\ \A c \in Calls : call[c] = Idle

ChannelsNext ==
  \/ (Registration \/ (\E c \in Calls : Tool(c)) \/ (\E a \in Agents : LeaveRoom(a))
        \/ DeleteRoom) /\ calm' = FALSE
  \/ DoctorReadAgents /\ calm' = Quiet
  \/ Doctor /\ calm' = (calm /\ doc'.at # "idle")

ChannelsSpec == ChannelsInit /\ [][ChannelsNext]_channelVars

-----------------------------------------------------------------------------
(* What the channel, its members and its readers can rely on               *)

\* The types of the files, the calls and the doctor's run.
Lines == {Message, Fragment, Junk}
UnderWay == [op : {"join", "topic", "send", "mail", "read"}, at : Stages \cup Files,
             who : Agents, saw : Nat]
Counts == [parsed : Nat, malformed : Nat]
ChannelsTypeOK ==
  /\ registered \subseteq Agents /\ writing \in {None} \cup SUBSET Agents
  /\ entry \in BOOLEAN /\ members \subseteq Agents
  /\ present \in [Files -> BOOLEAN] /\ lines \in [Files -> Seq(Lines)]
  /\ cursor \in [Agents -> [Files -> {None} \cup Nat]] /\ kept \subseteq Agents
  /\ call \in [Calls -> {Idle} \cup UnderWay]
  /\ del \in [at : {"idle", "entry", "file", "cursors"}, todo : SUBSET Agents]
  /\ doc \in [at : {"idle", "rooms", "members", "inboxes", "cursors", "offsets", "lines",
                    "done"},
              known : SUBSET Agents, there : BOOLEAN, seats : SUBSET Agents,
              todo : SUBSET Files, counts : [Files -> {None} \cup Counts],
              who : {None} \cup Agents]
  /\ made \in Nat /\ moves \in Nat /\ deletes \in Nat /\ doctors \in Nat
  /\ seated \subseteq Agents /\ overtaken \subseteq Calls
  /\ purged \cup late \cup raced \subseteq Agents
  /\ misread \in BOOLEAN /\ calm \in BOOLEAN

\* A run of the doctor that nothing disturbs leaves a state with nothing to
\* repair: every member is registered, no offset is past its log's end, a log
\* has an entry, and of the files it looked at every line parses.  (The log of
\* a channel it had to register is looked at by the next run only.)
DoctorHeals ==
  (doc.at = "done" /\ calm) =>
    /\ members \subseteq registered
    /\ \A a \in Agents, f \in Files : Offset(a, f) <= Parsed(f)
    /\ present[Channel] => entry
    /\ \A f \in Files : Malformed(f) > 0 => f = Channel /\ ~doc.there

\* Whoever was told it joined, by a call that nothing overtook, is a member
\* until it leaves or the channel is deleted, and a registered agent's unread
\* mail stays: the doctor takes neither away, except from an agent that
\* registered while it was at work, or when it found agents.json emptied by a
\* writer.
Spared ==
  ~misread =>
    /\ seated \subseteq members \cup late
    /\ purged \subseteq late

\* No offset outlives the log it counted: once delete_room is done with the
\* cursors, an offset is within the log, unless its agent was reading a log
\* at the moment it was deleted.
NoOffsetOutlives ==
  (del.at # "cursors" /\ doc.at \notin {"inboxes", "cursors"}) =>
    \A a \in Agents \ raced : \A f \in Files : Offset(a, f) <= Parsed(f)
=============================================================================
