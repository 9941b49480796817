-------------------------------- MODULE Chat --------------------------------
(***************************************************************************)
(* coord-chat (scripts/coord-chat.mjs) beside the server, on one channel   *)
(* and two cursor files: the chat's own and that of an agent (Peer), for   *)
(* which the server reads.                                                 *)
(*                                                                         *)
(* The chat works on the bus's files by itself.  It is one thread: a       *)
(* command runs to its next await undisturbed by the drain that prints new *)
(* messages, and the drain, which keeps what it read of its cursor until   *)
(* it has the lock, sees commands go by meanwhile.  /prune, /wipe and      *)
(* /rollover rewrite the log and every cursor file without a lock, in one  *)
(* go as far as the chat is concerned; the server goes on in between.      *)
(*                                                                         *)
(* The channel is the default one, which can be rolled over, or a named    *)
(* one, which can be joined and left.  An offset of 0 stands for none.     *)
(***************************************************************************)
EXTENDS Integers, Sequences, FiniteSets

CONSTANTS
  MaxPosts,       \* bound: messages posted by agents
  MaxCommands,    \* bound: commands of the chat
  MaxReads,       \* bound: reads of the peer
  MaxDeaths,      \* bound: how often the chat dies
  Me, Peer

ASSUME BoundAssumption ==
  MaxPosts \in Nat /\ MaxCommands \in Nat /\ MaxReads \in Nat /\ MaxDeaths \in Nat
ASSUME NamesAssumption == Me # Peer

VARIABLES
  named,          \* whether the channel is a named one
  log, archive,   \* the channel's log, and what was rolled over
  joined,         \* whether the chat is a member
  off,            \* the offset in each cursor file
  up,             \* whether the chat runs
  cmd,            \* its command: where it is, and what it has read
  drain,          \* its drain
  call,           \* the server's read for the peer
  posted, commands, reads, deaths, \* history: how many there were
  printed, skipped, \* history: what the chat printed, and fast-forwarded over
  got,            \* history: what the peer was given
  removed,        \* history: what /prune and /wipe were to remove
  exposed,        \* history: messages posted while a rewrite was under way
  lag,            \* history: a command got past a drain, or died half way
  clash           \* history: a rewrite and a read of the peer overlapped

fileVars == <<named, log, archive, joined, off>>
counters == <<posted, commands, reads, deaths>>
ghosts == <<printed, skipped, got, removed, exposed, lag, clash>>
vars == <<fileVars, up, cmd, drain, call, counters, ghosts>>

Ids(s) == {s[i] : i \in DOMAIN s}
Less(a, b) == IF a > b THEN a - b ELSE 0

NoCommand == [at |-> "idle", op |-> "", saw |-> <<>>, cut |-> 0, todo |-> {},
              who |-> Me, val |-> 0]
NoDrain == [at |-> "idle", upto |-> 0]
NoCall == [at |-> "idle", saw |-> <<>>, base |-> 0, replaced |-> FALSE]

\* Between these the chat does not await: no drain comes in.
Rewriting == cmd.at \in {"write", "create", "shift", "shifted"}

Init ==
  /\ named \in BOOLEAN /\ joined = ~named
  /\ log = <<>> /\ archive = {}
  /\ off = [x \in {Me, Peer} |-> 0]
  /\ up = TRUE
  /\ cmd = NoCommand /\ drain = NoDrain /\ call = NoCall
  /\ posted = 0 /\ commands = 0 /\ reads = 0 /\ deaths = 0
  /\ printed = {} /\ skipped = {} /\ got = {} /\ removed = {} /\ exposed = {}
  /\ lag = FALSE /\ clash = FALSE

-----------------------------------------------------------------------------
(* The server: a post, and a read for the peer                             *)

Post ==
  /\ posted < MaxPosts
  /\ posted' = posted + 1
  /\ log' = Append(log, posted')
  /\ exposed' = IF Rewriting THEN exposed \cup {posted'} ELSE exposed
  /\ UNCHANGED <<named, archive, joined, off, up, cmd, drain, call, commands, reads, deaths,
                 printed, skipped, got, removed, lag, clash>>

PeerLooks ==
  /\ call.at = "idle" /\ reads < MaxReads
  /\ call' = [NoCall EXCEPT !.at = "looked", !.saw = log]
  /\ reads' = reads + 1
  /\ clash' = (clash \/ Rewriting)
  /\ UNCHANGED <<fileVars, up, cmd, drain, posted, commands, deaths,
                 printed, skipped, got, removed, exposed, lag>>

\* updateJson, under a lock the chat's rewrites do not ask for.
PeerLoads ==
  /\ call.at = "looked"
  /\ call' = [call EXCEPT !.at = "loaded", !.base = off[Peer]]
  /\ UNCHANGED <<fileVars, up, cmd, drain, counters, ghosts>>

PeerEmpties ==
  /\ call.at = "loaded"
  /\ call' = [call EXCEPT !.at = "emptied"]
  /\ UNCHANGED <<fileVars, up, cmd, drain, counters, ghosts>>

\* The offset goes to the file that was emptied: if the chat has renamed
\* another one into its place, to no file.
PeerStores ==
  LET n == Len(call.saw) IN
  /\ call.at = "emptied"
  /\ off' = IF call.replaced THEN off
            ELSE [off EXCEPT ![Peer] = IF n > call.base THEN n ELSE call.base]
  /\ got' = got \cup Ids(SubSeq(call.saw, call.base + 1, n))
  /\ call' = NoCall
  /\ clash' = (clash \/ Rewriting)
  /\ UNCHANGED <<named, log, archive, joined, up, cmd, drain, counters,
                 printed, skipped, removed, exposed, lag>>

-----------------------------------------------------------------------------
(* The drain                                                               *)

\* Reads the cursor, reads the logs and prints, then asks for the lock.  It
\* may have something to save because of another log.
DrainReads ==
  LET n == IF joined /\ Len(log) > off[Me] THEN Len(log) ELSE off[Me] IN
  /\ up /\ ~Rewriting /\ drain.at = "idle"
  /\ printed' = printed \cup Ids(SubSeq(log, off[Me] + 1, n))
  /\ drain' = [at |-> "save", upto |-> n]
  /\ UNCHANGED <<fileVars, up, cmd, call, counters, skipped, got, removed, exposed, lag, clash>>

\* Mutant of DrainSaves: the save waits for a lock for ever.
DrainSavesNever ==
  /\ up /\ ~Rewriting /\ drain.at = "save"
  /\ UNCHANGED vars

\* The whole cursor is written as it was read.
DrainSaves ==
  /\ up /\ ~Rewriting /\ drain.at = "save"
  /\ off' = [off EXCEPT ![Me] = drain.upto]
  /\ drain' = NoDrain
  /\ UNCHANGED <<named, log, archive, joined, up, cmd, call, counters, ghosts>>

\* The lock was not to be had: the cursor stays, and the next drain prints the
\* same again.
DrainGivesUp ==
  /\ up /\ ~Rewriting /\ drain.at = "save"
  /\ drain' = NoDrain
  /\ UNCHANGED <<fileVars, up, cmd, call, counters, ghosts>>

-----------------------------------------------------------------------------
(* Commands                                                                *)

Accepts == up /\ cmd = NoCommand /\ commands < MaxCommands

\* What a command changes under a drain that is waiting for its lock, the
\* drain will undo; what it changes under a read of the peer, that read may.
Disturbs ==
  /\ lag' = (lag \/ drain.at = "save")
  /\ clash' = (clash \/ call.at # "idle")

\* /prune reads the log ...
PruneReads(k) ==
  /\ Accepts /\ k \in 1..Len(log)
  /\ commands' = commands + 1
  /\ cmd' = [NoCommand EXCEPT !.at = "write", !.op = "prune", !.saw = log, !.cut = k]
  /\ UNCHANGED <<fileVars, up, drain, call, posted, reads, deaths,
                 printed, skipped, got, removed, exposed>>
  /\ Disturbs

\* Mutant of PruneWrites: the chat does not shift its own cursor.
PruneWritesOthers ==
  /\ cmd.at = "write"
  /\ log' = SubSeq(cmd.saw, cmd.cut + 1, Len(cmd.saw))
  /\ removed' = removed \cup Ids(SubSeq(cmd.saw, 1, cmd.cut))
  /\ cmd' = [cmd EXCEPT !.at = "shift", !.todo = {Peer}, !.saw = <<>>]
  /\ UNCHANGED <<named, archive, joined, off, up, drain, call, counters,
                 printed, skipped, got, exposed>>
  /\ Disturbs

\* ... and writes back what is young enough; then the offsets are shifted.
PruneWrites ==
  /\ cmd.at = "write"
  /\ log' = SubSeq(cmd.saw, cmd.cut + 1, Len(cmd.saw))
  /\ removed' = removed \cup Ids(SubSeq(cmd.saw, 1, cmd.cut))
  /\ cmd' = [cmd EXCEPT !.at = "shift", !.todo = {Me, Peer}, !.saw = <<>>]
  /\ UNCHANGED <<named, archive, joined, off, up, drain, call, counters,
                 printed, skipped, got, exposed>>
  /\ Disturbs

\* /wipe empties the log; then the offsets are reset.
Wipe ==
  /\ Accepts
  /\ commands' = commands + 1
  /\ log' = <<>>
  /\ removed' = removed \cup Ids(log)
  /\ cmd' = [NoCommand EXCEPT !.at = "shift", !.op = "wipe", !.todo = {Me, Peer}]
  /\ UNCHANGED <<named, archive, joined, off, up, drain, call, posted, reads, deaths,
                 printed, skipped, got, exposed>>
  /\ Disturbs

\* Mutant of RolloverRenames: a copy is archived, and not all of it.
RolloverCopies ==
  /\ Accepts /\ ~named
  /\ commands' = commands + 1
  /\ archive' = archive \cup Ids(SubSeq(log, 1, off[Me])) /\ log' = <<>>
  /\ cmd' = [NoCommand EXCEPT !.at = "create", !.op = "rollover"]
  /\ UNCHANGED <<named, joined, off, up, drain, call, posted, reads, deaths,
                 printed, skipped, got, removed, exposed>>
  /\ Disturbs

\* /rollover renames the log away ...
RolloverRenames ==
  /\ Accepts /\ ~named
  /\ commands' = commands + 1
  /\ archive' = archive \cup Ids(log) /\ log' = <<>>
  /\ cmd' = [NoCommand EXCEPT !.at = "create", !.op = "rollover"]
  /\ UNCHANGED <<named, joined, off, up, drain, call, posted, reads, deaths,
                 printed, skipped, got, removed, exposed>>
  /\ Disturbs

\* ... and writes an empty one, over whatever an append has made by then.
RolloverCreates ==
  /\ cmd.at = "create"
  /\ log' = <<>>
  /\ cmd' = [cmd EXCEPT !.at = "shift", !.todo = {Me, Peer}]
  /\ UNCHANGED <<named, archive, joined, off, up, drain, call, counters,
                 printed, skipped, got, removed, exposed>>
  /\ Disturbs

\* shiftAllCursors and resetRoomOffsets, cursor by cursor.  One that the
\* server has just emptied has no offset.
ShiftReads(x) ==
  /\ cmd.at = "shift" /\ x \in cmd.todo
  /\ LET val == IF x = Peer /\ call.at = "emptied" /\ ~call.replaced THEN 0 ELSE off[x] IN
     cmd' = [cmd EXCEPT !.todo = @ \ {x}, !.who = x, !.val = val,
                        !.at = IF val = 0 THEN "shift" ELSE "shifted"]
  /\ UNCHANGED <<fileVars, up, drain, call, counters, printed, skipped, got, removed, exposed>>
  /\ Disturbs

\* Mutant of ShiftWrites: every command shifts the offsets.
ShiftWritesAlways ==
  /\ cmd.at = "shifted"
  /\ off' = [off EXCEPT ![cmd.who] = Less(cmd.val, cmd.cut)]
  /\ call' = IF cmd.who = Peer /\ call.at = "emptied" THEN [call EXCEPT !.replaced = TRUE] ELSE call
  /\ cmd' = [cmd EXCEPT !.at = "shift"]
  /\ UNCHANGED <<named, log, archive, joined, up, drain, counters,
                 printed, skipped, got, removed, exposed>>
  /\ Disturbs

ShiftWrites ==
  /\ cmd.at = "shifted"
  /\ off' = [off EXCEPT ![cmd.who] = IF cmd.op = "prune" THEN Less(cmd.val, cmd.cut) ELSE 0]
  /\ call' = IF cmd.who = Peer /\ call.at = "emptied" THEN [call EXCEPT !.replaced = TRUE] ELSE call
  /\ cmd' = [cmd EXCEPT !.at = "shift"]
  /\ UNCHANGED <<named, log, archive, joined, up, drain, counters,
                 printed, skipped, got, removed, exposed>>
  /\ Disturbs

ShiftEnds ==
  /\ cmd.at = "shift" /\ cmd.todo = {}
  /\ cmd' = IF cmd.op = "rollover" THEN [NoCommand EXCEPT !.at = "notice", !.op = "rollover"]
            ELSE NoCommand
  /\ UNCHANGED <<fileVars, up, drain, call, counters, ghosts>>

\* /join becomes a member under the lock of rooms.json, if it is none ...
JoinsRoom ==
  /\ Accepts
  /\ commands' = commands + 1
  /\ joined' = TRUE
  /\ cmd' = [NoCommand EXCEPT !.at = "forward", !.op = "join"]
  /\ UNCHANGED <<named, log, archive, off, up, drain, call, posted, reads, deaths, ghosts>>

\* ... and then moves its offset to the end of the log.
JoinForwards ==
  /\ cmd.at = "forward"
  /\ off' = [off EXCEPT ![Me] = Len(log)]
  /\ skipped' = skipped \cup Ids(log)
  /\ lag' = (lag \/ drain.at = "save")
  /\ cmd' = [cmd EXCEPT !.at = "notice"]
  /\ UNCHANGED <<named, log, archive, joined, up, drain, call, counters,
                 printed, got, removed, exposed, clash>>

\* The notice of a rollover, a join or a departure.
Notice ==
  /\ cmd.at = "notice"
  /\ posted' = posted + 1
  /\ log' = Append(log, posted')
  /\ cmd' = IF cmd.op = "part" THEN [cmd EXCEPT !.at = "leave"] ELSE NoCommand
  /\ UNCHANGED <<named, archive, joined, off, up, drain, call, commands, reads, deaths, ghosts>>

\* /part says so first.
PartsRoom ==
  /\ Accepts /\ named /\ joined
  /\ commands' = commands + 1
  /\ cmd' = [NoCommand EXCEPT !.at = "notice", !.op = "part"]
  /\ UNCHANGED <<fileVars, up, drain, call, posted, reads, deaths, ghosts>>

PartLeaves ==
  /\ cmd.at = "leave"
  /\ joined' = FALSE
  /\ cmd' = NoCommand
  /\ UNCHANGED <<named, log, archive, off, up, drain, call, counters, ghosts>>

\* The chat is killed, in the middle of a rewrite perhaps.
ChatDies ==
  /\ up /\ deaths < MaxDeaths
  /\ up' = FALSE /\ deaths' = deaths + 1
  /\ cmd' = NoCommand /\ drain' = NoDrain
  /\ clash' = (clash \/ Rewriting)
  /\ UNCHANGED <<fileVars, call, posted, commands, reads,
                 printed, skipped, got, removed, exposed, lag>>

\* fastForwardCursors: what is there at launch counts as seen.
ChatStarts ==
  /\ ~up
  /\ up' = TRUE
  /\ off' = [off EXCEPT ![Me] = IF joined THEN Len(log) ELSE @]
  /\ skipped' = IF joined THEN skipped \cup Ids(log) ELSE skipped
  /\ lag' = FALSE
  /\ UNCHANGED <<named, log, archive, joined, cmd, drain, call, counters,
                 printed, got, removed, exposed, clash>>

-----------------------------------------------------------------------------

Drain == DrainReads \/ DrainSaves \/ DrainGivesUp
Command ==
  \/ PruneWrites \/ RolloverCreates
  \/ \E x \in {Me, Peer} : ShiftReads(x)
  \/ ShiftWrites \/ ShiftEnds \/ JoinForwards \/ Notice \/ PartLeaves
Typed ==
  \/ \E k \in 1..(MaxPosts + MaxCommands) : PruneReads(k)
  \/ Wipe \/ RolloverRenames \/ JoinsRoom \/ PartsRoom
Server == Post \/ PeerLooks \/ PeerLoads \/ PeerEmpties \/ PeerStores

Next == Drain \/ Command \/ Typed \/ Server \/ ChatDies \/ ChatStarts

\* The drain runs every second, and a command runs to its end.
Fairness == WF_vars(DrainReads) /\ WF_vars(DrainSaves) /\ WF_vars(Command)

Spec == Init /\ [][Next]_vars /\ Fairness

-----------------------------------------------------------------------------

TypeOK ==
  /\ named \in BOOLEAN /\ joined \in BOOLEAN /\ up \in BOOLEAN
  /\ log \in Seq(Nat) /\ Ids(log) \subseteq 1..posted
  /\ off \in [{Me, Peer} -> Nat]
  /\ cmd.at \in {"idle", "write", "create", "shift", "shifted", "forward", "notice", "leave"}
  /\ drain.at \in {"idle", "save"}
  /\ call.at \in {"idle", "looked", "loaded", "emptied"}

\* Whatever the chat rewrites, the peer is given every message its offset has
\* passed, and the offset stays within the log, unless the rewrite overlapped
\* with one of its reads or was cut off.
NothingPassedOver ==
  (~clash /\ ~Rewriting) =>
    /\ off[Peer] <= Len(log)
    /\ \A i \in 1..off[Peer] : log[i] \in got

\* What the chat's own offset has passed it has printed, or skipped when it
\* joined or was started, unless a command went by while a drain waited to
\* save its cursor.
NothingUnseen ==
  (up /\ joined /\ cmd.at # "forward" /\ ~lag /\ ~Rewriting) =>
    /\ off[Me] <= Len(log)
    /\ \A i \in 1..off[Me] : log[i] \in printed \cup skipped

\* No message vanishes: it is in the log or the archive, it was removed by a
\* /prune or /wipe that meant to, or it was posted in the middle of a rewrite.
Conserved ==
  \A m \in 1..posted : m \in Ids(log) \cup archive \cup removed \cup exposed

\* While the chat stays and no command goes by a drain that waits, it catches
\* up with its channel again and again: everything in the log has been printed
\* or was skipped on purpose.
Shown ==
  []<>(Ids(log) \subseteq printed \cup skipped \/ ~joined \/ ~up \/ lag)
=============================================================================
