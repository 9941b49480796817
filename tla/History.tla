------------------------------- MODULE History -------------------------------
(***************************************************************************)
(* The cache of room history (src/store.ts): a room read with too many     *)
(* messages for its window stores the older ones in a file of history/ and *)
(* hands the agent a hash, which retrieve_room_history turns into the      *)
(* messages again, for the same agent id and for thirty minutes.           *)
(*                                                                         *)
(* The file is named by a hash of the agent, the room, the number of       *)
(* messages and the first and the last time stamp: Signature is what       *)
(* these are for a batch.  Every stash starts a sweep that nobody waits    *)
(* for; it reads the files without a lock and unlinks what is empty, does  *)
(* not parse or has expired.                                               *)
(***************************************************************************)
EXTENDS Integers, FiniteSets

CONSTANTS
  Owners,         \* the agent ids
  Callers,        \* whose calls these are
  Signature,      \* Signature[b]: what the hash sees of a batch
  MaxStashes,     \* bound: batches of older messages ever stashed
  MaxExpiries,    \* bound: entries that ever pass their thirty minutes
  Empty,          \* an empty file
  Nothing

ASSUME HistoryBounds == MaxStashes \in Nat /\ MaxExpiries \in Nat

Batches == 1..MaxStashes

ASSUME SignatureAssumption == Signature \in [Batches -> Nat]

Hashes == Owners \X {Signature[b] : b \in Batches}

\* Mutant of HistoryHash: the agent is not part of what is hashed.
HistoryHashUnscoped(o, b) == <<CHOOSE x \in Owners : TRUE, Signature[b]>>

HistoryHash(o, b) == <<o, Signature[b]>>
Entries == [owner : Owners, batch : Batches, fresh : BOOLEAN]

ASSUME EntryAssumption == Entries \cap {Nothing, Empty} = {}

VARIABLES
  file,           \* file[h]: Nothing, Empty, or an entry
  unlinked,       \* hashes whose file is gone while a writer has it open
  stash,          \* a caller's stash: where it is, and what it stores
  sweep,          \* a sweep: whether it is still to read the files, and the
                  \* ones it has to unlink
  fetch,          \* a retrieve that found an entry expired: its hash
  handed,         \* handed[c]: the last digest a caller was handed
  stashes, expiries, \* history: how many there were
  old,            \* history: hashes whose last entry has expired
  hurt            \* history: hashes unlinked after they were looked at and
                  \* changed, while they were being written, or by a /rollover,
                  \* and those whose writer died

historyVars == <<file, unlinked, stash, sweep, fetch, handed, stashes, expiries, old, hurt>>

NoSweep == [due |-> FALSE, dead |-> {}]
NoStash == [at |-> "idle", owner |-> Nothing, batch |-> Nothing]
Hash(c) == HistoryHash(stash[c].owner, stash[c].batch)
Holding(h) == {c \in Callers : stash[c].at \in {"open", "write"} /\ Hash(c) = h}
Writing(h) == {c \in Callers : stash[c].at = "write" /\ Hash(c) = h}

HistoryInit ==
  /\ file = [h \in Hashes |-> Nothing]
  /\ unlinked = {}
  /\ stash = [c \in Callers |-> NoStash]
  /\ sweep = [c \in Callers |-> NoSweep]
  /\ fetch = [c \in Callers |-> Nothing]
  /\ handed = [c \in Callers |-> Nothing]
  /\ stashes = 0 /\ expiries = 0 /\ old = {} /\ hurt = {}

-----------------------------------------------------------------------------
(* stashHistory                                                            *)

\* A read with an overflow: withLock makes the file, empty, if it is missing.
StashBegins(c, o) ==
  LET b == stashes + 1 IN
  /\ stash[c] = NoStash /\ stashes < MaxStashes
  /\ stash' = [stash EXCEPT ![c] = [at |-> "lock", owner |-> o, batch |-> b]]
  /\ file' = [file EXCEPT ![HistoryHash(o, b)] = IF @ = Nothing THEN Empty ELSE @]
  /\ stashes' = b
  /\ UNCHANGED <<unlinked, sweep, fetch, handed, expiries, old, hurt>>

\* The lock needs the file to be there; the read fails if it is not.
StashLocks(c) ==
  /\ stash[c].at = "lock"
  /\ file[Hash(c)] # Nothing => Holding(Hash(c)) = {}
  /\ stash' = [stash EXCEPT ![c] =
       IF file[Hash(c)] = Nothing THEN NoStash ELSE [@ EXCEPT !.at = "open"]]
  /\ UNCHANGED <<file, unlinked, sweep, fetch, handed, stashes, expiries, old, hurt>>

\* writeFile opens the file, or makes it again, and empties it.
StashOpens(c) ==
  /\ stash[c].at = "open"
  /\ file' = [file EXCEPT ![Hash(c)] = Empty]
  /\ stash' = [stash EXCEPT ![c].at = "write"]
  /\ UNCHANGED <<unlinked, sweep, fetch, handed, stashes, expiries, old, hurt>>

\* What is written to a file that was unlinked is gone with it.
StashWrites(c) ==
  /\ stash[c].at = "write"
  /\ file' = IF Hash(c) \in unlinked THEN file
             ELSE [file EXCEPT ![Hash(c)] =
                     [owner |-> stash[c].owner, batch |-> stash[c].batch, fresh |-> TRUE]]
  /\ unlinked' = unlinked \ {Hash(c)}
  /\ stash' = [stash EXCEPT ![c].at = "reply"]
  /\ hurt' = IF Hash(c) \in unlinked THEN hurt ELSE hurt \ {Hash(c)}
  /\ old' = old \ {Hash(c)}
  /\ UNCHANGED <<sweep, fetch, handed, stashes, expiries>>

\* The reply carries the hash; the sweep is left to itself.
StashReplies(c) ==
  /\ stash[c].at = "reply" /\ sweep[c] = NoSweep
  /\ handed' = [handed EXCEPT ![c] = [hash |-> Hash(c), owner |-> stash[c].owner,
                                      batch |-> stash[c].batch]]
  /\ sweep' = [sweep EXCEPT ![c].due = TRUE]
  /\ stash' = [stash EXCEPT ![c] = NoStash]
  /\ UNCHANGED <<file, unlinked, fetch, stashes, expiries, old, hurt>>

-----------------------------------------------------------------------------
(* Time, the sweep, and retrieve_room_history                              *)

Expire(h) ==
  /\ expiries < MaxExpiries
  /\ file[h] \in Entries /\ file[h].fresh
  /\ file' = [file EXCEPT ![h].fresh = FALSE]
  /\ expiries' = expiries + 1
  /\ old' = old \cup {h}
  /\ UNCHANGED <<unlinked, stash, sweep, fetch, handed, stashes, hurt>>

Fresh(h) == file[h] \in Entries /\ file[h].fresh

\* All files are read at once; each is judged by itself.
SweepReads(c) ==
  /\ sweep[c].due
  /\ sweep' = [sweep EXCEPT ![c] =
       [due |-> FALSE, dead |-> {h \in Hashes : file[h] # Nothing /\ ~Fresh(h)}]]
  /\ UNCHANGED <<file, unlinked, stash, fetch, handed, stashes, expiries, old, hurt>>

\* An unlink hits what is there by now: a newer entry, or a file that is being
\* written.
Unlinks(h) ==
  /\ file' = [file EXCEPT ![h] = Nothing]
  /\ unlinked' = IF file[h] # Nothing /\ Writing(h) # {} THEN unlinked \cup {h} ELSE unlinked

SweepUnlinks(c, h) ==
  /\ h \in sweep[c].dead
  /\ Unlinks(h)
  /\ hurt' = IF Fresh(h) \/ Writing(h) # {} THEN hurt \cup {h} ELSE hurt
  /\ sweep' = [sweep EXCEPT ![c].dead = @ \ {h}]
  /\ UNCHANGED <<stash, fetch, handed, stashes, expiries, old>>

\* A /rollover of coord-chat unlinks every file it finds, whatever is in it.
RolloverClears(h) ==
  /\ file[h] # Nothing
  /\ Unlinks(h)
  /\ hurt' = hurt \cup {h}
  /\ UNCHANGED <<stash, sweep, fetch, handed, stashes, expiries, old>>

\* A retrieve that finds an expired entry deletes it ...
RetrieveExpired(c, h) ==
  /\ fetch[c] = Nothing
  /\ handed[c] # Nothing /\ handed[c].hash = h
  /\ file[h] \in Entries /\ ~file[h].fresh
  /\ fetch' = [fetch EXCEPT ![c] = h]
  /\ UNCHANGED <<file, unlinked, stash, sweep, handed, stashes, expiries, old, hurt>>

\* ... whatever it has become.
RetrieveDeletes(c) ==
  /\ fetch[c] # Nothing
  /\ Unlinks(fetch[c])
  /\ hurt' = IF Fresh(fetch[c]) \/ Writing(fetch[c]) # {} THEN hurt \cup {fetch[c]} ELSE hurt
  /\ fetch' = [fetch EXCEPT ![c] = Nothing]
  /\ UNCHANGED <<stash, sweep, handed, stashes, expiries, old>>

\* The calls and the sweeps end with the server.
HistoryDies ==
  /\ hurt' = hurt \cup {h \in Hashes : Writing(h) # {}}
  /\ stash' = [c \in Callers |-> NoStash]
  /\ sweep' = [c \in Callers |-> NoSweep]
  /\ fetch' = [c \in Callers |-> Nothing]
  /\ unlinked' = {}
  /\ UNCHANGED <<file, handed, stashes, expiries, old>>

\* What retrieve_room_history gives an agent that goes by id o: not_found,
\* expired and forbidden are Nothing.
Retrieved(o, h) ==
  IF Fresh(h) /\ file[h].owner = o THEN file[h].batch ELSE Nothing

HistoryTypeOK ==
  /\ file \in [Hashes -> Entries \cup {Nothing, Empty}]
  /\ unlinked \subseteq Hashes
  /\ stash \in [Callers -> [at : {"idle", "lock", "open", "write", "reply"},
                            owner : Owners \cup {Nothing}, batch : Batches \cup {Nothing}]]
  /\ \A c \in Callers :
       stash[c].at # "idle" => stash[c].owner \in Owners /\ stash[c].batch \in Batches
  /\ sweep \in [Callers -> [due : BOOLEAN, dead : SUBSET Hashes]]
  /\ fetch \in [Callers -> Hashes \cup {Nothing}]
  /\ handed \in [Callers -> [hash : Hashes, owner : Owners, batch : Batches] \cup {Nothing}]
  /\ stashes \in 0..MaxStashes
=============================================================================
