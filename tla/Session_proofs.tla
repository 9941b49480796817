---------------------------- MODULE Session_proofs ----------------------------
(***************************************************************************)
(* What holds of the server's sessions for any number of ids, clients,     *)
(* sessions, renames and restarts.                                         *)
(***************************************************************************)
EXTENDS Session, TLAPS


-----------------------------------------------------------------------------
(* The history cache alone: what its every step preserves, for any ids,     *)
(* callers and batches and whatever their signatures are                    *)

\* A digest stands: its file has a fresh entry, or is about to get one, or the
\* entry expired or was unlinked where it should not.
Stands(h) == h \in old \cup hurt \/ Writing(h) # {} \/ Fresh(h)

\* The digests that were handed out, or are in a reply that is being made.
Given ==
  {h \in Hashes : \E c \in Callers :
     \/ handed[c] # Nothing /\ handed[c].hash = h
     \/ stash[c].at = "reply" /\ Hash(c) = h}

Named ==
  /\ \A h \in Hashes : file[h] \in Entries => HistoryHash(file[h].owner, file[h].batch) = h
  /\ \A c \in Callers : handed[c] # Nothing =>
       HistoryHash(handed[c].owner, handed[c].batch) = handed[c].hash

HistoryInv ==
  /\ HistoryTypeOK
  /\ Named
  /\ unlinked \subseteq hurt
  /\ \A h \in Given : Stands(h)

LEMMA HashType ==
  ASSUME NEW o \in Owners, NEW b \in Batches
  PROVE  HistoryHash(o, b) \in Hashes
BY DEF HistoryHash, Hashes

LEMMA HistoryInvInit == HistoryInit => HistoryInv
<1> SUFFICES ASSUME HistoryInit PROVE HistoryInv
  OBVIOUS
<1> USE DEF HistoryInit
<1>1. stash \in [Callers -> [at : {"idle", "lock", "open", "write", "reply"},
                             owner : Owners \cup {Nothing}, batch : Batches \cup {Nothing}]]
  BY DEF NoStash
<1>2. \A c \in Callers : stash[c].at = "idle" /\ handed[c] = Nothing
  BY DEF NoStash
<1>3. sweep \in [Callers -> [due : BOOLEAN, dead : SUBSET Hashes]]
  BY DEF NoSweep
<1>4. HistoryTypeOK
  BY <1>1, <1>2, <1>3, HistoryBounds DEF HistoryTypeOK
<1>5. \A h \in Hashes : file[h] \notin Entries
  BY EntryAssumption
<1>6. Given = {}
  BY <1>2 DEF Given
<1> QED
  BY <1>2, <1>4, <1>5, <1>6 DEF HistoryInv, Named

-----------------------------------------------------------------------------
(* stashHistory                                                            *)

LEMMA StashBeginsInv ==
  ASSUME HistoryInv, NEW c \in Callers, NEW o \in Owners, StashBegins(c, o)
  PROVE  HistoryInv'
<1> DEFINE b == stashes + 1
           k == HistoryHash(o, b)
           new == [at |-> "lock", owner |-> o, batch |-> b]
<1>1. b \in Batches /\ b \in 0..MaxStashes
  BY HistoryBounds DEF StashBegins, HistoryInv, HistoryTypeOK, Batches
<1>2. k \in Hashes
  BY <1>1, HashType
<1>3. /\ stash[c] = NoStash /\ stash' = [stash EXCEPT ![c] = new]
      /\ file' = [file EXCEPT ![k] = IF file[k] = Nothing THEN Empty ELSE file[k]]
      /\ stashes' = b
      /\ UNCHANGED <<unlinked, sweep, fetch, handed, expiries, old, hurt>>
  BY DEF StashBegins
<1> HIDE DEF k, b
<1>4. stash'[c] = new /\ \A x \in Callers \ {c} : stash'[x] = stash[x]
  BY <1>3 DEF HistoryInv, HistoryTypeOK
<1>5. \A h \in Hashes : file'[h] = IF h = k /\ file[h] = Nothing THEN Empty ELSE file[h]
  BY <1>3 DEF HistoryInv, HistoryTypeOK
<1>6. HistoryTypeOK'
  <2>1. file' \in [Hashes -> Entries \cup {Nothing, Empty}]
    BY <1>3, <1>5 DEF HistoryInv, HistoryTypeOK
  <2>2. stash' \in [Callers -> [at : {"idle", "lock", "open", "write", "reply"},
                                owner : Owners \cup {Nothing}, batch : Batches \cup {Nothing}]]
    BY <1>1, <1>3 DEF HistoryInv, HistoryTypeOK
  <2>3. \A x \in Callers :
          stash'[x].at # "idle" => stash'[x].owner \in Owners /\ stash'[x].batch \in Batches
    BY SMTT(30), <1>1, <1>4 DEF HistoryInv, HistoryTypeOK
  <2> QED
    BY <1>1, <1>3, <2>1, <2>2, <2>3 DEF HistoryInv, HistoryTypeOK
<1>7. Named'
  BY <1>3, <1>5, EntryAssumption DEF HistoryInv, Named
<1>8. \A x \in Callers \ {c} : Hash(x)' = Hash(x)
  BY <1>4 DEF Hash
<1>9. ASSUME NEW h \in Hashes, Stands(h) PROVE Stands(h)'
  <2>1. Writing(h) \subseteq Writing(h)'
    BY <1>3, <1>4, <1>8 DEF Writing, NoStash
  <2>2. Fresh(h) => Fresh(h)'
    BY <1>5, EntryAssumption DEF Fresh
  <2> QED
    BY <1>3, <1>9, <2>1, <2>2 DEF Stands
<1>10. Given' \subseteq Given
  BY <1>3, <1>4, <1>8 DEF Given
<1> QED
  BY <1>3, <1>6, <1>7, <1>9, <1>10 DEF HistoryInv, Given

\* A stash that goes on keeps what it stores.
LEMMA StashMoves ==
  ASSUME HistoryInv, NEW c \in Callers, NEW at \in {"open", "write", "reply"},
         stash[c].at # "idle", stash' = [stash EXCEPT ![c] = [@ EXCEPT !.at = at]]
  PROVE  /\ stash' \in [Callers -> [at : {"idle", "lock", "open", "write", "reply"},
                           owner : Owners \cup {Nothing}, batch : Batches \cup {Nothing}]]
         /\ \A x \in Callers :
              stash'[x].at # "idle" => stash'[x].owner \in Owners /\ stash'[x].batch \in Batches
         /\ stash'[c].at = at /\ \A x \in Callers \ {c} : stash'[x] = stash[x]
         /\ \A x \in Callers : Hash(x)' = Hash(x)
         /\ Hash(c) \in Hashes
<1>1. stash[c] \in [at : {"idle", "lock", "open", "write", "reply"},
                    owner : Owners \cup {Nothing}, batch : Batches \cup {Nothing}]
  BY DEF HistoryInv, HistoryTypeOK
<1>2. stash[c].owner \in Owners /\ stash[c].batch \in Batches
  BY DEF HistoryInv, HistoryTypeOK
<1>3. stash'[c] = [stash[c] EXCEPT !.at = at]
  BY DEF HistoryInv, HistoryTypeOK
<1>4. stash'[c] = [at |-> at, owner |-> stash[c].owner, batch |-> stash[c].batch]
  BY <1>1, <1>3
<1>5. \A x \in Callers \ {c} : stash'[x] = stash[x]
  BY DEF HistoryInv, HistoryTypeOK
<1>6. stash' \in [Callers -> [at : {"idle", "lock", "open", "write", "reply"},
                     owner : Owners \cup {Nothing}, batch : Batches \cup {Nothing}]]
  BY <1>1, <1>4 DEF HistoryInv, HistoryTypeOK
<1>7. \A x \in Callers :
        stash'[x].at # "idle" => stash'[x].owner \in Owners /\ stash'[x].batch \in Batches
  BY <1>2, <1>4, <1>5 DEF HistoryInv, HistoryTypeOK
<1>8. \A x \in Callers : Hash(x)' = Hash(x)
  BY <1>4, <1>5 DEF Hash
<1> QED
  BY <1>2, <1>4, <1>5, <1>6, <1>7, <1>8, HashType DEF Hash

\* A caller that gives up its stash, or has replied, writes nothing.
LEMMA StashEnds ==
  ASSUME HistoryInv, NEW c \in Callers, stash' = [stash EXCEPT ![c] = NoStash]
  PROVE  /\ stash' \in [Callers -> [at : {"idle", "lock", "open", "write", "reply"},
                           owner : Owners \cup {Nothing}, batch : Batches \cup {Nothing}]]
         /\ \A x \in Callers :
              stash'[x].at # "idle" => stash'[x].owner \in Owners /\ stash'[x].batch \in Batches
         /\ stash'[c].at = "idle" /\ \A x \in Callers \ {c} : stash'[x] = stash[x]
         /\ \A x \in Callers \ {c} : Hash(x)' = Hash(x)
<1>1. stash'[c] = NoStash /\ \A x \in Callers \ {c} : stash'[x] = stash[x]
  BY DEF HistoryInv, HistoryTypeOK
<1>2. stash' \in [Callers -> [at : {"idle", "lock", "open", "write", "reply"},
                     owner : Owners \cup {Nothing}, batch : Batches \cup {Nothing}]]
  BY DEF HistoryInv, HistoryTypeOK, NoStash
<1> QED
  BY <1>1, <1>2 DEF HistoryInv, HistoryTypeOK, Hash, NoStash

LEMMA StashLocksInv ==
  ASSUME HistoryInv, NEW c \in Callers, StashLocks(c)
  PROVE  HistoryInv'
<1>1. stash[c].at = "lock" /\ UNCHANGED <<file, unlinked, sweep, fetch, handed, stashes, old, hurt>>
  BY DEF StashLocks
<1>2. /\ stash' \in [Callers -> [at : {"idle", "lock", "open", "write", "reply"},
                        owner : Owners \cup {Nothing}, batch : Batches \cup {Nothing}]]
      /\ \A x \in Callers :
           stash'[x].at # "idle" => stash'[x].owner \in Owners /\ stash'[x].batch \in Batches
      /\ stash'[c].at \in {"idle", "open"} /\ \A x \in Callers \ {c} : stash'[x] = stash[x]
      /\ \A x \in Callers \ {c} : Hash(x)' = Hash(x)
  <2>1. CASE file[Hash(c)] = Nothing
    BY <2>1, StashEnds DEF StashLocks
  <2>2. CASE file[Hash(c)] # Nothing
    <3>1. stash' = [stash EXCEPT ![c] = [@ EXCEPT !.at = "open"]]
      BY <2>2 DEF StashLocks
    <3> QED
      BY <3>1, <1>1, StashMoves
  <2> QED
    BY <2>1, <2>2
<1>3. HistoryTypeOK'
  BY <1>1, <1>2 DEF HistoryInv, HistoryTypeOK
<1>4. ASSUME NEW h \in Hashes, Stands(h) PROVE Stands(h)'
  <2>1. Writing(h) \subseteq Writing(h)'
    BY <1>1, <1>2 DEF Writing
  <2> QED
    BY <1>1, <1>4, <2>1 DEF Stands, Fresh
<1>5. Given' \subseteq Given
  BY <1>1, <1>2 DEF Given
<1> QED
  BY <1>1, <1>3, <1>4, <1>5 DEF HistoryInv, Given, Named

LEMMA StashOpensInv ==
  ASSUME HistoryInv, NEW c \in Callers, StashOpens(c)
  PROVE  HistoryInv'
<1> DEFINE k == Hash(c)
<1>1. /\ stash[c].at = "open" /\ stash' = [stash EXCEPT ![c] = [@ EXCEPT !.at = "write"]]
      /\ file' = [file EXCEPT ![k] = Empty]
      /\ UNCHANGED <<unlinked, sweep, fetch, handed, stashes, expiries, old, hurt>>
  BY DEF StashOpens
<1>2. /\ stash' \in [Callers -> [at : {"idle", "lock", "open", "write", "reply"},
                        owner : Owners \cup {Nothing}, batch : Batches \cup {Nothing}]]
      /\ \A x \in Callers :
           stash'[x].at # "idle" => stash'[x].owner \in Owners /\ stash'[x].batch \in Batches
      /\ stash'[c].at = "write" /\ \A x \in Callers \ {c} : stash'[x] = stash[x]
      /\ \A x \in Callers : Hash(x)' = Hash(x)
      /\ k \in Hashes
  BY <1>1, StashMoves
<1>3. file'[k] = Empty /\ \A h \in Hashes \ {k} : file'[h] = file[h]
  BY <1>1, <1>2 DEF HistoryInv, HistoryTypeOK
<1>4. HistoryTypeOK'
  <2>1. file' \in [Hashes -> Entries \cup {Nothing, Empty}]
    BY <1>1, <1>2 DEF HistoryInv, HistoryTypeOK
  <2> QED
    BY <1>1, <1>2, <2>1 DEF HistoryInv, HistoryTypeOK
<1>5. Named'
  BY <1>1, <1>3, EntryAssumption DEF HistoryInv, Named
<1>6. ASSUME NEW h \in Hashes, Stands(h) PROVE Stands(h)'
  <2>1. Writing(h) \subseteq Writing(h)'
    BY <1>1, <1>2 DEF Writing
  <2>2. CASE h = k
    BY <2>2, <1>2 DEF Stands, Writing
  <2>3. CASE h # k
    BY <2>1, <2>3, <1>1, <1>3, <1>6 DEF Stands, Fresh
  <2> QED
    BY <2>2, <2>3
<1>7. Given' \subseteq Given
  BY <1>1, <1>2 DEF Given
<1> QED
  BY <1>1, <1>4, <1>5, <1>6, <1>7 DEF HistoryInv, Given

\* A writer whose file was unlinked leaves the digest hurt; any other makes it
\* stand.
LEMMA StashWritesInv ==
  ASSUME HistoryInv, NEW c \in Callers, StashWrites(c)
  PROVE  HistoryInv'
<1> DEFINE k == Hash(c)
           new == [owner |-> stash[c].owner, batch |-> stash[c].batch, fresh |-> TRUE]
<1>1. /\ stash[c].at = "write" /\ stash' = [stash EXCEPT ![c] = [@ EXCEPT !.at = "reply"]]
      /\ file' = IF k \in unlinked THEN file ELSE [file EXCEPT ![k] = new]
      /\ unlinked' = unlinked \ {k}
      /\ hurt' = IF k \in unlinked THEN hurt ELSE hurt \ {k}
      /\ old' = old \ {k}
      /\ UNCHANGED <<sweep, fetch, handed, stashes>>
  BY DEF StashWrites
<1>2. /\ stash' \in [Callers -> [at : {"idle", "lock", "open", "write", "reply"},
                        owner : Owners \cup {Nothing}, batch : Batches \cup {Nothing}]]
      /\ \A x \in Callers :
           stash'[x].at # "idle" => stash'[x].owner \in Owners /\ stash'[x].batch \in Batches
      /\ stash'[c].at = "reply" /\ \A x \in Callers \ {c} : stash'[x] = stash[x]
      /\ \A x \in Callers : Hash(x)' = Hash(x)
      /\ k \in Hashes
  BY <1>1, StashMoves
<1>3. new \in Entries /\ new.fresh /\ HistoryHash(new.owner, new.batch) = k
  BY <1>1 DEF HistoryInv, HistoryTypeOK, Entries, Hash
<1>4. /\ \A h \in Hashes \ {k} : file'[h] = file[h]
      /\ file'[k] = IF k \in unlinked THEN file[k] ELSE new
  BY <1>1, <1>2 DEF HistoryInv, HistoryTypeOK
<1> HIDE DEF new
<1>5. HistoryTypeOK'
  <2>1. file' \in [Hashes -> Entries \cup {Nothing, Empty}]
    BY <1>1, <1>2, <1>3 DEF HistoryInv, HistoryTypeOK
  <2> QED
    BY <1>1, <1>2, <2>1 DEF HistoryInv, HistoryTypeOK
<1>6. Named'
  BY <1>1, <1>2, <1>3, <1>4 DEF HistoryInv, Named
<1>7. unlinked' \subseteq hurt'
  BY <1>1 DEF HistoryInv
<1>8. Stands(k)'
  <2>1. CASE k \in unlinked
    BY <2>1, <1>1 DEF HistoryInv, Stands, Hash
  <2>2. CASE k \notin unlinked
    BY <2>2, <1>2, <1>3, <1>4 DEF Stands, Fresh
  <2> QED
    BY <2>1, <2>2
<1>9. ASSUME NEW h \in Hashes, Stands(h), h # k PROVE Stands(h)'
  <2>1. Writing(h) \subseteq Writing(h)'
    BY <1>2, <1>9 DEF Writing
  <2> QED
    BY <1>1, <1>4, <1>9, <2>1 DEF Stands, Fresh
<1>10. Given' \subseteq Given \cup {k}
  BY <1>1, <1>2 DEF Given
<1> QED
  BY <1>2, <1>5, <1>6, <1>7, <1>8, <1>9, <1>10 DEF HistoryInv, Given

LEMMA StashRepliesInv ==
  ASSUME HistoryInv, NEW c \in Callers, StashReplies(c)
  PROVE  HistoryInv'
<1> DEFINE d == [hash |-> Hash(c), owner |-> stash[c].owner, batch |-> stash[c].batch]
<1>1. /\ stash[c].at = "reply" /\ stash' = [stash EXCEPT ![c] = NoStash]
      /\ handed' = [handed EXCEPT ![c] = d] /\ sweep' = [sweep EXCEPT ![c].due = TRUE]
      /\ UNCHANGED <<file, unlinked, fetch, stashes, old, hurt>>
  BY DEF StashReplies
<1>2. /\ stash' \in [Callers -> [at : {"idle", "lock", "open", "write", "reply"},
                        owner : Owners \cup {Nothing}, batch : Batches \cup {Nothing}]]
      /\ \A x \in Callers :
           stash'[x].at # "idle" => stash'[x].owner \in Owners /\ stash'[x].batch \in Batches
      /\ stash'[c].at = "idle" /\ \A x \in Callers \ {c} : stash'[x] = stash[x]
      /\ \A x \in Callers \ {c} : Hash(x)' = Hash(x)
  BY <1>1, StashEnds
<1>3. /\ stash[c].owner \in Owners /\ stash[c].batch \in Batches /\ Hash(c) \in Hashes
      /\ HistoryHash(d.owner, d.batch) = d.hash
  BY <1>1, HashType DEF HistoryInv, HistoryTypeOK, Hash
<1>4. handed'[c] = d /\ \A x \in Callers \ {c} : handed'[x] = handed[x]
  BY <1>1 DEF HistoryInv, HistoryTypeOK
<1>5. HistoryTypeOK'
  <2>1. handed' \in [Callers -> [hash : Hashes, owner : Owners, batch : Batches] \cup {Nothing}]
    BY <1>1, <1>3 DEF HistoryInv, HistoryTypeOK
  <2>2. sweep' \in [Callers -> [due : BOOLEAN, dead : SUBSET Hashes]]
    BY <1>1 DEF HistoryInv, HistoryTypeOK
  <2> QED
    BY <1>1, <1>2, <2>1, <2>2 DEF HistoryInv, HistoryTypeOK
<1>6. Named'
  BY <1>1, <1>3, <1>4 DEF HistoryInv, Named
<1>7. ASSUME NEW h \in Hashes, Stands(h) PROVE Stands(h)'
  <2>1. Writing(h) \subseteq Writing(h)'
    BY <1>1, <1>2 DEF Writing
  <2> QED
    BY <1>1, <1>7, <2>1 DEF Stands, Fresh
<1>8. Given' \subseteq Given
  BY <1>1, <1>2, <1>3, <1>4 DEF Given
<1> QED
  BY <1>1, <1>5, <1>6, <1>7, <1>8 DEF HistoryInv, Given

-----------------------------------------------------------------------------
(* Time, the sweep, and retrieve_room_history                              *)

LEMMA ExpireInv ==
  ASSUME HistoryInv, NEW k \in Hashes, Expire(k)
  PROVE  HistoryInv'
<1>1. /\ file[k] \in Entries /\ file' = [file EXCEPT ![k] = [@ EXCEPT !.fresh = FALSE]]
      /\ old' = old \cup {k}
      /\ UNCHANGED <<unlinked, stash, sweep, fetch, handed, stashes, hurt>>
  BY DEF Expire
<1>2. file'[k] = [file[k] EXCEPT !.fresh = FALSE] /\ \A h \in Hashes \ {k} : file'[h] = file[h]
  BY <1>1 DEF HistoryInv, HistoryTypeOK
<1>3. file'[k] = [owner |-> file[k].owner, batch |-> file[k].batch, fresh |-> FALSE]
  <2>1. file[k] \in [owner : Owners, batch : Batches, fresh : BOOLEAN]
    BY <1>1 DEF Entries
  <2> QED
    BY <1>2, <2>1
<1>4. HistoryTypeOK'
  <2>1. file'[k] \in Entries
    <3>1. file[k].owner \in Owners /\ file[k].batch \in Batches
      BY <1>1 DEF Entries
    <3> QED
      BY <1>3, <3>1 DEF Entries
  <2>2. file' \in [Hashes -> Entries \cup {Nothing, Empty}]
    BY <1>1, <1>2, <2>1 DEF HistoryInv, HistoryTypeOK
  <2> QED
    BY <1>1, <2>2 DEF HistoryInv, HistoryTypeOK
<1>5. Named'
  BY <1>1, <1>2, <1>3 DEF HistoryInv, Named
<1>6. \A h \in Hashes : Writing(h)' = Writing(h)
  BY <1>1 DEF Writing, Hash
<1>7. ASSUME NEW h \in Hashes, Stands(h) PROVE Stands(h)'
  BY <1>1, <1>2, <1>6, <1>7 DEF Stands, Fresh
<1>8. Given' = Given
  BY <1>1 DEF Given, Hash
<1> QED
  BY <1>1, <1>4, <1>5, <1>7, <1>8 DEF HistoryInv, Given

LEMMA SweepReadsInv ==
  ASSUME HistoryInv, NEW c \in Callers, SweepReads(c)
  PROVE  HistoryInv'
<1>1. /\ sweep' = [sweep EXCEPT ![c] =
           [due |-> FALSE, dead |-> {h \in Hashes : file[h] # Nothing /\ ~Fresh(h)}]]
      /\ UNCHANGED <<file, unlinked, stash, fetch, handed, stashes, expiries, old, hurt>>
  BY DEF SweepReads
<1>2. sweep' \in [Callers -> [due : BOOLEAN, dead : SUBSET Hashes]]
  BY <1>1 DEF HistoryInv, HistoryTypeOK
<1>3. HistoryTypeOK'
  BY <1>1, <1>2 DEF HistoryInv, HistoryTypeOK
<1> QED
  BY <1>1, <1>3 DEF HistoryInv, Named, Given, Stands, Writing, Hash, Fresh

\* An unlink hits what it should, or the digest is hurt.
LEMMA UnlinkInv ==
  ASSUME HistoryInv, NEW k \in Hashes, Unlinks(k),
         hurt' \in {hurt, hurt \cup {k}}, Fresh(k) \/ Writing(k) # {} => k \in hurt',
         sweep' \in [Callers -> [due : BOOLEAN, dead : SUBSET Hashes]],
         fetch' \in [Callers -> Hashes \cup {Nothing}],
         UNCHANGED <<stash, handed, stashes, old>>
  PROVE  HistoryInv'
<1>1. /\ file' = [file EXCEPT ![k] = Nothing]
      /\ unlinked' = IF file[k] # Nothing /\ Writing(k) # {} THEN unlinked \cup {k} ELSE unlinked
  BY DEF Unlinks
<1>2. file'[k] = Nothing /\ \A h \in Hashes \ {k} : file'[h] = file[h]
  BY <1>1 DEF HistoryInv, HistoryTypeOK
<1>3. HistoryTypeOK'
  <2>1. file' \in [Hashes -> Entries \cup {Nothing, Empty}]
    BY <1>1 DEF HistoryInv, HistoryTypeOK
  <2> QED
    BY <1>1, <2>1 DEF HistoryInv, HistoryTypeOK
<1>4. Named'
  BY <1>2, EntryAssumption DEF HistoryInv, Named
<1>5. unlinked' \subseteq hurt'
  BY <1>1 DEF HistoryInv
<1>6. \A h \in Hashes : Writing(h)' = Writing(h)
  BY DEF Writing, Hash
<1>7. ASSUME NEW h \in Hashes, Stands(h) PROVE Stands(h)'
  BY <1>2, <1>6, <1>7 DEF Stands, Fresh
<1>8. Given' = Given
  BY DEF Given, Hash
<1> QED
  BY <1>3, <1>4, <1>5, <1>7, <1>8 DEF HistoryInv, Given

LEMMA SweepUnlinksInv ==
  ASSUME HistoryInv, NEW c \in Callers, NEW k \in Hashes, SweepUnlinks(c, k)
  PROVE  HistoryInv'
<1>1. sweep[c] \in [due : BOOLEAN, dead : SUBSET Hashes]
  BY DEF HistoryInv, HistoryTypeOK
<1>2. sweep' = [sweep EXCEPT ![c] = [@ EXCEPT !.dead = sweep[c].dead \ {k}]]
  BY DEF SweepUnlinks
<1>3. sweep'[c] = [due |-> sweep[c].due, dead |-> sweep[c].dead \ {k}]
  <2>1. sweep'[c] = [sweep[c] EXCEPT !.dead = sweep[c].dead \ {k}]
    BY <1>2 DEF HistoryInv, HistoryTypeOK
  <2> QED
    BY <1>1, <2>1
<1>4. sweep' \in [Callers -> [due : BOOLEAN, dead : SUBSET Hashes]]
  BY <1>1, <1>2, <1>3 DEF HistoryInv, HistoryTypeOK
<1>5. fetch' \in [Callers -> Hashes \cup {Nothing}]
  BY DEF SweepUnlinks, HistoryInv, HistoryTypeOK
<1> QED
  BY <1>4, <1>5, UnlinkInv DEF SweepUnlinks

LEMMA RolloverClearsInv ==
  ASSUME HistoryInv, NEW k \in Hashes, RolloverClears(k)
  PROVE  HistoryInv'
<1>1. /\ sweep' \in [Callers -> [due : BOOLEAN, dead : SUBSET Hashes]]
      /\ fetch' \in [Callers -> Hashes \cup {Nothing}]
  BY DEF RolloverClears, HistoryInv, HistoryTypeOK
<1> QED
  BY <1>1, UnlinkInv DEF RolloverClears

LEMMA RetrieveExpiredInv ==
  ASSUME HistoryInv, NEW c \in Callers, NEW k \in Hashes, RetrieveExpired(c, k)
  PROVE  HistoryInv'
<1>1. /\ fetch' = [fetch EXCEPT ![c] = k]
      /\ UNCHANGED <<file, unlinked, stash, sweep, handed, stashes, expiries, old, hurt>>
  BY DEF RetrieveExpired
<1>2. HistoryTypeOK'
  BY <1>1 DEF HistoryInv, HistoryTypeOK
<1> QED
  BY <1>1, <1>2 DEF HistoryInv, Named, Given, Stands, Writing, Hash, Fresh

LEMMA RetrieveDeletesInv ==
  ASSUME HistoryInv, NEW c \in Callers, RetrieveDeletes(c)
  PROVE  HistoryInv'
<1>1. fetch[c] \in Hashes
  BY DEF RetrieveDeletes, HistoryInv, HistoryTypeOK
<1>2. fetch' \in [Callers -> Hashes \cup {Nothing}]
  BY DEF RetrieveDeletes, HistoryInv, HistoryTypeOK
<1>3. sweep' \in [Callers -> [due : BOOLEAN, dead : SUBSET Hashes]]
  BY DEF RetrieveDeletes, HistoryInv, HistoryTypeOK
<1> QED
  BY <1>1, <1>2, <1>3, UnlinkInv DEF RetrieveDeletes

LEMMA HistoryDiesInv == HistoryInv /\ HistoryDies => HistoryInv'
<1> SUFFICES ASSUME HistoryInv, HistoryDies PROVE HistoryInv'
  OBVIOUS
<1> USE DEF HistoryDies
<1>1. stash' \in [Callers -> [at : {"idle", "lock", "open", "write", "reply"},
                     owner : Owners \cup {Nothing}, batch : Batches \cup {Nothing}]]
  BY DEF NoStash
<1>2. \A c \in Callers : stash'[c].at = "idle"
  BY DEF NoStash
<1>3. sweep' \in [Callers -> [due : BOOLEAN, dead : SUBSET Hashes]]
  BY DEF NoSweep
<1>4. HistoryTypeOK'
  BY <1>1, <1>2, <1>3 DEF HistoryInv, HistoryTypeOK
<1>5. ASSUME NEW h \in Hashes, Stands(h) PROVE Stands(h)'
  BY <1>5 DEF Stands, Fresh
<1>6. Given' \subseteq Given
  BY <1>2 DEF Given
<1> QED
  BY <1>4, <1>5, <1>6 DEF HistoryInv, Named, Given

-----------------------------------------------------------------------------
(* Sessions: the inductive invariant                                       *)

\* The name a session has in the file: the one it is bound to, or the new one
\* from the moment its token was rotated.
FileName(s) == IF rename[s].at = "reply" THEN rename[s].new ELSE Bound(s)

\* A rename belongs to a live session and takes it from the name it is bound
\* to; tokens.json is touched only if there is one.
RenameOK(s) ==
  /\ rename[s] # NoRename =>
       /\ s \in Live
       /\ rename[s].at # "idle" /\ rename[s].old \in Ids /\ rename[s].new \in Ids
       /\ rename[s].old # rename[s].new
  /\ rename[s].at \in {"registry", "rotate", "write"} => rename[s].old = Bound(s)
  /\ rename[s].at \in {"rotate", "write"} => tokens # None

\* With a tokens.json the server has a map, every session a name, and the one
\* in the file is the one it goes by.
FileOK ==
  /\ up => (map = None <=> tokens = None)
  /\ tokens # None =>
       /\ \A s \in Live : Bound(s) # None
       /\ \A s \in Live \ outdated : tokens[session[s].token] = FileName(s)

IInv ==
  /\ IdentityTypeOK
  /\ \A s \in Sessions : RenameOK(s)
  /\ FileOK
  /\ NobodyShutOut


LEMMA IInvInit == Init => IInv
<1> SUFFICES ASSUME IdentityInit PROVE IInv
  BY DEF Init
<1>1. tokens \in Maps \cup {None} /\ (tokens # None => \A t \in Tokens : tokens[t] # None)
  BY ProvisionAssumption, NoneAssumption DEF IdentityInit, Maps
<1>2. Live = {}
  BY DEF IdentityInit, Live
<1>3. IdentityTypeOK
  <2>1. /\ session \in [Sessions -> [token : Tokens, bound : Ids \cup {None}] \cup {None}]
        /\ rename \in [Sessions -> [at : {"idle", "registry", "rotate", "write", "reply"},
                                    old : Ids \cup {None}, new : Ids \cup {None}]]
    BY DEF IdentityInit, NoRename
  <2>2. renames \in 0..MaxRenames /\ stops \in 0..MaxStops
    BY IdentityBounds DEF IdentityInit
  <2> QED
    BY <1>1, <2>1, <2>2 DEF IdentityInit, IdentityTypeOK
<1>4. \A s \in Sessions : RenameOK(s)
  BY DEF IdentityInit, RenameOK, NoRename
<1>5. FileOK
  BY <1>2 DEF IdentityInit, FileOK
<1>6. NobodyShutOut
  BY <1>1 DEF IdentityInit, NobodyShutOut
<1> QED
  BY <1>3, <1>4, <1>5, <1>6 DEF IInv

-----------------------------------------------------------------------------
(* The server                                                              *)

LEMMA ServerStartsInv == IInv /\ ServerStarts => IInv'
<1> SUFFICES ASSUME IInv, ServerStarts PROVE IInv'
  OBVIOUS
<1> USE DEF ServerStarts
<1>1. IdentityTypeOK'
  BY DEF IInv, IdentityTypeOK
<1>2. Live' = Live /\ \A s \in Sessions : RenameOK(s)' = RenameOK(s) /\ Bound(s)' = Bound(s)
                                          /\ FileName(s)' = FileName(s)
  BY DEF Live, RenameOK, Bound, FileName
<1>3. FileOK'
  BY <1>2 DEF IInv, FileOK, Live
<1>4. NobodyShutOut'
  BY DEF IInv, NobodyShutOut
<1> QED
  BY <1>1, <1>2, <1>3, <1>4 DEF IInv

LEMMA SighupInv == IInv /\ Sighup => IInv'
<1> SUFFICES ASSUME IInv, Sighup PROVE IInv'
  OBVIOUS
<1> USE DEF Sighup
<1>1. IdentityTypeOK'
  BY DEF IInv, IdentityTypeOK
<1>2. Live' = Live /\ \A s \in Sessions : RenameOK(s)' = RenameOK(s) /\ Bound(s)' = Bound(s)
                                          /\ FileName(s)' = FileName(s)
  BY DEF Live, RenameOK, Bound, FileName
<1>3. FileOK'
  BY <1>2 DEF IInv, FileOK, Live
<1>4. NobodyShutOut'
  BY DEF IInv, NobodyShutOut
<1> QED
  BY <1>1, <1>2, <1>3, <1>4 DEF IInv

\* A rename that is cut short in the middle of its write displaces everybody.
LEMMA ServerEndsInv == IInv /\ ServerEnds => IInv'
<1> SUFFICES ASSUME IInv, ServerEnds PROVE IInv'
  OBVIOUS
<1> USE DEF ServerEnds
<1>1. IdentityTypeOK'
  <2>1. /\ session' \in [Sessions -> [token : Tokens, bound : Ids \cup {None}] \cup {None}]
        /\ rename' \in [Sessions -> [at : {"idle", "registry", "rotate", "write", "reply"},
                                     old : Ids \cup {None}, new : Ids \cup {None}]]
    BY DEF NoRename
  <2>2. stops' \in 0..MaxStops
    BY IdentityBounds DEF IInv, IdentityTypeOK
  <2>3. displaced' \subseteq Tokens
    BY DEF IInv, IdentityTypeOK
  <2> QED
    BY <2>1, <2>2, <2>3 DEF IInv, IdentityTypeOK
<1>2. Live' = {}
  BY DEF Live
<1>3. \A s \in Sessions : RenameOK(s)'
  BY DEF RenameOK, NoRename
<1>4. FileOK'
  BY <1>2 DEF FileOK
<1>5. NobodyShutOut'
  BY DEF IInv, NobodyShutOut, IdentityTypeOK
<1> QED
  BY <1>1, <1>3, <1>4, <1>5 DEF IInv

-----------------------------------------------------------------------------
(* Sessions                                                                *)

LEMMA ConnectInv ==
  ASSUME IInv, NEW s \in Sessions, NEW t \in Tokens, Connect(s, t)
  PROVE  IInv'
<1> USE DEF Connect
<1> DEFINE b == IF map = None THEN None ELSE map[t]
<1>1. b \in Ids \cup {None} /\ (tokens # None => b # None /\ map # None)
  BY DEF IInv, FileOK, IdentityTypeOK, Admitted, Maps
<1>2. session' = [session EXCEPT ![s] = [token |-> t, bound |-> b]]
  OBVIOUS
<1>3. IdentityTypeOK'
  BY <1>1, <1>2 DEF IInv, IdentityTypeOK
<1>4. Live' = Live \cup {s} /\ s \notin Live
  BY <1>1, <1>2, NoneAssumption DEF Live, IInv, IdentityTypeOK
<1>5. rename[s] = NoRename
  BY <1>4 DEF IInv, RenameOK
<1>6. \A x \in Sessions \ {s} : session'[x] = session[x]
  BY <1>2 DEF IInv, IdentityTypeOK
<1>7. session'[s] = [token |-> t, bound |-> b]
  BY <1>2 DEF IInv, IdentityTypeOK
<1>8. \A x \in Sessions : RenameOK(x)'
  BY <1>4, <1>5, <1>6 DEF IInv, RenameOK, Bound, NoRename
<1>9. FileOK'
  <2>1. up' => (map' = None <=> tokens' = None)
    BY DEF IInv, FileOK
  <2>2. ASSUME tokens # None, NEW x \in Live', x # s
        PROVE  Bound(x)' # None /\ (x \notin outdated' => tokens[session[x].token]' = FileName(x)')
    BY <2>2, <1>4, <1>6 DEF IInv, FileOK, Bound, FileName
  <2>3. ASSUME tokens # None
        PROVE  Bound(s)' # None /\ (s \notin outdated' => tokens[session[s].token]' = FileName(s)')
    BY <2>3, <1>1, <1>5, <1>7 DEF Bound, FileName, NoRename
  <2> QED
    BY <2>1, <2>2, <2>3, <1>4 DEF FileOK
<1>10. NobodyShutOut'
  BY DEF IInv, NobodyShutOut
<1> QED
  BY <1>3, <1>8, <1>9, <1>10 DEF IInv

LEMMA DisconnectInv ==
  ASSUME IInv, NEW s \in Sessions, Disconnect(s)
  PROVE  IInv'
<1> USE DEF Disconnect
<1>1. IdentityTypeOK'
  BY DEF IInv, IdentityTypeOK
<1>2. Live' = Live \ {s}
  BY DEF Live, IInv, IdentityTypeOK
<1>3. \A x \in Sessions \ {s} : session'[x] = session[x]
  BY DEF IInv, IdentityTypeOK
<1>4. \A x \in Sessions : RenameOK(x)'
  BY <1>2, <1>3 DEF IInv, RenameOK, Bound, NoRename
<1>5. FileOK'
  BY <1>2, <1>3 DEF IInv, FileOK, Bound, FileName, Live
<1>6. NobodyShutOut'
  BY DEF IInv, NobodyShutOut
<1> QED
  BY <1>1, <1>4, <1>5, <1>6 DEF IInv

\* With a tokens.json every session is bound, so a call binds none anew.
LEMMA GateFact ==
  ASSUME IInv, NEW s \in Sessions, NEW id \in Ids, Gate(s, id)
  PROVE  /\ session' \in [Sessions -> [token : Tokens, bound : Ids \cup {None}] \cup {None}]
         /\ Live' = Live /\ s \in Live /\ rename[s] = NoRename
         /\ \A x \in Sessions \ {s} : session'[x] = session[x]
         /\ session'[s].token = session[s].token /\ session'[s].bound = id
         /\ tokens # None => session'[s] = session[s]
<1> USE DEF Gate
<1>1. s \in Live /\ session[s] \in [token : Tokens, bound : Ids \cup {None}]
  BY DEF Live, IInv, IdentityTypeOK
<1>2. session'[s] = [session[s] EXCEPT !.bound = id]
  BY DEF IInv, IdentityTypeOK
<1>3. session'[s] = [token |-> session[s].token, bound |-> id]
  BY <1>1, <1>2
<1>4. session' \in [Sessions -> [token : Tokens, bound : Ids \cup {None}] \cup {None}]
  BY <1>1, <1>3 DEF IInv, IdentityTypeOK
<1>5. \A x \in Sessions \ {s} : session'[x] = session[x]
  BY DEF IInv, IdentityTypeOK
<1>6. Live' = Live
  BY <1>1, <1>3, <1>5, NoneAssumption DEF Live
<1>7. tokens # None => session'[s] = session[s]
  BY <1>1, <1>3 DEF IInv, FileOK, Bound
<1> QED
  BY <1>1, <1>3, <1>4, <1>5, <1>6, <1>7

\* Any call that leaves the tokens and the renames alone.
LEMMA GateInv ==
  ASSUME IInv, NEW s \in Sessions, NEW id \in Ids, Gate(s, id),
         registered' \subseteq Ids,
         UNCHANGED <<tokens, torn, up, map, rename, renames, stops, outdated, displaced>>
  PROVE  IInv'
<1>1. IdentityTypeOK'
  BY GateFact DEF IInv, IdentityTypeOK
<1>2. \A x \in Sessions : RenameOK(x)'
  BY GateFact DEF IInv, RenameOK, Bound, NoRename
<1>3. FileOK'
  BY GateFact DEF IInv, FileOK, Bound, FileName, Live
<1>4. NobodyShutOut'
  BY DEF IInv, NobodyShutOut
<1> QED
  BY <1>1, <1>2, <1>3, <1>4 DEF IInv

-----------------------------------------------------------------------------
(* rename_agent                                                            *)

LEMMA RenameBeginsInv ==
  ASSUME IInv, NEW s \in Sessions, NEW id \in Ids, NEW new \in Ids,
         RenameBegins(s, id, new)
  PROVE  IInv'
<1> DEFINE r == [at |-> "registry", old |-> id, new |-> new]
<1>1. Gate(s, id) /\ id # new /\ renames < MaxRenames /\ renames' = renames + 1
  BY DEF RenameBegins
<1>2. UNCHANGED <<tokens, torn, up, map, registered, stops, outdated, displaced>>
  BY DEF RenameBegins
<1>3. rename' = [rename EXCEPT ![s] = r]
  BY DEF RenameBegins
<1>4. rename'[s] = r /\ \A x \in Sessions \ {s} : rename'[x] = rename[x]
  BY <1>3 DEF IInv, IdentityTypeOK
<1>5. IdentityTypeOK'
  <2>1. renames' \in 0..MaxRenames
    BY <1>1, IdentityBounds DEF IInv, IdentityTypeOK
  <2>2. rename' \in [Sessions -> [at : {"idle", "registry", "rotate", "write", "reply"},
                                  old : Ids \cup {None}, new : Ids \cup {None}]]
    BY <1>3 DEF IInv, IdentityTypeOK
  <2> QED
    BY <1>1, <1>2, <2>1, <2>2, GateFact DEF IInv, IdentityTypeOK
<1>6. ASSUME NEW x \in Sessions PROVE RenameOK(x)'
  <2>1. CASE x = s
    BY <2>1, <1>1, <1>4, GateFact DEF RenameOK, Bound, NoRename
  <2>2. CASE x # s
    BY <2>2, <1>1, <1>2, <1>4, GateFact DEF IInv, RenameOK, Bound
  <2> QED
    BY <2>1, <2>2
<1>7. FileOK'
  <2>1. tokens # None => \A x \in Live : session'[x] = session[x]
    BY <1>1, GateFact DEF Live
  <2>2. \A x \in Live : tokens # None => FileName(x)' = FileName(x)
    BY <2>1, <1>1, <1>4, GateFact DEF FileName, Bound, NoRename, Live
  <2> QED
    BY <1>1, <1>2, <2>1, <2>2, GateFact DEF IInv, FileOK, Bound
<1>8. NobodyShutOut'
  <2>1. \A x \in Sessions : rename[x].at = "write" => rename'[x].at = "write"
    BY <1>1, <1>4, GateFact DEF NoRename
  <2> QED
    BY <1>2, <2>1 DEF IInv, NobodyShutOut
<1> QED
  BY <1>5, <1>6, <1>7, <1>8 DEF IInv

\* A step inside a rename: all but the place it has come to is as it was.
LEMMA RenameMoves ==
  ASSUME IInv, NEW s \in Sessions, NEW at \in {"rotate", "write", "reply"},
         rename[s].at # "idle", rename' = [rename EXCEPT ![s].at = at]
  PROVE  /\ rename' \in [Sessions -> [at : {"idle", "registry", "rotate", "write", "reply"},
                                      old : Ids \cup {None}, new : Ids \cup {None}]]
         /\ rename'[s] = [at |-> at, old |-> rename[s].old, new |-> rename[s].new]
         /\ rename'[s] # NoRename
         /\ \A x \in Sessions \ {s} : rename'[x] = rename[x]
         /\ s \in Live /\ rename[s].old \in Ids /\ rename[s].new \in Ids
         /\ rename[s].old # rename[s].new
         /\ rename[s].at \in {"registry", "rotate", "write"} => rename[s].old = Bound(s)
<1>1. rename[s] \in [at : {"idle", "registry", "rotate", "write", "reply"},
                     old : Ids \cup {None}, new : Ids \cup {None}]
  BY DEF IInv, IdentityTypeOK
<1>2. rename'[s] = [rename[s] EXCEPT !.at = at]
  BY DEF IInv, IdentityTypeOK
<1>3. rename'[s] = [at |-> at, old |-> rename[s].old, new |-> rename[s].new]
  BY <1>1, <1>2
<1>4. rename'[s] # NoRename
  BY <1>3 DEF NoRename
<1>5. rename[s] # NoRename
  BY DEF NoRename
<1>6. rename' \in [Sessions -> [at : {"idle", "registry", "rotate", "write", "reply"},
                                old : Ids \cup {None}, new : Ids \cup {None}]]
  BY <1>1, <1>3 DEF IInv, IdentityTypeOK
<1> QED
  BY <1>3, <1>4, <1>5, <1>6 DEF IInv, IdentityTypeOK, RenameOK

LEMMA RenameRegistryInv ==
  ASSUME IInv, NEW s \in Sessions, RenameRegistry(s)
  PROVE  IInv'
<1> DEFINE at == IF tokens = None THEN "reply" ELSE "rotate"
<1>1. /\ rename[s].at = "registry" /\ rename' = [rename EXCEPT ![s].at = at]
      /\ UNCHANGED <<tokens, torn, up, map, session, renames, stops, outdated, displaced>>
  BY DEF RenameRegistry
<1>2. at \in {"rotate", "reply"} /\ (at = "rotate" <=> tokens # None)
  OBVIOUS
<1> HIDE DEF at
<1>3. /\ rename' \in [Sessions -> [at : {"idle", "registry", "rotate", "write", "reply"},
                                   old : Ids \cup {None}, new : Ids \cup {None}]]
      /\ rename'[s] = [at |-> at, old |-> rename[s].old, new |-> rename[s].new]
      /\ rename'[s] # NoRename
      /\ \A x \in Sessions \ {s} : rename'[x] = rename[x]
      /\ s \in Live /\ rename[s].old \in Ids /\ rename[s].new \in Ids
      /\ rename[s].old # rename[s].new
      /\ rename[s].old = Bound(s)
  BY <1>1, <1>2, RenameMoves
<1>4. registered' \subseteq Ids
  BY <1>3 DEF RenameRegistry, IInv, IdentityTypeOK
<1>5. IdentityTypeOK'
  BY <1>1, <1>3, <1>4 DEF IInv, IdentityTypeOK
<1>6. Live' = Live /\ \A x \in Sessions : Bound(x)' = Bound(x)
  BY <1>1 DEF Live, Bound
<1>7. ASSUME NEW x \in Sessions PROVE RenameOK(x)'
  <2>1. CASE x = s
    BY <2>1, <1>1, <1>2, <1>3, <1>6 DEF RenameOK
  <2>2. CASE x # s
    BY <2>2, <1>1, <1>3, <1>6 DEF IInv, RenameOK
  <2> QED
    BY <2>1, <2>2
<1>8. FileOK'
  <2>1. tokens # None => \A x \in Sessions : FileName(x)' = FileName(x)
    BY <1>1, <1>2, <1>3, <1>6 DEF FileName
  <2> QED
    BY <1>1, <1>6, <2>1 DEF IInv, FileOK, Live
<1>9. NobodyShutOut'
  BY <1>1, <1>3 DEF IInv, NobodyShutOut
<1> QED
  BY <1>5, <1>7, <1>8, <1>9 DEF IInv

LEMMA RotateBeginsInv ==
  ASSUME IInv, NEW s \in Sessions, RotateBegins(s)
  PROVE  IInv'
<1>1. /\ rename[s].at = "rotate" /\ ~torn /\ torn' = TRUE
      /\ rename' = [rename EXCEPT ![s].at = "write"]
      /\ UNCHANGED <<tokens, up, map, session, registered, renames, stops, outdated, displaced>>
  BY DEF RotateBegins
<1>2. /\ rename' \in [Sessions -> [at : {"idle", "registry", "rotate", "write", "reply"},
                                   old : Ids \cup {None}, new : Ids \cup {None}]]
      /\ rename'[s] = [at |-> "write", old |-> rename[s].old, new |-> rename[s].new]
      /\ rename'[s] # NoRename
      /\ \A x \in Sessions \ {s} : rename'[x] = rename[x]
      /\ s \in Live /\ rename[s].old \in Ids /\ rename[s].new \in Ids
      /\ rename[s].old # rename[s].new
      /\ rename[s].old = Bound(s)
  BY <1>1, RenameMoves
<1>3. IdentityTypeOK'
  BY <1>1, <1>2 DEF IInv, IdentityTypeOK
<1>4. Live' = Live /\ \A x \in Sessions : Bound(x)' = Bound(x)
  BY <1>1 DEF Live, Bound
<1>5. \A x \in Sessions : RenameOK(x)'
  BY ZenonT(30), <1>1, <1>2, <1>4 DEF IInv, RenameOK
<1>6. FileOK'
  <2>1. \A x \in Sessions : FileName(x)' = FileName(x)
    BY ZenonT(30), <1>1, <1>2, <1>4 DEF FileName
  <2> QED
    BY <1>1, <1>4, <2>1 DEF IInv, FileOK, Live
<1>7. NobodyShutOut'
  BY <1>1, <1>2 DEF IInv, NobodyShutOut
<1> QED
  BY <1>3, <1>5, <1>6, <1>7 DEF IInv

\* What a rotation does to the entry of a client it does not move, and to the
\* one that asked for it.
LEMMA RotatedFact ==
  ASSUME tokens \in Maps, NEW old1 \in Ids, NEW new1 \in Ids
  PROVE  /\ Rotated(old1, new1) \in Maps
         /\ \A t \in Tokens \ Moves(old1, new1) : Rotated(old1, new1)[t] = tokens[t]
         /\ \A t \in Holders(old1) : Rotated(old1, new1)[t] = new1
         /\ \A t \in Tokens \ (Moves(old1, new1) \ Holders(old1)) :
              tokens[t] # None => Rotated(old1, new1)[t] # None
<1>1. Holders(old1) \subseteq Tokens /\ Holders(new1) \subseteq Tokens
  BY DEF Holders
<1>2. Rotated(old1, new1) \in Maps
  BY DEF Rotated, Maps
<1>3. ASSUME NEW t \in Tokens \ Moves(old1, new1) PROVE Rotated(old1, new1)[t] = tokens[t]
  BY <1>3 DEF Rotated, Moves, Holders
<1>4. ASSUME NEW t \in Holders(old1) PROVE Rotated(old1, new1)[t] = new1
  BY <1>1, <1>4 DEF Rotated, Holders
<1>5. new1 # None
  BY NoneAssumption
<1> QED
  BY <1>2, <1>3, <1>4, <1>5

LEMMA RotateWritesInv ==
  ASSUME IInv, NEW s \in Sessions, RotateWrites(s)
  PROVE  IInv'
<1> DEFINE o == rename[s].old
           n == rename[s].new
<1>1. /\ rename[s].at = "write" /\ tokens' = Rotated(o, n) /\ torn' = FALSE
      /\ displaced' = displaced \cup (Moves(o, n) \ Holders(o))
      /\ outdated' = outdated \cup {x \in Live \ {s} : session[x].token \in Moves(o, n)}
      /\ rename' = [rename EXCEPT ![s].at = "reply"]
      /\ UNCHANGED <<up, map, session, registered, renames, stops>>
  BY DEF RotateWrites
<1>2. /\ rename' \in [Sessions -> [at : {"idle", "registry", "rotate", "write", "reply"},
                                   old : Ids \cup {None}, new : Ids \cup {None}]]
      /\ rename'[s] = [at |-> "reply", old |-> o, new |-> n]
      /\ rename'[s] # NoRename
      /\ \A x \in Sessions \ {s} : rename'[x] = rename[x]
      /\ s \in Live /\ o \in Ids /\ n \in Ids /\ o # n /\ o = Bound(s)
  BY <1>1, RenameMoves
<1>3. tokens # None /\ tokens \in Maps
  BY <1>1 DEF IInv, RenameOK, IdentityTypeOK
<1>4. tokens' \in Maps /\ tokens' # None
  BY <1>1, <1>2, <1>3, RotatedFact, NoneAssumption
<1>5. Moves(o, n) \subseteq Tokens
  BY DEF Moves, Holders
<1>6. IdentityTypeOK'
  BY <1>1, <1>2, <1>4, <1>5 DEF IInv, IdentityTypeOK, Live
<1>7. Live' = Live /\ \A x \in Sessions : Bound(x)' = Bound(x)
  BY <1>1 DEF Live, Bound
<1>8. ASSUME NEW x \in Sessions PROVE RenameOK(x)'
  <2>1. CASE x = s
    BY <2>1, <1>2, <1>7 DEF RenameOK
  <2>2. CASE x # s
    BY <2>2, <1>2, <1>4, <1>7 DEF IInv, RenameOK
  <2> QED
    BY <2>1, <2>2
<1>9. FileOK'
  <2>1. up' => (map' = None <=> tokens' = None)
    BY <1>1, <1>3, <1>4 DEF IInv, FileOK
  <2>2. \A x \in Live : session[x].token \in Tokens
    BY DEF IInv, IdentityTypeOK, Live
  <2>3. ASSUME NEW x \in Live', x \notin outdated'
        PROVE  tokens'[session'[x].token] = FileName(x)'
    <3>1. tokens[session[x].token] = FileName(x) /\ x \in Live /\ session' = session
      BY <2>3, <1>1, <1>3, <1>7 DEF IInv, FileOK
    <3>2. CASE x = s
      <4>1. session[s].token \in Holders(o)
        BY <3>1, <3>2, <1>1, <1>2, <2>2 DEF Holders, FileName
      <4> QED
        BY <4>1, <3>1, <3>2, <1>1, <1>2, <1>3, RotatedFact DEF FileName
    <3>3. CASE x # s
      <4>1. session[x].token \in Tokens \ Moves(o, n)
        BY <3>1, <3>3, <2>2, <2>3, <1>1
      <4>2. tokens'[session[x].token] = tokens[session[x].token]
        BY <4>1, <1>1, <1>2, <1>3, RotatedFact
      <4>3. FileName(x)' = FileName(x)
        BY <3>1, <3>3, <1>1, <1>2, <1>7 DEF FileName, Live
      <4> QED
        BY <4>2, <4>3, <3>1
    <3> QED
      BY <3>2, <3>3
  <2>4. \A x \in Live' : Bound(x)' # None
    BY <1>3, <1>7 DEF IInv, FileOK, Live
  <2> QED
    BY <2>1, <2>3, <2>4 DEF FileOK
<1>10. NobodyShutOut'
  <2>1. ASSUME NEW t \in Tokens \ displaced' PROVE tokens'[t] # None
    BY <2>1, <1>1, <1>2, <1>3, RotatedFact DEF IInv, NobodyShutOut
  <2> QED
    BY <2>1, <1>1 DEF NobodyShutOut
<1> QED
  BY <1>6, <1>8, <1>9, <1>10 DEF IInv

LEMMA RenameRepliesInv ==
  ASSUME IInv, NEW s \in Sessions, RenameReplies(s)
  PROVE  IInv'
<1> DEFINE n == rename[s].new
<1>1. /\ rename[s].at = "reply" /\ session' = [session EXCEPT ![s].bound = n]
      /\ rename' = [rename EXCEPT ![s] = NoRename]
      /\ UNCHANGED <<tokens, torn, up, map, registered, renames, stops, outdated, displaced>>
  BY DEF RenameReplies
<1>2. s \in Live /\ n \in Ids
  BY <1>1 DEF IInv, RenameOK, NoRename
<1>3. session[s] \in [token : Tokens, bound : Ids \cup {None}]
  BY <1>2 DEF IInv, IdentityTypeOK, Live
<1>4. session'[s] = [session[s] EXCEPT !.bound = n]
  BY <1>1 DEF IInv, IdentityTypeOK
<1>5. session'[s] = [token |-> session[s].token, bound |-> n]
  BY <1>3, <1>4
<1>6. \A x \in Sessions \ {s} : session'[x] = session[x] /\ rename'[x] = rename[x]
  BY <1>1 DEF IInv, IdentityTypeOK
<1>7. rename'[s] = NoRename
  BY <1>1 DEF IInv, IdentityTypeOK
<1>8. IdentityTypeOK'
  <2>1. session' \in [Sessions -> [token : Tokens, bound : Ids \cup {None}] \cup {None}]
    BY <1>1, <1>2, <1>3, <1>5 DEF IInv, IdentityTypeOK
  <2>2. rename' \in [Sessions -> [at : {"idle", "registry", "rotate", "write", "reply"},
                                  old : Ids \cup {None}, new : Ids \cup {None}]]
    BY <1>1 DEF IInv, IdentityTypeOK, NoRename
  <2> QED
    BY <1>1, <2>1, <2>2 DEF IInv, IdentityTypeOK
<1>9. Live' = Live
  BY <1>2, <1>3, <1>5, <1>6, NoneAssumption DEF Live
<1>10. ASSUME NEW x \in Sessions PROVE RenameOK(x)'
  <2>1. CASE x = s
    BY <2>1, <1>7 DEF RenameOK, NoRename
  <2>2. CASE x # s
    BY <2>2, <1>1, <1>6, <1>9 DEF IInv, RenameOK, Bound
  <2> QED
    BY <2>1, <2>2
<1>11. FileOK'
  <2>1. n # None
    BY <1>2, NoneAssumption
  <2>2. Bound(s)' = n /\ FileName(s)' = FileName(s) /\ session'[s].token = session[s].token
    BY <1>1, <1>5, <1>7 DEF Bound, FileName, NoRename
  <2>3. \A x \in Live \ {s} : Bound(x)' = Bound(x) /\ FileName(x)' = FileName(x)
    BY <1>6 DEF Bound, FileName, Live
  <2> QED
    BY <1>1, <1>6, <1>9, <2>1, <2>2, <2>3 DEF IInv, FileOK, Live
<1>12. NobodyShutOut'
  BY <1>1, <1>6 DEF IInv, NobodyShutOut
<1> QED
  BY <1>8, <1>10, <1>11, <1>12 DEF IInv

-----------------------------------------------------------------------------
(* The theorems                                                            *)

LEMMA IInvNext == IInv /\ [Next]_vars => IInv'
<1> SUFFICES ASSUME IInv, [Next]_vars PROVE IInv'
  OBVIOUS
<1>1. ASSUME UNCHANGED identityVars PROVE IInv'
  BY <1>1 DEF identityVars, serverVars, IInv, IdentityTypeOK, RenameOK, FileOK, FileName,
              NobodyShutOut, Live, Bound
<1>2. CASE IdentityNext
  <2>1. CASE ServerStarts \/ Sighup \/ ServerEnds
    BY <2>1, ServerStartsInv, SighupInv, ServerEndsInv
  <2>2. ASSUME NEW s \in Sessions, NEW t \in Tokens, Connect(s, t) PROVE IInv'
    BY <2>2, ConnectInv
  <2>3. ASSUME NEW s \in Sessions, Disconnect(s) PROVE IInv'
    BY <2>3, DisconnectInv
  <2>4. ASSUME NEW s \in Sessions, NEW id \in Ids, Register(s, id) \/ Quit(s, id) PROVE IInv'
    <3>1. registered' \subseteq Ids
      BY <2>4 DEF Register, Quit, IInv, IdentityTypeOK
    <3> QED
      BY <2>4, <3>1, GateInv DEF Register, Quit
  <2>5. ASSUME NEW s \in Sessions, NEW id \in Ids, NEW new \in Ids, RenameBegins(s, id, new)
        PROVE  IInv'
    BY <2>5, RenameBeginsInv
  <2>6. ASSUME NEW s \in Sessions,
               RenameRegistry(s) \/ RotateBegins(s) \/ RotateWrites(s) \/ RenameReplies(s)
        PROVE  IInv'
    BY <2>6, RenameRegistryInv, RotateBeginsInv, RotateWritesInv, RenameRepliesInv
  <2> QED
    BY <1>2, <2>1, <2>2, <2>3, <2>4, <2>5, <2>6 DEF IdentityNext
<1>3. ASSUME NEW s \in Sessions, NEW id \in Ids, NEW h \in Hashes, Retrieve(s, id, h)
      PROVE  IInv'
  <2>1. registered' \subseteq Ids
    BY <1>3 DEF Retrieve, IInv, IdentityTypeOK
  <2> QED
    BY <1>3, <2>1, GateInv DEF Retrieve
<1>4. ASSUME NEW s \in Sessions, NEW id \in Ids, Overflow(s, id) PROVE IInv'
  <2>1. registered' \subseteq Ids
    BY <1>4 DEF Overflow, IInv, IdentityTypeOK
  <2> QED
    BY <1>4, <2>1, GateInv DEF Overflow
<1>5. CASE UNCHANGED vars
  BY <1>1, <1>5 DEF vars
<1> QED
  BY <1>1, <1>2, <1>3, <1>4, <1>5 DEF Next

LEMMA IInvAlways == Spec => []IInv
BY IInvInit, IInvNext, PTL DEF Spec

\* Renaming, however often and with whatever restarts, signals and other
\* sessions in between, leaves every session under the id that tokens.json has
\* for its token (rename_agent, src/server.ts).
THEOREM SessionMatchesFileAlways == Spec => []SessionMatchesFile
<1>1. IInv => SessionMatchesFile
  BY DEF IInv, FileOK, FileName, SessionMatchesFile, NoRename
<1> QED
  BY <1>1, IInvAlways, PTL

\* No sequence of renames and restarts takes a client's token away, but by
\* giving its id to another or by ending in the middle of a write.
THEOREM NobodyShutOutAlways == Spec => []NobodyShutOut
<1>1. IInv => NobodyShutOut
  BY DEF IInv
<1> QED
  BY <1>1, IInvAlways, PTL

-----------------------------------------------------------------------------
(* Digests and names                                                       *)

\* Of a client whose entry was never moved the map in memory is right,
\* sessions go by the name in the file, and its digests are made in that name.
MapCurrent == \A t \in Tokens \ moved : map # None => map[t] = tokens[t]
NamesCurrent ==
  \A s \in Live : session[s].token \notin moved =>
    Bound(s) = tokens[session[s].token] /\ rename[s].at # "reply"
DigestsCurrent ==
  \A c \in Callers \ moved :
    /\ stash[c].at # "idle" => stash[c].owner = tokens[c]
    /\ handed[c] # Nothing => handed[c].owner = tokens[c]
Current == tokens # None => MapCurrent /\ NamesCurrent /\ DigestsCurrent

LEMMA CurrentInit == Init => Current
<1> SUFFICES ASSUME Init PROVE Current
  OBVIOUS
<1>1. MapCurrent
  BY DEF Init, IdentityInit, MapCurrent
<1>2. Live = {}
  BY DEF Init, IdentityInit, Live
<1>3. DigestsCurrent
  BY DEF Init, HistoryInit, DigestsCurrent, NoStash
<1> QED
  BY <1>1, <1>2, <1>3 DEF Current, NamesCurrent

\* The history of the server's identities: a tokens.json that is there stays,
\* and who is not moved keeps its entry.
LEMMA MovedFact ==
  ASSUME IInv, [Next]_vars
  PROVE  /\ tokens' # None => tokens # None
         /\ moved \subseteq moved'
         /\ tokens # None => \A t \in Tokens \ moved' : tokens'[t] = tokens[t]
         /\ tokens' = tokens \/ map' = map
         /\ map' \in {map, tokens, None}
<1>1. \/ tokens' = tokens /\ map' \in {map, tokens, None}
      \/ map' = map /\ tokens # None
  <2>1. CASE UNCHANGED identityVars
    BY <2>1 DEF identityVars, serverVars
  <2>2. CASE IdentityNext
    BY <2>2 DEF IdentityNext, ServerStarts, Sighup, ServerEnds, Connect, Disconnect, Register,
                Quit, RenameBegins, RenameRegistry, RotateBegins, RotateWrites, RenameReplies,
                IInv, RenameOK
  <2>3. CASE \E s \in Sessions, id \in Ids :
               Overflow(s, id) \/ \E h \in Hashes : Retrieve(s, id, h)
    BY <2>3 DEF Overflow, Retrieve
  <2> QED
    BY <2>1, <2>2, <2>3 DEF Next, vars
<1>2. \/ tokens' = tokens /\ moved' = moved
      \/ moved' = moved \cup {t \in Tokens : tokens # None /\ tokens'[t] # tokens[t]}
  BY DEF Next, vars, identityVars, Overflow, Retrieve
<1> QED
  BY <1>1, <1>2

LEMMA MapCurrentNext ==
  ASSUME IInv, Current, [Next]_vars, tokens' # None
  PROVE  MapCurrent'
BY MovedFact DEF Current, MapCurrent

\* A session that is as it was, and is not about to reply, keeps its name.
LEMMA NameKept ==
  ASSUME IInv, Current, [Next]_vars, tokens' # None, NEW x \in Live,
         session'[x] = session[x], session[x].token \notin moved',
         rename'[x].at = rename[x].at \/ rename'[x].at # "reply"
  PROVE  Bound(x)' = tokens'[session'[x].token] /\ rename'[x].at # "reply"
<1>1. session[x].token \in Tokens /\ session[x].token \notin moved /\ tokens # None
  BY MovedFact DEF IInv, IdentityTypeOK, Live
<1>2. tokens'[session[x].token] = tokens[session[x].token]
  BY <1>1, MovedFact
<1>3. Bound(x) = tokens[session[x].token] /\ rename[x].at # "reply"
  BY <1>1 DEF Current, NamesCurrent
<1> QED
  BY <1>2, <1>3 DEF Bound

LEMMA NamesCurrentNext ==
  ASSUME IInv, Current, [Next]_vars, tokens' # None
  PROVE  NamesCurrent'
<1>1. tokens # None /\ MapCurrent /\ NamesCurrent /\ moved \subseteq moved'
  BY MovedFact DEF Current
<1>2. SUFFICES ASSUME NEW x \in Live', session'[x].token \notin moved'
               PROVE  Bound(x)' = tokens'[session'[x].token] /\ rename'[x].at # "reply"
  BY DEF NamesCurrent
<1>3. x \in Sessions
  BY DEF Live
<1>4. CASE session' = session /\ rename' = rename
  BY <1>2, <1>3, <1>4, NameKept DEF Live
<1>5. ASSUME NEW s \in Sessions, NEW id \in Ids, Gate(s, id),
             rename'[x].at = rename[x].at \/ rename'[x].at # "reply"
      PROVE  Bound(x)' = tokens'[session'[x].token] /\ rename'[x].at # "reply"
  <2>1. session'[x] = session[x] /\ x \in Live
    BY <1>1, <1>3, <1>5, GateFact
  <2> QED
    BY <2>1, <1>2, <1>5, NameKept
<1>6. CASE IdentityNext
  <2>1. CASE ServerStarts \/ Sighup \/ ServerEnds
    BY <2>1, <1>2, <1>4 DEF ServerStarts, Sighup, ServerEnds, Live
  <2>2. ASSUME NEW s \in Sessions, NEW t \in Tokens, Connect(s, t)
        PROVE  Bound(x)' = tokens'[session'[x].token] /\ rename'[x].at # "reply"
    <3>1. /\ map # None /\ session[s] = None /\ UNCHANGED <<tokens, rename>>
          /\ session' = [session EXCEPT ![s] = [token |-> t, bound |-> map[t]]]
      BY <1>1, <2>2 DEF Connect, IInv, FileOK
    <3>2. CASE x = s
      <4>1. session'[s] = [token |-> t, bound |-> map[t]]
        BY <3>1 DEF IInv, IdentityTypeOK
      <4>2. t \notin moved
        BY <1>1, <1>2, <3>2, <4>1
      <4>3. rename[s] = NoRename
        BY <3>1 DEF IInv, RenameOK, Live
      <4> QED
        BY <1>1, <3>1, <3>2, <4>1, <4>2, <4>3 DEF MapCurrent, Bound, NoRename
    <3>3. CASE x # s
      <4>1. session'[x] = session[x] /\ x \in Live
        BY <1>2, <1>3, <3>1, <3>3 DEF IInv, IdentityTypeOK, Live
      <4> QED
        BY <1>2, <3>1, <4>1, NameKept
    <3> QED
      BY <3>2, <3>3
  <2>3. ASSUME NEW s \in Sessions, Disconnect(s)
        PROVE  Bound(x)' = tokens'[session'[x].token] /\ rename'[x].at # "reply"
    <3>1. session'[x] = session[x] /\ x \in Live /\ rename' = rename
      BY <1>2, <1>3, <2>3 DEF Disconnect, IInv, IdentityTypeOK, Live
    <3> QED
      BY <1>2, <3>1, NameKept
  <2>4. ASSUME NEW s \in Sessions, NEW id \in Ids, Register(s, id) \/ Quit(s, id)
        PROVE  Bound(x)' = tokens'[session'[x].token] /\ rename'[x].at # "reply"
    BY <2>4, <1>5 DEF Register, Quit
  <2>5. ASSUME NEW s \in Sessions, NEW id \in Ids, NEW new \in Ids, RenameBegins(s, id, new)
        PROVE  Bound(x)' = tokens'[session'[x].token] /\ rename'[x].at # "reply"
    <3>1. rename'[x].at = rename[x].at \/ rename'[x].at # "reply"
      BY <1>3, <2>5 DEF RenameBegins, IInv, IdentityTypeOK
    <3> QED
      BY <2>5, <3>1, <1>5 DEF RenameBegins
  <2>6. ASSUME NEW s \in Sessions, RenameRegistry(s) \/ RotateBegins(s)
        PROVE  Bound(x)' = tokens'[session'[x].token] /\ rename'[x].at # "reply"
    <3>1. session' = session /\ (rename'[x].at = rename[x].at \/ rename'[x].at # "reply")
      BY <1>1, <1>3, <2>6 DEF RenameRegistry, RotateBegins, IInv, IdentityTypeOK
    <3> QED
      BY <1>2, <3>1, NameKept DEF Live
  <2>7. ASSUME NEW s \in Sessions, RotateWrites(s)
        PROVE  Bound(x)' = tokens'[session'[x].token] /\ rename'[x].at # "reply"
    <3> DEFINE o == rename[s].old
               n == rename[s].new
               t == session[s].token
    <3>1. /\ rename[s].at = "write" /\ tokens' = Rotated(o, n) /\ session' = session
          /\ rename' = [rename EXCEPT ![s].at = "reply"]
      BY <2>7 DEF RotateWrites
    <3>2. /\ \A y \in Sessions \ {s} : rename'[y] = rename[y]
          /\ s \in Live /\ o \in Ids /\ n \in Ids /\ o # n /\ o = Bound(s)
      BY <3>1, RenameMoves
    <3>3. x # s
      <4>1. SUFFICES ASSUME x = s PROVE FALSE
        OBVIOUS
      <4>2. t \in Tokens /\ t \notin moved /\ t \notin moved'
        BY <1>1, <1>2, <3>1, <3>2, <4>1 DEF IInv, IdentityTypeOK, Live
      <4>3. t \in Holders(o)
        BY <1>1, <3>2, <4>2 DEF NamesCurrent, Holders
      <4>4. tokens'[t] = n
        BY <1>1, <3>1, <3>2, <4>3, RotatedFact DEF IInv, IdentityTypeOK
      <4>5. tokens'[t] = tokens[t]
        BY <1>1, <4>2, MovedFact
      <4> QED
        BY <3>2, <4>3, <4>4, <4>5 DEF Holders
    <3> QED
      BY <1>2, <1>3, <3>1, <3>2, <3>3, NameKept DEF Live
  <2>8. ASSUME NEW s \in Sessions, RenameReplies(s)
        PROVE  Bound(x)' = tokens'[session'[x].token] /\ rename'[x].at # "reply"
    <3>1. /\ rename[s].at = "reply" /\ session' = [session EXCEPT ![s].bound = rename[s].new]
          /\ rename' = [rename EXCEPT ![s] = NoRename]
      BY <2>8 DEF RenameReplies
    <3>2. s \in Live
      BY <3>1 DEF IInv, RenameOK, NoRename
    <3>3. session'[s].token = session[s].token
      <4>1. session[s] \in [token : Tokens, bound : Ids \cup {None}]
        BY <3>2 DEF IInv, IdentityTypeOK, Live
      <4>2. session'[s] = [session[s] EXCEPT !.bound = rename[s].new]
        BY <3>1 DEF IInv, IdentityTypeOK
      <4> QED
        BY <4>1, <4>2
    <3>4. session[s].token \in moved
      BY <1>1, <3>1, <3>2 DEF NamesCurrent
    <3>5. x # s
      BY <1>1, <1>2, <3>3, <3>4
    <3>6. session'[x] = session[x] /\ rename'[x] = rename[x] /\ x \in Live
      BY <1>2, <1>3, <3>1, <3>5 DEF IInv, IdentityTypeOK, Live
    <3> QED
      BY <1>2, <3>6, NameKept
  <2> QED
    BY <1>6, <2>1, <2>2, <2>3, <2>4, <2>5, <2>6, <2>7, <2>8 DEF IdentityNext
<1>7. CASE \E s \in Sessions, id \in Ids :
             Overflow(s, id) \/ \E h \in Hashes : Retrieve(s, id, h)
  BY <1>5, <1>7 DEF Overflow, Retrieve
<1>8. CASE UNCHANGED identityVars
  BY <1>4, <1>8 DEF identityVars, serverVars
<1> QED
  BY <1>6, <1>7, <1>8 DEF Next, vars

\* A caller whose stash is as it was, or goes on or ends, makes and holds its
\* digests in the name it had.
LEMMA DigestKept ==
  ASSUME IInv, Current, [Next]_vars, tokens' # None, NEW c \in Callers \ moved',
         stash'[c].at # "idle" => stash[c].at # "idle" /\ stash'[c].owner = stash[c].owner,
         handed'[c] # handed[c] => stash[c].at # "idle" /\ handed'[c].owner = stash[c].owner
  PROVE  /\ stash'[c].at # "idle" => stash'[c].owner = tokens'[c]
         /\ handed'[c] # Nothing => handed'[c].owner = tokens'[c]
<1>1. tokens # None /\ c \in Callers \ moved /\ c \in Tokens
  BY MovedFact, OneBus
<1>2. tokens'[c] = tokens[c]
  BY <1>1, MovedFact
<1> QED
  BY <1>1, <1>2 DEF Current, DigestsCurrent

LEMMA DigestsCurrentNext ==
  ASSUME IInv, HistoryInv, Current, [Next]_vars, tokens' # None
  PROVE  DigestsCurrent'
<1>1. SUFFICES ASSUME NEW c \in Callers \ moved'
               PROVE  /\ stash'[c].at # "idle" => stash'[c].owner = tokens'[c]
                      /\ handed'[c] # Nothing => handed'[c].owner = tokens'[c]
  BY DEF DigestsCurrent
<1>2. stash \in [Callers -> [at : {"idle", "lock", "open", "write", "reply"},
                             owner : Owners \cup {Nothing}, batch : Batches \cup {Nothing}]]
  BY DEF HistoryInv, HistoryTypeOK
<1>3. CASE stash' = stash /\ handed' = handed
  BY <1>3, DigestKept
<1>4. CASE HistoryDies
  <2>1. stash'[c].at = "idle" /\ handed' = handed
    BY <1>4 DEF HistoryDies, NoStash
  <2> QED
    BY <2>1, DigestKept
<1>5. CASE HistorySteps
  <2>1. ASSUME NEW d \in Callers, NEW at \in {"open", "write", "reply"}, stash[d].at # "idle",
               stash' = [stash EXCEPT ![d] = [@ EXCEPT !.at = at]], handed' = handed
        PROVE  /\ stash'[c].at # "idle" => stash'[c].owner = tokens'[c]
               /\ handed'[c] # Nothing => handed'[c].owner = tokens'[c]
    <3>1. stash'[d] = [stash[d] EXCEPT !.at = at] /\ \A x \in Callers \ {d} : stash'[x] = stash[x]
      BY <1>2, <2>1
    <3>2. stash'[d].owner = stash[d].owner
      BY <1>2, <3>1
    <3> QED
      BY <2>1, <3>1, <3>2, DigestKept
  <2>2. ASSUME NEW d \in Callers, StashLocks(d)
        PROVE  /\ stash'[c].at # "idle" => stash'[c].owner = tokens'[c]
               /\ handed'[c] # Nothing => handed'[c].owner = tokens'[c]
    <3>1. CASE file[Hash(d)] = Nothing
      <4>1. stash' = [stash EXCEPT ![d] = NoStash] /\ handed' = handed
        BY <2>2, <3>1 DEF StashLocks
      <4>2. stash'[c].at # "idle" => stash'[c] = stash[c]
        BY <1>2, <4>1 DEF NoStash
      <4> QED
        BY <4>1, <4>2, DigestKept
    <3>2. CASE file[Hash(d)] # Nothing
      <4>1. stash[d].at # "idle" /\ handed' = handed
        BY <2>2 DEF StashLocks
      <4>2. stash' = [stash EXCEPT ![d] = [@ EXCEPT !.at = "open"]]
        BY <2>2, <3>2 DEF StashLocks
      <4> QED
        BY <4>1, <4>2, <2>1
    <3> QED
      BY <3>1, <3>2
  <2>3. ASSUME NEW d \in Callers, StashOpens(d)
        PROVE  /\ stash'[c].at # "idle" => stash'[c].owner = tokens'[c]
               /\ handed'[c] # Nothing => handed'[c].owner = tokens'[c]
    <3>1. /\ stash[d].at # "idle" /\ handed' = handed
          /\ stash' = [stash EXCEPT ![d] = [@ EXCEPT !.at = "write"]]
      BY <2>3 DEF StashOpens
    <3> QED
      BY <3>1, <2>1
  <2>4. ASSUME NEW d \in Callers, StashWrites(d)
        PROVE  /\ stash'[c].at # "idle" => stash'[c].owner = tokens'[c]
               /\ handed'[c] # Nothing => handed'[c].owner = tokens'[c]
    <3>1. /\ stash[d].at # "idle" /\ handed' = handed
          /\ stash' = [stash EXCEPT ![d] = [@ EXCEPT !.at = "reply"]]
      BY <2>4 DEF StashWrites
    <3> QED
      BY <3>1, <2>1
  <2>5. ASSUME NEW d \in Callers, StashReplies(d)
        PROVE  /\ stash'[c].at # "idle" => stash'[c].owner = tokens'[c]
               /\ handed'[c] # Nothing => handed'[c].owner = tokens'[c]
    <3>1. /\ stash[d].at = "reply" /\ stash' = [stash EXCEPT ![d] = NoStash]
          /\ handed' = [handed EXCEPT ![d] =
               [hash |-> Hash(d), owner |-> stash[d].owner, batch |-> stash[d].batch]]
      BY <2>5 DEF StashReplies
    <3>2. stash'[c].at # "idle" => stash'[c] = stash[c]
      BY <1>2, <3>1 DEF NoStash
    <3>3. handed'[c] # handed[c] => c = d /\ handed'[c].owner = stash[d].owner
      BY <3>1 DEF HistoryInv, HistoryTypeOK
    <3> QED
      BY <3>1, <3>2, <3>3, DigestKept
  <2>6. CASE \/ \E d \in Callers :
                  RetrieveDeletes(d) \/ SweepReads(d) \/ \E h \in Hashes : SweepUnlinks(d, h)
             \/ \E h \in Hashes : Expire(h) \/ RolloverClears(h)
    BY <2>6, <1>3 DEF RetrieveDeletes, SweepReads, SweepUnlinks, Expire, RolloverClears
  <2> QED
    BY <1>5, <2>2, <2>3, <2>4, <2>5, <2>6 DEF HistorySteps
<1>6. ASSUME NEW s \in Sessions, NEW id \in Ids, Overflow(s, id)
      PROVE  /\ stash'[c].at # "idle" => stash'[c].owner = tokens'[c]
             /\ handed'[c] # Nothing => handed'[c].owner = tokens'[c]
  <2> DEFINE t == session[s].token
  <2>1. Gate(s, id) /\ StashBegins(t, id) /\ tokens' = tokens
    BY <1>6 DEF Overflow
  <2>2. /\ stash' = [stash EXCEPT ![t] = [at |-> "lock", owner |-> id, batch |-> stashes + 1]]
        /\ handed' = handed
    BY <2>1 DEF StashBegins
  <2>3. s \in Live /\ Bound(s) = id
    BY <2>1, GateFact DEF Bound
  <2>4. CASE c = t
    <3>1. c \notin moved /\ tokens # None
      BY MovedFact
    <3>2. stash'[c].owner = id
      BY <1>2, <2>2, <2>4
    <3>3. id = tokens[c]
      BY <2>3, <2>4, <3>1 DEF Current, NamesCurrent
    <3>4. handed[c] # Nothing => handed[c].owner = tokens[c]
      BY <3>1 DEF Current, DigestsCurrent
    <3> QED
      BY <2>1, <2>2, <3>2, <3>3, <3>4
  <2>5. CASE c # t
    <3>1. stash'[c] = stash[c]
      BY <1>2, <2>2, <2>5
    <3> QED
      BY <2>2, <3>1, DigestKept
  <2> QED
    BY <2>4, <2>5
<1>7. ASSUME NEW s \in Sessions, NEW id \in Ids, NEW h \in Hashes, Retrieve(s, id, h)
      PROVE  stash' = stash /\ handed' = handed
  BY <1>7 DEF Retrieve, RetrieveExpired
<1>8. CASE UNCHANGED vars
  BY <1>3, <1>8 DEF vars, historyVars
<1>9. CASE UNCHANGED historyVars
  BY <1>3, <1>9 DEF historyVars
<1> QED
  BY <1>3, <1>4, <1>5, <1>6, <1>7, <1>8, <1>9 DEF Next

LEMMA CurrentNext == IInv /\ HistoryInv /\ Current /\ [Next]_vars => Current'
BY MapCurrentNext, NamesCurrentNext, DigestsCurrentNext DEF Current

LEMMA HistoryInvNext == IInv /\ HistoryInv /\ [Next]_vars => HistoryInv'
<1> SUFFICES ASSUME IInv, HistoryInv, [Next]_vars PROVE HistoryInv'
  OBVIOUS
<1>1. CASE UNCHANGED historyVars
  BY <1>1 DEF historyVars, HistoryInv, HistoryTypeOK, Named, Given, Stands, Writing, Hash, Fresh
<1>2. CASE HistoryDies
  BY <1>2, HistoryDiesInv
<1>3. CASE HistorySteps
  BY <1>3, StashLocksInv, StashOpensInv, StashWritesInv, StashRepliesInv, ExpireInv,
     SweepReadsInv, SweepUnlinksInv, RolloverClearsInv, RetrieveDeletesInv DEF HistorySteps
<1>4. ASSUME NEW s \in Sessions, s \in Live PROVE session[s].token \in Callers
  BY <1>4, OneBus DEF IInv, IdentityTypeOK, Live
<1>5. ASSUME NEW s \in Sessions, NEW id \in Ids, Overflow(s, id) PROVE HistoryInv'
  BY <1>4, <1>5, StashBeginsInv, OneBus DEF Overflow, Gate
<1>6. ASSUME NEW s \in Sessions, NEW id \in Ids, NEW h \in Hashes, Retrieve(s, id, h)
      PROVE  HistoryInv'
  BY <1>4, <1>6, RetrieveExpiredInv DEF Retrieve, Gate
<1>7. CASE UNCHANGED vars
  BY <1>1, <1>7 DEF vars
<1> QED
  BY <1>1, <1>2, <1>3, <1>5, <1>6, <1>7 DEF Next

\* A digest that was handed out opens, whatever other clients stash, retrieve
\* and sweep, and over renames and restarts: the fields of the hash and the
\* binding of the session are enough (src/store.ts, src/server.ts).
THEOREM DigestOpensAlways == Spec => []DigestOpens
<1>1. ASSUME IInv, HistoryInv, Current PROVE DigestOpens
  <2>1. SUFFICES ASSUME tokens # None, NEW s \in Live, NEW c, c = session[s].token,
                        NEW h, h = handed[c].hash, handed[c] # Nothing, c \notin moved,
                        h \notin old \cup hurt, Writing(h) = {}
                 PROVE  \E b \in Batches : /\ Signature[b] = Signature[handed[c].batch]
                                           /\ Retrieved(Bound(s), h) = b
    BY DEF DigestOpens
  <2>2. c \in Callers
    BY <1>1, <2>1, OneBus DEF IInv, IdentityTypeOK, Live
  <2>3. h \in Given
    BY <1>1, <2>1, <2>2 DEF HistoryInv, HistoryTypeOK, Given
  <2>4. Fresh(h)
    BY <1>1, <2>1, <2>3 DEF HistoryInv, Stands
  <2>5. /\ file[h] \in Entries /\ file[h].batch \in Batches
        /\ HistoryHash(file[h].owner, file[h].batch) = h
        /\ HistoryHash(handed[c].owner, handed[c].batch) = h
    BY <1>1, <2>1, <2>2, <2>3, <2>4 DEF HistoryInv, Named, Fresh, Given, Entries
  <2>6. file[h].owner = handed[c].owner /\ Signature[file[h].batch] = Signature[handed[c].batch]
    BY <2>5 DEF HistoryHash
  <2>7. Bound(s) = handed[c].owner
    BY <1>1, <2>1, <2>2 DEF Current, NamesCurrent, DigestsCurrent
  <2> QED
    BY <2>4, <2>5, <2>6, <2>7 DEF Retrieved
<1>2. Init => HistoryInv
  BY HistoryInvInit DEF Init
<1> QED
  BY <1>1, <1>2, IInvInit, IInvNext, CurrentInit, CurrentNext, HistoryInvNext, PTL DEF Spec
=============================================================================
