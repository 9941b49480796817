-------------------------------- MODULE Prune --------------------------------
(***************************************************************************)
(* The retention sweep (pruneTool in src/tools.ts) against the readers of  *)
(* one log.  A sweep rewrites the log without its old entries under the    *)
(* log's lock (rewriteJsonl), goes on to the other files, and only later   *)
(* shifts the cursor by the number of entries removed, under the cursor's  *)
(* lock.  A read_messages call snapshots the log without a lock and later  *)
(* moves the cursor under its lock.  A sender stamps its message before it *)
(* waits for the log's lock.                                               *)
(*                                                                         *)
(* Messages are records of an id, in the order they were appended, and the *)
(* time stamp the sweep compares with its cutoff.                          *)
(***************************************************************************)
EXTENDS Integers, Sequences, FiniteSets

CONSTANTS
  Senders,        \* processes that send to the log
  Readers,        \* concurrent read_messages calls of the agent
  Sweeps,         \* concurrent prune calls
  MaxMessages,    \* bound: messages ever appended
  MaxSweeps,      \* bound: prunes ever started
  MaxTime,        \* bound: the clock
  Nothing

ASSUME PruneAssumption == MaxTime \in Nat

VARIABLES
  clock,          \* Date.now()
  stamp,          \* stamp[s]: the time a sender gave its message, or Nothing
  file,           \* the content of the log file
  hollow,         \* a sweep has truncated the log file and not yet written it
  offset,         \* the agent's offset into the log
  rpc, seen,      \* a read call: idle or reading; its snapshot of the log
  spc,            \* a sweep: idle, rewriting or adjusting
  cutoff, gone,   \* its cutoff, and how many entries it removed
  appended,       \* history: how many messages were ever appended
  sweeps,         \* history: how many prunes were started
  delivered,      \* history: the ids a read returned
  twice,          \* history: the ids a read returned again
  swept,          \* history: the ids a sweep removed
  removals,       \* history: entries removed from the log so far
  shifts,         \* history: of these, the ones the cursor was shifted by
  epoch,          \* history: epoch[r] = removals when r took its snapshot
  clash,          \* history: a read used a snapshot the cursor did not match
  unordered       \* history: an append was older than the entry before it

senderVars == <<clock, stamp>>
fileVars == <<file, hollow, offset>>
readVars == <<rpc, seen, epoch>>
sweepVars == <<spc, cutoff, gone, sweeps>>
ghost == <<delivered, twice, swept, removals, shifts, clash, unordered>>
pruneVars == <<senderVars, fileVars, readVars, sweepVars, appended, ghost>>

Larger(a, b) == IF a >= b THEN a ELSE b
Ids(entries) == {entries[i].id : i \in DOMAIN entries}

\* all.slice(offset)
Slice(entries, from) == SubSeq(entries, from + 1, Len(entries))

PruneInit ==
  /\ clock = 1
  /\ stamp = [s \in Senders |-> Nothing]
  /\ file = <<>>
  /\ hollow = FALSE
  /\ offset = 0
  /\ rpc = [r \in Readers |-> "idle"]
  /\ seen = [r \in Readers |-> <<>>]
  /\ spc = [p \in Sweeps |-> "idle"]
  /\ cutoff = [p \in Sweeps |-> 0]
  /\ gone = [p \in Sweeps |-> 0]
  /\ appended = 0
  /\ sweeps = 0
  /\ delivered = {}
  /\ twice = {}
  /\ swept = {}
  /\ removals = 0
  /\ shifts = 0
  /\ epoch = [r \in Readers |-> 0]
  /\ clash = FALSE
  /\ unordered = FALSE

Tick ==
  /\ clock < MaxTime
  /\ clock' = clock + 1
  /\ UNCHANGED <<stamp, fileVars, readVars, sweepVars, appended, ghost>>

-----------------------------------------------------------------------------
(* send_message: ts: Date.now(), then appendJsonl under the log's lock.    *)

Stamp(s) ==
  /\ stamp[s] = Nothing
  /\ appended < MaxMessages
  /\ stamp' = [stamp EXCEPT ![s] = clock]
  /\ UNCHANGED <<clock, fileVars, readVars, sweepVars, appended, ghost>>

AppendEntry(s) ==
  /\ stamp[s] # Nothing
  /\ appended < MaxMessages
  /\ ~hollow
  /\ file' = Append(file, [id |-> appended + 1, ts |-> stamp[s]])
  /\ appended' = appended + 1
  /\ unordered' = (unordered \/ \E i \in DOMAIN file : file[i].ts > stamp[s])
  /\ stamp' = [stamp EXCEPT ![s] = Nothing]
  /\ UNCHANGED <<clock, hollow, offset, readVars, sweepVars,
                 delivered, twice, swept, removals, shifts, clash>>

-----------------------------------------------------------------------------
(* read_messages                                                           *)

Snapshot(r) ==
  /\ rpc[r] = "idle"
  /\ rpc' = [rpc EXCEPT ![r] = "reading"]
  /\ seen' = [seen EXCEPT ![r] = IF hollow THEN <<>> ELSE file]
  /\ epoch' = [epoch EXCEPT ![r] = removals]
  /\ UNCHANGED <<senderVars, fileVars, sweepVars, appended, ghost>>

Commit(r) ==
  LET batch == Slice(seen[r], offset) IN
  /\ rpc[r] = "reading"
  /\ offset' = offset + Len(batch)
  /\ delivered' = delivered \cup Ids(batch)
  /\ twice' = twice \cup (delivered \cap Ids(batch))
  /\ clash' = (clash \/ epoch[r] # shifts)
  /\ rpc' = [rpc EXCEPT ![r] = "idle"]
  /\ seen' = [seen EXCEPT ![r] = <<>>]
  /\ epoch' = [epoch EXCEPT ![r] = 0]
  /\ UNCHANGED <<senderVars, file, hollow, sweepVars, appended, swept, removals,
                 shifts, unordered>>

-----------------------------------------------------------------------------
(* prune                                                                   *)

\* The cutoff lies before the moment the sweep starts.
Start(p, c) ==
  /\ spc[p] = "idle"
  /\ sweeps < MaxSweeps
  /\ c < clock
  /\ spc' = [spc EXCEPT ![p] = "rewrite"]
  /\ cutoff' = [cutoff EXCEPT ![p] = c]
  /\ sweeps' = sweeps + 1
  /\ UNCHANGED <<senderVars, fileVars, readVars, gone, appended, ghost>>

\* rewriteJsonl reads the log under its lock and truncates it ...
Empty(p) ==
  /\ spc[p] = "rewrite"
  /\ ~hollow
  /\ hollow' = TRUE
  /\ spc' = [spc EXCEPT ![p] = "write"]
  /\ UNCHANGED <<senderVars, file, offset, readVars, cutoff, gone, sweeps, appended, ghost>>

\* The entries that are newer than the cutoff c, in their order.
Kept(entries, c) ==
  LET fresh == {i \in DOMAIN entries : entries[i].ts > c}
      Nth(n) == CHOOSE i \in fresh : Cardinality({j \in fresh : j <= i}) = n
  IN [n \in 1..Cardinality(fresh) |-> entries[Nth(n)]]

WriteBack(p, removed) ==
  LET kept == Kept(file, cutoff[p]) IN
  /\ spc[p] = "write"
  /\ file' = kept
  /\ hollow' = FALSE
  /\ gone' = [gone EXCEPT ![p] = removed]
  /\ swept' = swept \cup (Ids(file) \ Ids(kept))
  /\ removals' = removals + removed
  /\ spc' = [spc EXCEPT ![p] = "adjust"]
  /\ UNCHANGED <<senderVars, offset, readVars, cutoff, sweeps, appended,
                 delivered, twice, shifts, clash, unordered>>

\* Mutant of Rewrite: the entries kept are counted for those removed.
RewriteMiscounts(p) == WriteBack(p, Len(Kept(file, cutoff[p])))

\* ... and writes back what is newer than the cutoff.
Rewrite(p) == WriteBack(p, Len(file) - Len(Kept(file, cutoff[p])))

AdjustDone(p) ==
  /\ shifts' = shifts + gone[p]
  /\ spc' = [spc EXCEPT ![p] = "idle"]
  /\ cutoff' = [cutoff EXCEPT ![p] = 0]
  /\ gone' = [gone EXCEPT ![p] = 0]
  /\ UNCHANGED <<senderVars, file, hollow, readVars, sweeps, appended,
                 delivered, twice, swept, removals, clash, unordered>>

\* Mutants of Adjust: the cursor is reset, or left alone, or may turn negative.
AdjustResets(p) == spc[p] = "adjust" /\ offset' = 0 /\ AdjustDone(p)
AdjustForgotten(p) == spc[p] = "adjust" /\ offset' = offset /\ AdjustDone(p)
AdjustUnclamped(p) ==
  spc[p] = "adjust" /\ offset' = offset - gone[p] /\ AdjustDone(p)

\* The other files' turn comes between the two; then the cursor is shifted.
Adjust(p) ==
  /\ spc[p] = "adjust"
  /\ offset' = Larger(0, offset - gone[p])
  /\ AdjustDone(p)

-----------------------------------------------------------------------------
PruneNext ==
  \/ Tick
  \/ \E s \in Senders : Stamp(s) \/ AppendEntry(s)
  \/ \E r \in Readers : Snapshot(r) \/ Commit(r)
  \/ \E p \in Sweeps : \/ \E c \in 0..MaxTime : Start(p, c)
                       \/ Empty(p) \/ Rewrite(p) \/ Adjust(p)

PruneSpec == PruneInit /\ [][PruneNext]_pruneVars

-----------------------------------------------------------------------------
(* Properties                                                              *)

Entries == [id : 1..MaxMessages, ts : 1..MaxTime]

\* The types of the files, the calls and the sweeps.
PruneTypeOK ==
  /\ clock \in 1..MaxTime
  /\ stamp \in [Senders -> 1..MaxTime \cup {Nothing}]
  /\ file \in Seq(Entries)
  /\ hollow \in BOOLEAN
  /\ offset \in Nat
  /\ rpc \in [Readers -> {"idle", "reading"}]
  /\ seen \in [Readers -> Seq(Entries)]
  /\ spc \in [Sweeps -> {"idle", "rewrite", "write", "adjust"}]
  /\ cutoff \in [Sweeps -> 0..MaxTime]
  /\ gone \in [Sweeps -> Nat]

Sweeping == \E p \in Sweeps : spc[p] # "idle"
Reading == \E r \in Readers : rpc[r] # "idle"

\* A sweep and a read do harm to each other only when the read's snapshot and
\* the cursor it meets stand on different sides of a sweep: it was taken after
\* the rewrite and used before the shift, or taken before the rewrite and used
\* after the shift.  Short of that, and with a log in time order, nothing is
\* delivered twice, for any number of overlapping sweeps, reads and senders.
SafeOverlap == ~clash /\ ~unordered
NoRepeat == SafeOverlap => twice = {}

\* Under the same condition nothing is lost either: when no sweep is half
\* done, what the cursor has passed is delivered and what it has not passed is
\* not, so a message can only go undelivered by being swept.
NoGap ==
  SafeOverlap /\ ~Sweeping =>
    /\ \A i \in DOMAIN file : i <= offset <=> file[i].id \in delivered
    /\ 1..appended = delivered \cup swept \cup Ids(file)

\* A message is delivered at most once, and undelivered only if it was swept
\* or is still to be read.
ReadExactly == NoRepeat /\ NoGap

\* Even half way through a sweep the cursor is the old one or the new one of
\* every sweep: the entries behind it, counted from the first ever appended,
\* are those delivered and those swept before they could be.
CursorStands ==
  SafeOverlap =>
    \A i \in 1..(shifts + offset) : i \in delivered \cup swept

\* src/tools.ts:1004: the shift keeps a cursor from pointing past the end of
\* the rewritten log, where "read_messages return [] forever".
CursorWithinLog == ~Sweeping /\ ~Reading => offset <= Len(file)

=============================================================================
