----------------------------- MODULE Wake_proofs -----------------------------
(***************************************************************************)
(* What holds of the wake stack for any number of messages, one-shots,     *)
(* deaths and faults.                                                      *)
(***************************************************************************)
EXTENDS Wake, FiniteSetTheorems, SequenceTheorems, TLAPS

-----------------------------------------------------------------------------
(* The inductive invariant                                                 *)

\* What was claimed is in the claim file, unless an older copy overwrote it; and
\* of what the hook tells or is about to tell, only what it had read before the
\* claim was claimed.
InTime ==
    /\ past.claimed \subseteq claims \cup past.overwritten
    /\ \A m \in past.told \cup hook.lines :
          m \in past.claimed => m \in past.early \cup past.overwritten

\* The busy file names who runs, so that there is one of them.
OneBusy == ~past.disturbed => \A p \in Running : busy = p

\* A message is taken from the log once: what is to be scanned, or scanned again
\* after a death, stands behind what the listener has saved; what was handed on,
\* before it.
LogOnce == \A i, j \in 1..Len(log) : log[i] = log[j] => i = j
Saved(m) == \E i \in 1..listener.saved : log[i] = m
Scanning ==
    /\ listener.saved <= listener.seen
    /\ listener.up /\ listener.pc = "idle" => listener.saved = listener.seen
    /\ ~listener.up => listener.pc = "idle" /\ listener.batch = {}
    /\ listener.pc # "idle" =>
          \A k \in DOMAIN listener.todo :
             \E i \in (listener.saved + 1)..listener.seen : log[i] = listener.todo[k]
    /\ listener.pc = "claim" => listener.todo # <<>> /\ listener.todo[1] \in Mentions
    /\ \A m \in listener.batch : \E i \in 1..listener.seen : log[i] = m

\* Where a message can be after the flush, and that it is in one place at a time.
InQueue(m) == \E i \in (daemon.offset + 1)..Len(queue) : m \in queue[i]
InLines(m) == \E i \in DOMAIN daemon.lines : m \in daemon.lines[i]
InShot(m) == \E s \in Shots : m \in shot[s].batch
Handed(m) ==
    InQueue(m) \/ InLines(m) \/ m \in daemon.batch \/ InShot(m) \/ past.runs[m] # 0
QueuedOnce(m) ==
    \A i, j \in (daemon.offset + 1)..Len(queue) : m \in queue[i] /\ m \in queue[j] => i = j
LinedOnce(m) ==
    \A i, j \in DOMAIN daemon.lines : m \in daemon.lines[i] /\ m \in daemon.lines[j] => i = j
ShotOnce(m) == \A s, t \in Shots : m \in shot[s].batch /\ m \in shot[t].batch => s = t
OnePlace(m) ==
    /\ QueuedOnce(m) /\ LinedOnce(m) /\ ShotOnce(m)
    /\ InQueue(m) => ~InLines(m) /\ m \notin daemon.batch /\ ~InShot(m)
    /\ InLines(m) => m \notin daemon.batch /\ ~InShot(m)
    /\ m \in daemon.batch => ~InShot(m)

\* How often a message was run, by where it is.
RunsAt(pc) == CASE pc = "run" -> 1 [] pc = "retry" -> 2 [] OTHER -> 0
RunsFit(m) ==
    /\ past.runs[m] <= 2
    /\ InQueue(m) \/ InLines(m) => past.runs[m] = 0
    /\ m \in daemon.batch => past.runs[m] = RunsAt(daemon.pc)
    /\ \A s \in Shots : m \in shot[s].batch => past.runs[m] = RunsAt(shot[s].pc)

\* What was handed on is not scanned again, and what was claimed is somewhere, or
\* was run or dropped.
Behind(m) == Handed(m) => Saved(m) /\ m \notin listener.batch
Carried(m) ==
    m \in past.claimed => m \in listener.batch \/ Handed(m) \/ m \in past.dropped

Fits(m) == OnePlace(m) /\ RunsFit(m) /\ Behind(m) /\ Carried(m)

\* Nobody has a batch or lines but in the middle of them.
AtWork ==
    /\ daemon.pc \notin {"claim", "run", "retry"} => daemon.batch = {}
    /\ daemon.pc \in {"down", "idle"} => daemon.lines = <<>>
    /\ \A s \in Shots : shot[s].pc \notin {"start", "begin", "run", "retry"} => shot[s].batch = {}

HandedOnce == LogOnce /\ Scanning /\ AtWork /\ \A m \in Mentions : Fits(m)

IInv == TypeOK /\ InTime /\ OneBusy /\ HandedOnce


-----------------------------------------------------------------------------
(* Types                                                                   *)

Listeners(n) == [up : BOOLEAN, pc : {"idle", "scan", "claim"}, saved : 0..n, seen : 0..n,
                 todo : Seq(Messages), map : SUBSET Mentions, batch : SUBSET Mentions,
                 child : Shots \cup {Nobody}]
Daemons(n) == [pc : {"down", "idle", "next", "claim", "run", "retry"}, offset : 0..n,
               lines : Seq(SUBSET Mentions), batch : SUBSET Mentions, map : SUBSET Mentions]
ShotStates == [pc : {"unused", "start", "begin", "run", "retry", "over", "gone"},
               batch : SUBSET Mentions, own : BOOLEAN]
Hooks(n) == [pc : {"idle", "checked", "drained"}, lines : SUBSET Mentions, cursor : 0..n]
Histories == [claimed : SUBSET Mentions, told : SUBSET Mentions, dropped : SUBSET Mentions,
              early : SUBSET Mentions, overwritten : SUBSET Mentions, disturbed : BOOLEAN,
              runs : [Mentions -> Nat]]
Counts == [crashes : 0..MaxCrashes, failures : 0..MaxFaults]

LEMMA Types ==
  TypeOK <=>
    /\ log \in Seq(Messages) /\ cursor \in Nat
    /\ claims \subseteq Mentions /\ queue \in Seq(SUBSET Mentions)
    /\ busy \in Holders /\ lock \in Shots \cup {Nobody}
    /\ listener \in Listeners(Len(log)) /\ daemon \in Daemons(Len(queue))
    /\ shot \in [Shots -> ShotStates] /\ hook \in Hooks(Len(log))
    /\ past \in Histories /\ faults \in Counts
BY DEF TypeOK, Listeners, Daemons, ShotStates, Hooks, Histories, Counts

LEMMA BatchIsFinite ==
  ASSUME TypeOK, Scanning
  PROVE  Cardinality(listener.batch) \in Nat
<1> DEFINE S == 1..listener.seen
<1>1. listener.seen \in Nat
  BY DEF TypeOK
<1>2. IsFiniteSet(S)
  BY <1>1, FS_Interval
<1>3. IsFiniteSet({log[i] : i \in S})
  <2> DEFINE f == [i \in S |-> log[i]]
  <2>1. f \in Surjection(S, {log[i] : i \in S})
    BY DEF Surjection
  <2> QED
    BY <1>2, <2>1, FS_Surjection
<1>4. listener.batch \subseteq {log[i] : i \in S}
  BY DEF Scanning
<1> QED
  BY <1>3, <1>4, FS_Subset, FS_CardinalityType

LEMMA RunsAreCounted ==
  ASSUME NEW S, NEW r \in [Mentions -> Nat]
  PROVE  [m \in Mentions |-> r[m] + IF m \in S THEN 1 ELSE 0] \in [Mentions -> Nat]
OBVIOUS

LEMMA TypeNext == ASSUME TypeOK, Scanning, [Next]_vars PROVE TypeOK'
<1>a. /\ log \in Seq(Messages) /\ cursor \in Nat
       /\ claims \subseteq Mentions /\ queue \in Seq(SUBSET Mentions)
       /\ busy \in Holders /\ lock \in Shots \cup {Nobody}
       /\ listener \in Listeners(Len(log)) /\ daemon \in Daemons(Len(queue))
       /\ shot \in [Shots -> ShotStates] /\ hook \in Hooks(Len(log))
       /\ past \in Histories /\ faults \in Counts
  BY Types
<1>b. Len(log) \in Nat /\ Len(queue) \in Nat
  BY <1>a
<1>c. /\ listener.todo \in Seq(Messages) /\ listener.batch \subseteq Mentions
      /\ listener.map \subseteq Mentions
      /\ listener.saved \in 0..Len(log) /\ listener.seen \in 0..Len(log)
  BY <1>a DEF Listeners
<1>d. /\ daemon.lines \in Seq(SUBSET Mentions) /\ daemon.batch \subseteq Mentions
      /\ daemon.map \subseteq Mentions /\ daemon.offset \in 0..Len(queue)
  BY <1>a DEF Daemons
<1>e. hook.lines \subseteq Mentions /\ hook.cursor \in 0..Len(log)
  BY <1>a DEF Hooks
<1>f. \A s \in Shots : shot[s] \in ShotStates /\ shot[s].batch \subseteq Mentions
  BY <1>a DEF ShotStates
<1>g. listener.pc = "claim" => listener.todo # <<>> /\ Head(listener.todo) \in Mentions
  BY <1>c DEF Scanning
<1>h. past.runs \in [Mentions -> Nat]
  BY <1>a DEF Histories
<1>i. /\ log' \in Seq(Messages) /\ cursor' \in Nat
      /\ claims' \subseteq Mentions /\ queue' \in Seq(SUBSET Mentions)
      /\ busy' \in Holders /\ lock' \in Shots \cup {Nobody}
      /\ listener' \in Listeners(Len(log')) /\ daemon' \in Daemons(Len(queue'))
      /\ shot' \in [Shots -> ShotStates] /\ hook' \in Hooks(Len(log'))
      /\ past' \in Histories /\ faults' \in Counts
      => TypeOK'
  BY DEF TypeOK, Listeners, Daemons, ShotStates, Hooks, Histories, Counts
<1> USE BoundsAssumption, ShotsAssumption DEF Nobody, Holders, Messages, files
<1>1. ASSUME NEW m \in Messages, Send(m) PROVE TypeOK'
  <2>1. log' \in Seq(Messages)
    BY <1>1, <1>a, <1>b DEF Send
  <2>2. listener' \in Listeners(Len(log'))
    BY <1>1, <1>a, <1>b, <1>c, <1>g DEF Send, Listeners
  <2>3. hook' \in Hooks(Len(log'))
    BY <1>1, <1>a, <1>b, <1>e DEF Send, Hooks
  <2> QED
    BY <1>1, <1>a, <2>1, <2>2, <2>3, <1>i DEF Send
<1>2. ASSUME AgentReads PROVE TypeOK'
  <2>1. cursor' \in Nat
    BY <1>2, <1>a, <1>b DEF AgentReads
  <2> QED
    BY <1>2, <1>a, <2>1, <1>i DEF AgentReads
<1>3. ASSUME Scan PROVE TypeOK'
  <2>1. listener' \in Listeners(Len(log))
    <3> DEFINE todo == SubSeq(log, listener.seen + 1, Len(log))
    <3>1. todo \in Seq(Messages)
      BY <1>3, <1>a, <1>b, <1>c, SubSeqProperties DEF Scan
    <3>2. listener' = [listener EXCEPT !.pc = "scan", !.seen = Len(log), !.todo = todo]
      BY <1>3 DEF Scan
    <3>3. Len(log) \in 0..Len(log)
      BY <1>b
    <3> HIDE DEF todo
    <3> QED
      BY <1>a, <3>1, <3>2, <3>3 DEF Listeners
  <2> QED
    BY <1>3, <1>a, <2>1, <1>i DEF Scan
<1>4. ASSUME PassOver PROVE TypeOK'
  <2>1. listener' \in Listeners(Len(log))
    <3>1. Tail(listener.todo) \in Seq(Messages)
      BY <1>4, <1>c, <1>g, HeadTailProperties DEF PassOver
    <3> QED
      BY <1>4, <1>a, <1>c, <1>g, <3>1 DEF PassOver, Listeners
  <2> QED
    BY <1>4, <1>a, <2>1, <1>i DEF PassOver
<1>5. ASSUME LoadClaims PROVE TypeOK'
  <2>1. listener' \in Listeners(Len(log))
    BY <1>5, <1>a, <1>b, <1>c, <1>g DEF LoadClaims, Listeners
  <2> QED
    BY <1>5, <1>a, <2>1, <1>i DEF LoadClaims
<1>6. ASSUME Claim PROVE TypeOK'
  <2>1. claims' \subseteq Mentions
    BY <1>6, <1>a, <1>b, <1>c, <1>d, <1>g DEF Claim
  <2>2. listener' \in Listeners(Len(log))
    <3>1. Tail(listener.todo) \in Seq(Messages)
      BY <1>6, <1>c, <1>g, HeadTailProperties DEF Claim
    <3> QED
      BY <1>6, <1>a, <1>c, <1>g, <3>1 DEF Claim, Listeners
  <2>3. past' \in Histories
    BY <1>6, <1>a, <1>b, <1>c, <1>d, <1>e, <1>f, <1>g, <1>h, RunsAreCounted DEF Claim, Histories
  <2> QED
    BY <1>6, <1>a, <2>1, <2>2, <2>3, <1>i DEF Claim
<1>7. ASSUME SaveState PROVE TypeOK'
  <2>1. listener' \in Listeners(Len(log))
    BY <1>7, <1>a, <1>b, <1>c, <1>g DEF SaveState, Listeners
  <2> QED
    BY <1>7, <1>a, <2>1, <1>i DEF SaveState
<1>8. ASSUME FlushQueues PROVE TypeOK'
  <2>2. queue' \in Seq(SUBSET Mentions)
    BY <1>8, <1>a, <1>b, <1>c, <1>f DEF FlushQueues, MayFlush, AdvanceCursor
  <2>3. daemon' \in Daemons(Len(queue'))
    BY <1>8, <1>a, <1>b, <1>d DEF FlushQueues, MayFlush, AdvanceCursor, Daemons
  <2>4. listener' \in Listeners(Len(log))
    BY <1>8, <1>a, <1>b, <1>c, <1>g DEF FlushQueues, MayFlush, AdvanceCursor, Listeners
  <2>5. busy' \in Holders
    BY <1>8, <1>a, <1>b DEF FlushQueues, MayFlush, AdvanceCursor
  <2>1. cursor' \in Nat
    BY <1>8, <1>a, <1>c, BatchIsFinite, FS_CardinalityType DEF FlushQueues, MayFlush, AdvanceCursor
  <2> QED
    BY <1>8, <1>a, <2>1, <2>2, <2>3, <2>4, <2>5, <1>i DEF FlushQueues, MayFlush, AdvanceCursor
<1>9. ASSUME NEW s \in Shots, ExitSeen(s) PROVE TypeOK'
  <2>1. shot' \in [Shots -> ShotStates]
    BY <1>9, <1>a, <1>b, <1>f DEF ExitSeen, ShotStates
  <2>2. listener' \in Listeners(Len(log))
    BY <1>9, <1>a, <1>b, <1>c, <1>g DEF ExitSeen, Listeners
  <2> QED
    BY <1>9, <1>a, <2>1, <2>2, <1>i DEF ExitSeen
<1>10. ASSUME FlushLoses PROVE TypeOK'
  <2>2. listener' \in Listeners(Len(log))
    BY <1>10, <1>a, <1>b, <1>c, <1>g DEF FlushLoses, MayFlush, AdvanceCursor, Fault, Drop, Listeners
  <2>3. past' \in Histories
    BY <1>10, <1>a, <1>b, <1>c, <1>d, <1>e, <1>f, <1>g, <1>h, RunsAreCounted DEF FlushLoses, MayFlush, AdvanceCursor, Fault, Drop, Histories
  <2>4. faults' \in Counts
    BY <1>10, <1>a, <1>b DEF FlushLoses, MayFlush, AdvanceCursor, Fault, Drop, Counts
  <2>5. busy' \in Holders
    BY <1>10, <1>a, <1>b DEF FlushLoses, MayFlush, AdvanceCursor, Fault, Drop
  <2>1. cursor' \in Nat
    BY <1>10, <1>a, <1>c, BatchIsFinite, FS_CardinalityType DEF FlushLoses, MayFlush, AdvanceCursor, Fault, Drop
  <2> QED
    BY <1>10, <1>a, <2>1, <2>2, <2>3, <2>4, <2>5, <1>i DEF FlushLoses, MayFlush, AdvanceCursor, Fault, Drop
<1>11. ASSUME ListenerDies PROVE TypeOK'
  <2>1. faults' \in Counts
    BY <1>11, <1>a, <1>b DEF ListenerDies, Drop, Counts
  <2>2. listener' \in Listeners(Len(log))
    <3>1. <<>> \in Seq(Messages)
      BY EmptySeq
    <3> QED
      BY <1>11, <1>a, <3>1 DEF ListenerDies, Listeners
  <2>3. shot' \in [Shots -> ShotStates]
    BY <1>11, <1>a, <1>b, <1>f DEF ListenerDies, Drop, ShotStates
  <2>4. past' \in Histories
    BY <1>11, <1>a, <1>b, <1>c, <1>d, <1>e, <1>f, <1>g, <1>h, RunsAreCounted DEF ListenerDies, Drop, Histories
  <2> QED
    BY <1>11, <1>a, <2>1, <2>2, <2>3, <2>4, <1>i DEF ListenerDies, Drop
<1>12. ASSUME ListenerStarts PROVE TypeOK'
  <2>1. listener' \in Listeners(Len(log))
    BY <1>12, <1>a, <1>b, <1>c, <1>g DEF ListenerStarts, Listeners
  <2> QED
    BY <1>12, <1>a, <2>1, <1>i DEF ListenerStarts
<1>13. ASSUME NEW s \in Shots, FlushSpawns(s) PROVE TypeOK'
  <2>2. shot' \in [Shots -> ShotStates]
    <3>1. [pc |-> "start", batch |-> listener.batch, own |-> TRUE] \in ShotStates
      BY <1>c DEF ShotStates
    <3> QED
      BY <1>13, <1>a, <3>1 DEF FlushSpawns
  <2>3. listener' \in Listeners(Len(log))
    BY <1>13, <1>a, <1>b, <1>c, <1>g DEF FlushSpawns, MayFlush, AdvanceCursor, Listeners
  <2>4. busy' \in Holders
    BY <1>13, <1>a, <1>b DEF FlushSpawns, MayFlush, AdvanceCursor
  <2>1. cursor' \in Nat
    BY <1>13, <1>a, <1>c, BatchIsFinite, FS_CardinalityType DEF FlushSpawns, MayFlush, AdvanceCursor
  <2> QED
    BY <1>13, <1>a, <2>1, <2>2, <2>3, <2>4, <1>i DEF FlushSpawns, MayFlush, AdvanceCursor
<1>14. ASSUME NEW s \in Shots, KillShot(s) PROVE TypeOK'
  <2>1. shot' \in [Shots -> ShotStates]
    <3>1. [shot[s] EXCEPT !.pc = "over", !.batch = {}] \in ShotStates
      BY <1>14, <1>f DEF ShotStates
    <3> QED
      BY <1>14, <1>a, <3>1 DEF KillShot
  <2>2. busy' \in Holders
    BY <1>14, <1>a, <1>b DEF KillShot, Fault, Drop
  <2>3. listener' \in Listeners(Len(log))
    BY <1>14, <1>a, <1>b, <1>c, <1>g DEF KillShot, Fault, Drop, Listeners
  <2>4. past' \in Histories
    BY <1>14, <1>a, <1>b, <1>c, <1>d, <1>e, <1>f, <1>g, <1>h, RunsAreCounted DEF KillShot, Fault, Drop, Histories
  <2>5. faults' \in Counts
    BY <1>14, <1>a, <1>b DEF KillShot, Fault, Drop, Counts
  <2> QED
    BY <1>14, <1>a, <2>1, <2>2, <2>3, <2>4, <2>5, <1>i DEF KillShot, Fault, Drop
<1>15. ASSUME TakeQueue PROVE TypeOK'
  <2>1. daemon' \in Daemons(Len(queue))
    <3> DEFINE lines == SubSeq(queue, daemon.offset + 1, Len(queue))
    <3>1. lines \in Seq(SUBSET Mentions)
      BY <1>15, <1>a, <1>b, <1>d, SubSeqProperties DEF TakeQueue
    <3>2. daemon' = [daemon EXCEPT !.pc = "next", !.lines = lines, !.offset = Len(queue)]
      BY <1>15 DEF TakeQueue
    <3>3. Len(queue) \in 0..Len(queue)
      BY <1>b
    <3> HIDE DEF lines
    <3> QED
      BY <1>a, <3>1, <3>2, <3>3 DEF Daemons
  <2> QED
    BY <1>15, <1>a, <2>1, <1>i DEF TakeQueue
<1>16. ASSUME LoadForBatch PROVE TypeOK'
  <2>1. daemon' \in Daemons(Len(queue))
    <3>1. Tail(daemon.lines) \in Seq(SUBSET Mentions) /\ Head(daemon.lines) \subseteq Mentions
      BY <1>16, <1>d, HeadTailProperties DEF LoadForBatch
    <3> QED
      BY <1>16, <1>a, <1>d, <3>1 DEF LoadForBatch, Daemons
  <2> QED
    BY <1>16, <1>a, <2>1, <1>i DEF LoadForBatch
<1>17. ASSUME RunBatch PROVE TypeOK'
  <2>1. claims' \subseteq Mentions
    BY <1>17, <1>a, <1>b, <1>c, <1>d, <1>g DEF RunBatch
  <2>2. past' \in Histories
    <3> DEFINE runs == [m \in Mentions |-> past.runs[m] + IF m \in daemon.batch THEN 1 ELSE 0]
               disturbed == past.disturbed \/ Running # {}
    <3>1. runs \in [Mentions -> Nat]
      BY <1>h, RunsAreCounted
    <3>2. past' = [past EXCEPT !.overwritten = past.overwritten \cup (claims \ (daemon.map \cup daemon.batch)),
                               !.disturbed = disturbed, !.runs = runs]
      BY <1>17 DEF RunBatch
    <3>3. disturbed \in BOOLEAN
      OBVIOUS
    <3> HIDE DEF runs, disturbed
    <3> QED
      BY <1>a, <1>d, <3>1, <3>2, <3>3 DEF Histories
  <2>3. busy' \in Holders
    BY <1>17, <1>a, <1>b DEF RunBatch
  <2>4. daemon' \in Daemons(Len(queue))
    BY <1>17, <1>a, <1>b, <1>d DEF RunBatch, Daemons
  <2> QED
    BY <1>17, <1>a, <2>1, <2>2, <2>3, <2>4, <1>i DEF RunBatch
<1>18. ASSUME RunFinishes PROVE TypeOK'
  <2>1. busy' \in Holders
    BY <1>18, <1>a, <1>b DEF RunFinishes, BatchEnds
  <2>2. daemon' \in Daemons(Len(queue))
    BY <1>18, <1>a, <1>b, <1>d DEF RunFinishes, BatchEnds, Daemons
  <2> QED
    BY <1>18, <1>a, <2>1, <2>2, <1>i DEF RunFinishes, BatchEnds
<1>19. ASSUME QueueDone PROVE TypeOK'
  <2>1. daemon' \in Daemons(Len(queue))
    BY <1>19, <1>a, <1>b, <1>d DEF QueueDone, Daemons
  <2> QED
    BY <1>19, <1>a, <2>1, <1>i DEF QueueDone
<1>20. ASSUME DaemonStarts PROVE TypeOK'
  <2>1. daemon' \in Daemons(Len(queue))
    BY <1>20, <1>a, <1>b, <1>d DEF DaemonStarts, Daemons
  <2> QED
    BY <1>20, <1>a, <2>1, <1>i DEF DaemonStarts
<1>21. ASSUME RetryBatch PROVE TypeOK'
  <2>1. past' \in Histories
    <3> DEFINE runs == [m \in Mentions |-> past.runs[m] + IF m \in daemon.batch THEN 1 ELSE 0]
               disturbed == past.disturbed \/ Running \ {"daemon"} # {}
    <3>1. runs \in [Mentions -> Nat]
      BY <1>h, RunsAreCounted
    <3>2. past' = [past EXCEPT !.disturbed = disturbed, !.runs = runs]
      BY <1>21 DEF RetryBatch, Prompt
    <3>3. disturbed \in BOOLEAN
      OBVIOUS
    <3> HIDE DEF runs, disturbed
    <3> QED
      BY <1>a, <1>d, <3>1, <3>2, <3>3 DEF Histories
  <2>2. daemon' \in Daemons(Len(queue))
    BY <1>21, <1>a, <1>b, <1>d DEF RetryBatch, Fault, Prompt, Daemons
  <2>3. faults' \in Counts
    BY <1>21, <1>a, <1>b DEF RetryBatch, Fault, Prompt, Counts
  <2> QED
    BY <1>21, <1>a, <2>1, <2>2, <2>3, <1>i DEF RetryBatch, Fault, Prompt
<1>22. ASSUME RunFails PROVE TypeOK'
  <2>1. busy' \in Holders
    BY <1>22, <1>a, <1>b DEF RunFails, BatchEnds, Fault, Drop
  <2>2. daemon' \in Daemons(Len(queue))
    BY <1>22, <1>a, <1>b, <1>d DEF RunFails, BatchEnds, Fault, Drop, Daemons
  <2>3. past' \in Histories
    BY <1>22, <1>a, <1>b, <1>c, <1>d, <1>e, <1>f, <1>g, <1>h, RunsAreCounted DEF RunFails, BatchEnds, Fault, Drop, Histories
  <2>4. faults' \in Counts
    BY <1>22, <1>a, <1>b DEF RunFails, BatchEnds, Fault, Drop, Counts
  <2> QED
    BY <1>22, <1>a, <2>1, <2>2, <2>3, <2>4, <1>i DEF RunFails, BatchEnds, Fault, Drop
<1>23. ASSUME LateRejection PROVE TypeOK'
  <2>1. busy' \in Holders
    BY <1>23, <1>a, <1>b DEF LateRejection, Fault
  <2>2. past' \in Histories
    BY <1>23, <1>a, <1>b, <1>c, <1>d, <1>e, <1>f, <1>g, <1>h, RunsAreCounted DEF LateRejection, Fault, Histories
  <2>3. faults' \in Counts
    BY <1>23, <1>a, <1>b DEF LateRejection, Fault, Counts
  <2> QED
    BY <1>23, <1>a, <2>1, <2>2, <2>3, <1>i DEF LateRejection, Fault
<1>24. ASSUME DaemonDies PROVE TypeOK'
  <2>1. faults' \in Counts
    BY <1>24, <1>a, <1>b DEF DaemonDies, DaemonEnds, DaemonDown, Counts
  <2>2. daemon' \in Daemons(Len(queue))
    BY <1>24, <1>a, <1>b, <1>d DEF DaemonDies, DaemonEnds, DaemonDown, Daemons
  <2>3. busy' \in Holders
    BY <1>24, <1>a, <1>b DEF DaemonDies, DaemonEnds, DaemonDown
  <2>4. past' \in Histories
    <3>1. UNION Range(daemon.lines) \subseteq Mentions
      BY <1>d DEF Range
    <3> QED
      BY <1>24, <1>a, <1>d, <3>1 DEF DaemonDies, DaemonEnds, Histories
  <2> QED
    BY <1>24, <1>a, <2>1, <2>2, <2>3, <2>4, <1>i DEF DaemonDies, DaemonEnds, DaemonDown
<1>25. ASSUME DaemonExits PROVE TypeOK'
  <2>1. faults' \in Counts
    BY <1>25, <1>a, <1>b DEF DaemonExits, DaemonEnds, DaemonDown, Counts
  <2>2. daemon' \in Daemons(Len(queue))
    BY <1>25, <1>a, <1>b, <1>d DEF DaemonExits, DaemonEnds, DaemonDown, Daemons
  <2>3. busy' \in Holders
    BY <1>25, <1>a, <1>b DEF DaemonExits, DaemonEnds, DaemonDown
  <2>4. past' \in Histories
    <3>1. UNION Range(daemon.lines) \subseteq Mentions
      BY <1>d DEF Range
    <3> QED
      BY <1>25, <1>a, <1>d, <3>1 DEF DaemonExits, DaemonEnds, Histories
  <2> QED
    BY <1>25, <1>a, <2>1, <2>2, <2>3, <2>4, <1>i DEF DaemonExits, DaemonEnds, DaemonDown
<1>26. ASSUME NEW s \in Shots, ShotQueues(s) PROVE TypeOK'
  <2>1. busy' \in Holders
    BY <1>26, <1>a, <1>b DEF ShotQueues, BusyChecked, IsAgentBusy
  <2>2. queue' \in Seq(SUBSET Mentions)
    BY <1>26, <1>a, <1>b, <1>c, <1>f DEF ShotQueues, BusyChecked, IsAgentBusy
  <2>3. daemon' \in Daemons(Len(queue'))
    BY <1>26, <1>a, <1>b, <1>d DEF ShotQueues, BusyChecked, IsAgentBusy, Daemons
  <2>4. shot' \in [Shots -> ShotStates]
    BY ZenonT(30), <1>26, <1>a, <1>b, <1>f DEF ShotQueues, BusyChecked, IsAgentBusy, ShotStates
  <2> QED
    BY <1>26, <1>a, <2>1, <2>2, <2>3, <2>4, <1>i DEF ShotQueues, BusyChecked, IsAgentBusy
<1>27. ASSUME NEW s \in Shots, ShotSkips(s) PROVE TypeOK'
  <2>1. busy' \in Holders
    BY <1>27, <1>a, <1>b DEF ShotSkips, BusyChecked, IsAgentBusy, Drop
  <2>2. past' \in Histories
    BY <1>27, <1>a, <1>b, <1>c, <1>d, <1>e, <1>f, <1>g, <1>h, RunsAreCounted DEF ShotSkips, BusyChecked, IsAgentBusy, Drop, Histories
  <2>3. shot' \in [Shots -> ShotStates]
    BY <1>27, <1>a, <1>b, <1>f DEF ShotSkips, BusyChecked, IsAgentBusy, Drop, ShotStates
  <2> QED
    BY <1>27, <1>a, <2>1, <2>2, <2>3, <1>i DEF ShotSkips, BusyChecked, IsAgentBusy, Drop
<1>28. ASSUME NEW s \in Shots, ShotPasses(s) PROVE TypeOK'
  <2>1. lock' \in Shots \cup {Nobody}
    BY <1>28, <1>a, <1>b DEF ShotPasses
  <2>2. busy' \in Holders
    BY <1>28, <1>a, <1>b DEF ShotPasses
  <2>3. shot' \in [Shots -> ShotStates]
    BY <1>28, <1>a, <1>b, <1>f DEF ShotPasses, ShotStates
  <2> QED
    BY <1>28, <1>a, <2>1, <2>2, <2>3, <1>i DEF ShotPasses
<1>29. ASSUME NEW s \in Shots, ShotRuns(s) PROVE TypeOK'
  <2>1. lock' \in Shots \cup {Nobody}
    BY <1>29, <1>a, <1>b DEF ShotRuns, Prompt
  <2>2. busy' \in Holders
    BY <1>29, <1>a, <1>b DEF ShotRuns, Prompt
  <2>3. past' \in Histories
    <3> DEFINE runs == [m \in Mentions |-> past.runs[m] + IF m \in shot[s].batch THEN 1 ELSE 0]
               disturbed == past.disturbed \/ Running \ {s} # {}
    <3>1. runs \in [Mentions -> Nat]
      BY <1>h, RunsAreCounted
    <3>2. past' = [past EXCEPT !.disturbed = disturbed, !.runs = runs]
      BY <1>29 DEF ShotRuns, Prompt
    <3>3. disturbed \in BOOLEAN
      OBVIOUS
    <3> HIDE DEF runs, disturbed
    <3> QED
      BY <1>a, <1>d, <3>1, <3>2, <3>3 DEF Histories
  <2>4. shot' \in [Shots -> ShotStates]
    BY <1>29, <1>a, <1>b, <1>f DEF ShotRuns, Prompt, ShotStates
  <2> QED
    BY <1>29, <1>a, <2>1, <2>2, <2>3, <2>4, <1>i DEF ShotRuns, Prompt
<1>30. ASSUME NEW s \in Shots, ShotFinishes(s) PROVE TypeOK'
  <2>1. shot' \in [Shots -> ShotStates]
    BY ZenonT(30), <1>30, <1>a, <1>b, <1>f DEF ShotFinishes, ShotEnds, ShotStates
  <2>2. busy' \in Holders
    BY <1>30, <1>a, <1>b DEF ShotFinishes, ShotEnds
  <2>3. lock' \in Shots \cup {Nobody}
    BY <1>30, <1>a, <1>b DEF ShotFinishes, ShotEnds
  <2> QED
    BY <1>30, <1>a, <2>1, <2>2, <2>3, <1>i DEF ShotFinishes, ShotEnds
<1>31. ASSUME NEW s \in Shots, ShotRetries(s) PROVE TypeOK'
  <2>1. past' \in Histories
    <3> DEFINE runs == [m \in Mentions |-> past.runs[m] + IF m \in shot[s].batch THEN 1 ELSE 0]
               disturbed == past.disturbed \/ Running \ {s} # {}
    <3>1. runs \in [Mentions -> Nat]
      BY <1>h, RunsAreCounted
    <3>2. past' = [past EXCEPT !.disturbed = disturbed, !.runs = runs]
      BY <1>31 DEF ShotRetries, Prompt
    <3>3. disturbed \in BOOLEAN
      OBVIOUS
    <3> HIDE DEF runs, disturbed
    <3> QED
      BY <1>a, <1>d, <3>1, <3>2, <3>3 DEF Histories
  <2>2. shot' \in [Shots -> ShotStates]
    BY <1>31, <1>a, <1>b, <1>f DEF ShotRetries, Prompt, Fault, ShotStates
  <2>3. faults' \in Counts
    BY SMTT(30), <1>31, <1>a, <1>b DEF ShotRetries, Prompt, Fault, Counts
  <2> QED
    BY <1>31, <1>a, <2>1, <2>2, <2>3, <1>i DEF ShotRetries, Prompt, Fault
<1>32. ASSUME NEW s \in Shots, ShotFails(s) PROVE TypeOK'
  <2>1. shot' \in [Shots -> ShotStates]
    BY <1>32, <1>a, <1>b, <1>f DEF ShotFails, ShotEnds, Fault, Drop, ShotStates
  <2>2. busy' \in Holders
    BY <1>32, <1>a, <1>b DEF ShotFails, ShotEnds, Fault, Drop
  <2>3. lock' \in Shots \cup {Nobody}
    BY <1>32, <1>a, <1>b DEF ShotFails, ShotEnds, Fault, Drop
  <2>4. past' \in Histories
    BY <1>32, <1>a, <1>b, <1>c, <1>d, <1>e, <1>f, <1>g, <1>h, RunsAreCounted DEF ShotFails, ShotEnds, Fault, Drop, Histories
  <2>5. faults' \in Counts
    BY <1>32, <1>a DEF ShotFails, Fault, Counts
  <2> QED
    BY <1>32, <1>a, <2>1, <2>2, <2>3, <2>4, <2>5, <1>i DEF ShotFails, ShotEnds, Fault, Drop
<1>33. ASSUME HookStarts PROVE TypeOK'
  <2>1. busy' \in Holders
    BY <1>33, <1>a, <1>b DEF HookStarts
  <2>2. hook' \in Hooks(Len(log))
    BY <1>33, <1>a, <1>b, <1>e DEF HookStarts, Hooks
  <2> QED
    BY <1>33, <1>a, <2>1, <2>2, <1>i DEF HookStarts
<1>34. ASSUME HookDrains PROVE TypeOK'
  <2>1. hook' \in Hooks(Len(log))
    <3>1. CASE hook' = [hook EXCEPT !.pc = "idle"]
      BY <1>a, <1>e, <3>1 DEF Hooks
    <3>2. CASE hook' # [hook EXCEPT !.pc = "idle"]
      BY <1>34, <1>b, <3>2 DEF HookDrains, Hooks
    <3> QED
      BY <3>1, <3>2
  <2> QED
    BY <1>34, <1>a, <2>1, <1>i DEF HookDrains
<1>35. ASSUME HookTells PROVE TypeOK'
  <2>1. cursor' \in Nat
    BY <1>35, <1>b, <1>e DEF HookTells
  <2>2. past' \in Histories
    BY <1>35, <1>a, <1>b, <1>c, <1>d, <1>e, <1>f, <1>g, <1>h, RunsAreCounted DEF HookTells, Histories
  <2>3. hook' \in Hooks(Len(log))
    BY <1>35, <1>a, <1>b, <1>e DEF HookTells, Hooks
  <2> QED
    BY <1>35, <1>a, <2>1, <2>2, <2>3, <1>i DEF HookTells
<1>36. CASE UNCHANGED vars
  BY <1>36, <1>a, <1>i DEF vars
<1> QED
  BY <1>1, <1>2, <1>3, <1>4, <1>5, <1>6, <1>7, <1>8, <1>9, <1>10, <1>11, <1>12, <1>13, <1>14, <1>15, <1>16, <1>17, <1>18, <1>19, <1>20, <1>21, <1>22, <1>23, <1>24, <1>25, <1>26, <1>27, <1>28, <1>29, <1>30, <1>31, <1>32, <1>33, <1>34, <1>35, <1>36
  DEF Next, ListenerSteps, DaemonSteps, ShotSteps

-----------------------------------------------------------------------------
(* Claimed in time                                                         *)

LEMMA InTimeNext == ASSUME TypeOK, InTime, [Next]_vars PROVE InTime'
<1> DEFINE Same ==
      /\ claims' = claims /\ hook'.lines = hook.lines
      /\ past'.claimed = past.claimed /\ past'.told = past.told
      /\ past'.early = past.early /\ past'.overwritten = past.overwritten
<1>a. ASSUME Same PROVE InTime'
  BY <1>a DEF InTime
<1>b. /\ past \in [claimed : SUBSET Mentions, told : SUBSET Mentions,
                   dropped : SUBSET Mentions, early : SUBSET Mentions,
                   overwritten : SUBSET Mentions, disturbed : BOOLEAN,
                   runs : [Mentions -> Nat]]
      /\ hook \in [pc : {"idle", "checked", "drained"}, lines : SUBSET Mentions,
                   cursor : 0..Len(log)]
  BY DEF TypeOK
<1>1. ASSUME NEW m \in Messages, Send(m) PROVE InTime'
  <2>1. Same
    BY <1>1, <1>b DEF Send, files
  <2> QED
    BY <2>1, <1>a
<1>2. ASSUME AgentReads PROVE InTime'
  <2>1. Same
    BY <1>2, <1>b DEF AgentReads, files
  <2> QED
    BY <2>1, <1>a
<1>3. ASSUME Scan PROVE InTime'
  <2>1. Same
    BY <1>3, <1>b DEF Scan, files
  <2> QED
    BY <2>1, <1>a
<1>4. ASSUME PassOver PROVE InTime'
  <2>1. Same
    BY <1>4, <1>b DEF PassOver, files
  <2> QED
    BY <2>1, <1>a
<1>5. ASSUME LoadClaims PROVE InTime'
  <2>1. Same
    BY <1>5, <1>b DEF LoadClaims, files
  <2> QED
    BY <2>1, <1>a
<1>6. ASSUME Claim PROVE InTime'
  <2> DEFINE m == Head(listener.todo)
  <2>1. /\ claims' = listener.map \cup {m}
        /\ past'.claimed = past.claimed \cup {m} /\ past'.told = past.told
        /\ past'.early = past.early \cup ({m} \cap (past.told \cup hook.lines))
        /\ past'.overwritten = past.overwritten \cup (claims \ (listener.map \cup {m}))
        /\ hook' = hook
    BY <1>6, <1>b DEF Claim
  <2> HIDE DEF m
  <2> QED
    BY <2>1 DEF InTime
<1>7. ASSUME SaveState PROVE InTime'
  <2>1. Same
    BY <1>7, <1>b DEF SaveState, files
  <2> QED
    BY <2>1, <1>a
<1>8. ASSUME FlushQueues PROVE InTime'
  <2>1. Same
    BY <1>8, <1>b DEF FlushQueues, MayFlush, AdvanceCursor, files
  <2> QED
    BY <2>1, <1>a
<1>9. ASSUME NEW s \in Shots, ExitSeen(s) PROVE InTime'
  <2>1. Same
    BY <1>9, <1>b DEF ExitSeen, files
  <2> QED
    BY <2>1, <1>a
<1>10. ASSUME FlushLoses PROVE InTime'
  <2>1. Same
    BY <1>10, <1>b DEF FlushLoses, MayFlush, AdvanceCursor, Fault, Drop, files
  <2> QED
    BY <2>1, <1>a
<1>11. ASSUME ListenerDies PROVE InTime'
  <2>1. Same
    BY <1>11, <1>b DEF ListenerDies, Drop, files
  <2> QED
    BY <2>1, <1>a
<1>12. ASSUME ListenerStarts PROVE InTime'
  <2>1. Same
    BY <1>12, <1>b DEF ListenerStarts, files
  <2> QED
    BY <2>1, <1>a
<1>13. ASSUME NEW s \in Shots, FlushSpawns(s) PROVE InTime'
  <2>1. Same
    BY <1>13, <1>b DEF FlushSpawns, MayFlush, AdvanceCursor, files
  <2> QED
    BY <2>1, <1>a
<1>14. ASSUME NEW s \in Shots, KillShot(s) PROVE InTime'
  <2>1. Same
    BY <1>14, <1>b DEF KillShot, Fault, Drop, files
  <2> QED
    BY <2>1, <1>a
<1>15. ASSUME TakeQueue PROVE InTime'
  <2>1. Same
    BY <1>15, <1>b DEF TakeQueue, files
  <2> QED
    BY <2>1, <1>a
<1>16. ASSUME LoadForBatch PROVE InTime'
  <2>1. Same
    BY <1>16, <1>b DEF LoadForBatch, files
  <2> QED
    BY <2>1, <1>a
<1>17. ASSUME RunBatch PROVE InTime'
  <2>1. /\ claims' = daemon.map \cup daemon.batch
        /\ past'.claimed = past.claimed /\ past'.told = past.told
        /\ past'.early = past.early /\ hook' = hook
        /\ past'.overwritten = past.overwritten \cup (claims \ (daemon.map \cup daemon.batch))
    BY <1>17, <1>b DEF RunBatch
  <2> QED
    BY <2>1 DEF InTime
<1>18. ASSUME RunFinishes PROVE InTime'
  <2>1. Same
    BY <1>18, <1>b DEF RunFinishes, BatchEnds, files
  <2> QED
    BY <2>1, <1>a
<1>19. ASSUME QueueDone PROVE InTime'
  <2>1. Same
    BY <1>19, <1>b DEF QueueDone, files
  <2> QED
    BY <2>1, <1>a
<1>20. ASSUME DaemonStarts PROVE InTime'
  <2>1. Same
    BY <1>20, <1>b DEF DaemonStarts, files
  <2> QED
    BY <2>1, <1>a
<1>21. ASSUME RetryBatch PROVE InTime'
  <2>1. Same
    BY <1>21, <1>b DEF RetryBatch, Fault, Prompt, files
  <2> QED
    BY <2>1, <1>a
<1>22. ASSUME RunFails PROVE InTime'
  <2>1. Same
    BY <1>22, <1>b DEF RunFails, BatchEnds, Fault, Drop, files
  <2> QED
    BY <2>1, <1>a
<1>23. ASSUME LateRejection PROVE InTime'
  <2>1. Same
    BY <1>23, <1>b DEF LateRejection, Fault, files
  <2> QED
    BY <2>1, <1>a
<1>24. ASSUME DaemonDies PROVE InTime'
  <2>1. Same
    BY <1>24, <1>b DEF DaemonDies, DaemonEnds, DaemonDown, files
  <2> QED
    BY <2>1, <1>a
<1>25. ASSUME DaemonExits PROVE InTime'
  <2>1. Same
    BY <1>25, <1>b DEF DaemonExits, DaemonEnds, DaemonDown, files
  <2> QED
    BY <2>1, <1>a
<1>26. ASSUME NEW s \in Shots, ShotQueues(s) PROVE InTime'
  <2>1. Same
    BY <1>26, <1>b DEF ShotQueues, BusyChecked, IsAgentBusy, files
  <2> QED
    BY <2>1, <1>a
<1>27. ASSUME NEW s \in Shots, ShotSkips(s) PROVE InTime'
  <2>1. Same
    BY <1>27, <1>b DEF ShotSkips, BusyChecked, IsAgentBusy, Drop, files
  <2> QED
    BY <2>1, <1>a
<1>28. ASSUME NEW s \in Shots, ShotPasses(s) PROVE InTime'
  <2>1. Same
    BY <1>28, <1>b DEF ShotPasses, files
  <2> QED
    BY <2>1, <1>a
<1>29. ASSUME NEW s \in Shots, ShotRuns(s) PROVE InTime'
  <2>1. Same
    BY <1>29, <1>b DEF ShotRuns, Prompt, files
  <2> QED
    BY <2>1, <1>a
<1>30. ASSUME NEW s \in Shots, ShotFinishes(s) PROVE InTime'
  <2>1. Same
    BY <1>30, <1>b DEF ShotFinishes, ShotEnds, files
  <2> QED
    BY <2>1, <1>a
<1>31. ASSUME NEW s \in Shots, ShotRetries(s) PROVE InTime'
  <2>1. Same
    BY <1>31, <1>b DEF ShotRetries, Prompt, Fault, files
  <2> QED
    BY <2>1, <1>a
<1>32. ASSUME NEW s \in Shots, ShotFails(s) PROVE InTime'
  <2>1. Same
    BY <1>32, <1>b DEF ShotFails, ShotEnds, Fault, Drop, files
  <2> QED
    BY <2>1, <1>a
<1>33. ASSUME HookStarts PROVE InTime'
  <2>1. Same
    BY <1>33, <1>b DEF HookStarts, files
  <2> QED
    BY <2>1, <1>a
<1>34. ASSUME HookDrains PROVE InTime'
  <2>1. claims' = claims /\ past' = past
    BY <1>34 DEF HookDrains, files
  <2>2. hook'.lines \cap claims = {} \/ hook'.lines = hook.lines
    BY <1>34, <1>b DEF HookDrains
  <2> QED
    BY <2>1, <2>2 DEF InTime
<1>35. ASSUME HookTells PROVE InTime'
  <2>1. /\ claims' = claims /\ hook'.lines = {}
        /\ past'.claimed = past.claimed /\ past'.told = past.told \cup hook.lines
        /\ past'.early = past.early /\ past'.overwritten = past.overwritten
    BY <1>35, <1>b DEF HookTells
  <2> QED
    BY <2>1 DEF InTime
<1>36. CASE UNCHANGED vars
  BY <1>36, <1>a DEF vars
<1> QED
  BY <1>1, <1>2, <1>3, <1>4, <1>5, <1>6, <1>7, <1>8, <1>9, <1>10, <1>11, <1>12, <1>13, <1>14, <1>15, <1>16, <1>17, <1>18, <1>19, <1>20, <1>21, <1>22, <1>23, <1>24, <1>25, <1>26, <1>27, <1>28, <1>29, <1>30, <1>31, <1>32, <1>33, <1>34, <1>35, <1>36
  DEF Next, ListenerSteps, DaemonSteps, ShotSteps

-----------------------------------------------------------------------------
(* The busy file                                                           *)

\* OneBusy, with who runs spelled out.
LEMMA WhoRuns ==
  /\ OneBusy <=>
       past.disturbed \/ /\ daemon.pc \in {"run", "retry"} => busy = "daemon"
                         /\ \A s \in Shots : shot[s].pc \in {"run", "retry"} => busy = s
  /\ Running # {} <=> \/ daemon.pc \in {"run", "retry"}
                      \/ \E s \in Shots : shot[s].pc \in {"run", "retry"}
BY DEF OneBusy, Running

LEMMA OthersRun ==
  ASSUME NEW p
  PROVE  Running \ {p} # {} <=>
           \/ "daemon" # p /\ daemon.pc \in {"run", "retry"}
           \/ \E s \in Shots : s # p /\ shot[s].pc \in {"run", "retry"}
BY DEF Running

LEMMA BusyNext == ASSUME TypeOK, OneBusy, [Next]_vars PROVE OneBusy'
<1>a. /\ past \in [claimed : SUBSET Mentions, told : SUBSET Mentions,
                   dropped : SUBSET Mentions, early : SUBSET Mentions,
                   overwritten : SUBSET Mentions, disturbed : BOOLEAN,
                   runs : [Mentions -> Nat]]
      /\ daemon \in [pc : {"down", "idle", "next", "claim", "run", "retry"},
                     offset : 0..Len(queue), lines : Seq(SUBSET Mentions),
                     batch : SUBSET Mentions, map : SUBSET Mentions]
      /\ shot \in [Shots -> [pc : {"unused", "start", "begin", "run", "retry",
                                   "over", "gone"},
                             batch : SUBSET Mentions, own : BOOLEAN]]
  BY DEF TypeOK
<1>b. past.disturbed \/ /\ daemon.pc \in {"run", "retry"} => busy = "daemon"
                        /\ \A s \in Shots : shot[s].pc \in {"run", "retry"} => busy = s
  BY WhoRuns
<1>c. ASSUME past'.disturbed \/
               /\ daemon'.pc \in {"run", "retry"} => busy' = "daemon"
               /\ \A s \in Shots : shot'[s].pc \in {"run", "retry"} => busy' = s
      PROVE  OneBusy'
  BY <1>c DEF OneBusy, Running
<1>d. "daemon" \notin Shots /\ "nobody" \notin Shots
  BY ShotsAssumption
<1> DEFINE Same == /\ past'.disturbed = past.disturbed /\ busy' = busy
                   /\ daemon'.pc = daemon.pc
                   /\ \A s \in Shots : shot'[s].pc = shot[s].pc
<1>e. ASSUME Same PROVE OneBusy'
  BY <1>b, <1>c, <1>e
<1>1. ASSUME NEW m \in Messages, Send(m) PROVE OneBusy'
  <2>1. Same
    BY <1>1, <1>a DEF Send, files
  <2> QED
    BY <2>1, <1>e
<1>2. ASSUME AgentReads PROVE OneBusy'
  <2>1. Same
    BY <1>2, <1>a DEF AgentReads, files
  <2> QED
    BY <2>1, <1>e
<1>3. ASSUME Scan PROVE OneBusy'
  <2>1. Same
    BY <1>3, <1>a DEF Scan, files
  <2> QED
    BY <2>1, <1>e
<1>4. ASSUME PassOver PROVE OneBusy'
  <2>1. Same
    BY <1>4, <1>a DEF PassOver, files
  <2> QED
    BY <2>1, <1>e
<1>5. ASSUME LoadClaims PROVE OneBusy'
  <2>1. Same
    BY <1>5, <1>a DEF LoadClaims, files
  <2> QED
    BY <2>1, <1>e
<1>6. ASSUME Claim PROVE OneBusy'
  <2>1. Same
    BY <1>6, <1>a DEF Claim, files
  <2> QED
    BY <2>1, <1>e
<1>7. ASSUME SaveState PROVE OneBusy'
  <2>1. Same
    BY <1>7, <1>a DEF SaveState, files
  <2> QED
    BY <2>1, <1>e
<1>8. ASSUME FlushQueues PROVE OneBusy'
  BY <1>8, <1>a, <1>b, <1>c, <1>d DEF FlushQueues, MayFlush, AdvanceCursor, files, Nobody, IsAgentBusy
<1>9. ASSUME NEW s \in Shots, ExitSeen(s) PROVE OneBusy'
  BY <1>9, <1>a, <1>b, <1>c, <1>d DEF ExitSeen, files, Nobody, IsAgentBusy
<1>10. ASSUME FlushLoses PROVE OneBusy'
  BY <1>10, <1>a, <1>b, <1>c, <1>d DEF FlushLoses, MayFlush, AdvanceCursor, Fault, Drop, files, Nobody, IsAgentBusy
<1>11. ASSUME ListenerDies PROVE OneBusy'
  <2>1. Same
    BY <1>11, <1>a DEF ListenerDies, Drop, files
  <2> QED
    BY <2>1, <1>e
<1>12. ASSUME ListenerStarts PROVE OneBusy'
  <2>1. Same
    BY <1>12, <1>a DEF ListenerStarts, files
  <2> QED
    BY <2>1, <1>e
<1>13. ASSUME NEW s \in Shots, FlushSpawns(s) PROVE OneBusy'
  BY <1>13, <1>a, <1>b, <1>c, <1>d DEF FlushSpawns, MayFlush, AdvanceCursor, files, Nobody, IsAgentBusy
<1>14. ASSUME NEW s \in Shots, KillShot(s) PROVE OneBusy'
  BY <1>14, <1>a, <1>b, <1>c, <1>d DEF KillShot, Fault, Drop, files, Nobody, IsAgentBusy
<1>15. ASSUME TakeQueue PROVE OneBusy'
  BY <1>15, <1>a, <1>b, <1>c, <1>d DEF TakeQueue, files, Nobody, IsAgentBusy
<1>16. ASSUME LoadForBatch PROVE OneBusy'
  BY <1>16, <1>a, <1>b, <1>c, <1>d DEF LoadForBatch, files, Nobody, IsAgentBusy
<1>17. ASSUME RunBatch PROVE OneBusy'
  BY <1>17, <1>a, <1>b, <1>c, <1>d, WhoRuns DEF RunBatch, files, Nobody, IsAgentBusy
<1>18. ASSUME RunFinishes PROVE OneBusy'
  BY <1>18, <1>a, <1>b, <1>c, <1>d DEF RunFinishes, BatchEnds, files, Nobody, IsAgentBusy
<1>19. ASSUME QueueDone PROVE OneBusy'
  BY <1>19, <1>a, <1>b, <1>c, <1>d DEF QueueDone, files, Nobody, IsAgentBusy
<1>20. ASSUME DaemonStarts PROVE OneBusy'
  BY <1>20, <1>a, <1>b, <1>c, <1>d DEF DaemonStarts, files, Nobody, IsAgentBusy
<1>21. ASSUME RetryBatch PROVE OneBusy'
  BY <1>21, <1>a, <1>b, <1>c, <1>d, OthersRun DEF RetryBatch, Fault, Prompt, files, Nobody, IsAgentBusy
<1>22. ASSUME RunFails PROVE OneBusy'
  BY <1>22, <1>a, <1>b, <1>c, <1>d DEF RunFails, BatchEnds, Fault, Drop, files, Nobody, IsAgentBusy
<1>23. ASSUME LateRejection PROVE OneBusy'
  BY <1>23, <1>a, <1>b, <1>c, <1>d DEF LateRejection, Fault, files, Nobody, IsAgentBusy
<1>24. ASSUME DaemonDies PROVE OneBusy'
  BY <1>24, <1>a, <1>b, <1>c, <1>d DEF DaemonDies, DaemonEnds, DaemonDown, files, Nobody, IsAgentBusy
<1>25. ASSUME DaemonExits PROVE OneBusy'
  BY <1>25, <1>a, <1>b, <1>c, <1>d DEF DaemonExits, DaemonEnds, DaemonDown, files, Nobody, IsAgentBusy
<1>26. ASSUME NEW s \in Shots, ShotQueues(s) PROVE OneBusy'
  BY <1>26, <1>a, <1>b, <1>c, <1>d DEF ShotQueues, BusyChecked, IsAgentBusy, files, Nobody
<1>27. ASSUME NEW s \in Shots, ShotSkips(s) PROVE OneBusy'
  BY <1>27, <1>a, <1>b, <1>c, <1>d DEF ShotSkips, BusyChecked, IsAgentBusy, Drop, files, Nobody
<1>28. ASSUME NEW s \in Shots, ShotPasses(s) PROVE OneBusy'
  BY <1>28, <1>a, <1>b, <1>c, <1>d DEF ShotPasses, files, Nobody, IsAgentBusy
<1>29. ASSUME NEW s \in Shots, ShotRuns(s) PROVE OneBusy'
  BY <1>29, <1>a, <1>b, <1>c, <1>d, OthersRun DEF ShotRuns, Prompt, files, Nobody, IsAgentBusy
<1>30. ASSUME NEW s \in Shots, ShotFinishes(s) PROVE OneBusy'
  BY <1>30, <1>a, <1>b, <1>c, <1>d DEF ShotFinishes, ShotEnds, files, Nobody, IsAgentBusy
<1>31. ASSUME NEW s \in Shots, ShotRetries(s) PROVE OneBusy'
  BY <1>31, <1>a, <1>b, <1>c, <1>d, OthersRun DEF ShotRetries, Prompt, Fault, files, Nobody, IsAgentBusy
<1>32. ASSUME NEW s \in Shots, ShotFails(s) PROVE OneBusy'
  BY <1>32, <1>a, <1>b, <1>c, <1>d DEF ShotFails, ShotEnds, Fault, Drop, files, Nobody, IsAgentBusy
<1>33. ASSUME HookStarts PROVE OneBusy'
  BY <1>33, <1>a, <1>b, <1>c, <1>d DEF HookStarts, files, Nobody, IsAgentBusy
<1>34. ASSUME HookDrains PROVE OneBusy'
  <2>1. Same
    BY <1>34, <1>a DEF HookDrains, files
  <2> QED
    BY <2>1, <1>e
<1>35. ASSUME HookTells PROVE OneBusy'
  <2>1. Same
    BY <1>35, <1>a DEF HookTells, files
  <2> QED
    BY <2>1, <1>e
<1>36. CASE UNCHANGED vars
  BY <1>36, <1>e DEF vars
<1> QED
  BY <1>1, <1>2, <1>3, <1>4, <1>5, <1>6, <1>7, <1>8, <1>9, <1>10, <1>11, <1>12, <1>13, <1>14, <1>15, <1>16, <1>17, <1>18, <1>19, <1>20, <1>21, <1>22, <1>23, <1>24, <1>25, <1>26, <1>27, <1>28, <1>29, <1>30, <1>31, <1>32, <1>33, <1>34, <1>35, <1>36
  DEF Next, ListenerSteps, DaemonSteps, ShotSteps

-----------------------------------------------------------------------------
(* The scan                                                                *)

LEMMA LogOnceNext == ASSUME TypeOK, LogOnce, [Next]_vars PROVE LogOnce'
<1>1. ASSUME log' = log PROVE LogOnce'
  BY <1>1 DEF LogOnce
<1>2. ASSUME NEW m \in Messages, Send(m) PROVE LogOnce'
  <2>1. log' = Append(log, m) /\ log \in Seq(Messages) /\ Len(log) \in Nat
    BY <1>2 DEF Send, TypeOK
  <2>2. Len(log') = Len(log) + 1 /\ log'[Len(log) + 1] = m
        /\ \A i \in 1..Len(log) : log'[i] = log[i] /\ log[i] # m
    BY <1>2, <2>1 DEF Send, Range
  <2> QED
    BY <2>1, <2>2 DEF LogOnce
<1>3. ASSUME Next, ~\E m \in Messages : Send(m) PROVE log' = log
  BY <1>3 DEF Next, ListenerSteps, DaemonSteps, ShotSteps, files, BatchEnds, DaemonEnds, ShotEnds,
     AgentReads, Claim, DaemonDies, DaemonExits, DaemonStarts, ExitSeen, FlushLoses, FlushQueues, FlushSpawns, HookDrains, HookStarts, HookTells, KillShot, LateRejection, ListenerDies, ListenerStarts, LoadClaims, LoadForBatch, PassOver, QueueDone, RetryBatch, RunBatch, RunFails, RunFinishes, SaveState, Scan, ShotFails, ShotFinishes, ShotPasses, ShotQueues, ShotRetries, ShotRuns, ShotSkips, TakeQueue
<1>4. CASE UNCHANGED vars
  BY <1>1, <1>4 DEF vars
<1> QED
  BY <1>1, <1>2, <1>3, <1>4

LEMMA ScanningNext == ASSUME TypeOK, Scanning, [Next]_vars PROVE Scanning'
<1>a. /\ log \in Seq(Messages) /\ Len(log) \in Nat
      /\ listener \in [up : BOOLEAN, pc : {"idle", "scan", "claim"},
                       saved : 0..Len(log), seen : 0..Len(log),
                       todo : Seq(Messages), map : SUBSET Mentions,
                       batch : SUBSET Mentions, child : Shots \cup {Nobody}]
  BY DEF TypeOK
<1>b. ASSUME log' = log, listener' = listener PROVE Scanning'
  BY <1>b DEF Scanning
<1>1. ASSUME NEW m \in Messages, Send(m) PROVE Scanning'
  <2>1. listener' = listener /\ \A i \in 1..Len(log) : log'[i] = log[i]
    BY <1>1, <1>a DEF Send
  <2>2. \A i \in 1..listener.seen : log'[i] = log[i]
    BY <1>a, <2>1
  <2>3. \A x \in listener'.batch : \E i \in 1..listener'.seen : log'[i] = x
    BY <2>1, <2>2 DEF Scanning
  <2>4. listener.pc # "idle" =>
          \A k \in DOMAIN listener.todo :
             \E i \in (listener.saved + 1)..listener.seen : log'[i] = listener.todo[k]
    <3> SUFFICES ASSUME listener.pc # "idle", NEW k \in DOMAIN listener.todo
                 PROVE  \E i \in (listener.saved + 1)..listener.seen : log'[i] = listener.todo[k]
      OBVIOUS
    <3>1. PICK i \in (listener.saved + 1)..listener.seen : log[i] = listener.todo[k]
      BY DEF Scanning
    <3>2. i \in 1..listener.seen
      BY <1>a
    <3> QED
      BY <2>2, <3>1, <3>2
  <2> QED
    BY <2>1, <2>3, <2>4 DEF Scanning
<1>2. ASSUME AgentReads PROVE Scanning'
  BY <1>2, <1>b DEF AgentReads, files
<1>3. ASSUME Scan PROVE Scanning'
  <2> DEFINE todo == SubSeq(log, listener.seen + 1, Len(log))
  <2>1. /\ log' = log /\ listener'.up = listener.up /\ listener'.batch = listener.batch
        /\ listener'.pc = "scan" /\ listener'.saved = listener.saved
        /\ listener'.seen = Len(log) /\ listener'.todo = todo
        /\ listener.up /\ listener.pc = "idle"
    BY <1>3, <1>a DEF Scan, files
  <2>2. \A k \in DOMAIN todo : k + listener.seen \in (listener.seen + 1)..Len(log)
                               /\ todo[k] = log[k + listener.seen]
    BY SMTT(30), <1>a, SubSeqProperties
  <2>3. listener.saved = listener.seen /\ listener.seen \in 0..Len(log)
    BY <1>a, <2>1 DEF Scanning
  <2> HIDE DEF todo
  <2>4. \A k \in DOMAIN todo : \E i \in (listener.saved + 1)..Len(log) : log[i] = todo[k]
    BY <2>2, <2>3
  <2>5. \A m \in listener'.batch : \E i \in 1..Len(log) : log[i] = m
    <3>1. \A i \in 1..listener.seen : i \in 1..Len(log)
      BY <1>a
    <3> QED
      BY <2>1, <3>1 DEF Scanning
  <2>6. listener.saved <= Len(log)
    BY <1>a
  <2> QED
    BY <2>1, <2>4, <2>5, <2>6 DEF Scanning
<1>4. ASSUME PassOver PROVE Scanning'
  <2> DEFINE todo == Tail(listener.todo)
  <2>1. /\ log' = log /\ listener'.up = listener.up
        /\ listener'.pc = "scan" /\ listener'.saved = listener.saved
        /\ listener'.seen = listener.seen /\ listener'.todo = todo /\ listener.pc # "idle"
        /\ listener.todo # <<>>
    BY <1>4, <1>a DEF PassOver, files, Scanning
  <2>2. \A k \in DOMAIN todo : k + 1 \in DOMAIN listener.todo /\ todo[k] = listener.todo[k + 1]
    BY <1>a, <2>1
  <2> HIDE DEF todo
  <2>3. \A k \in DOMAIN todo :
           \E i \in (listener.saved + 1)..listener.seen : log[i] = todo[k]
    BY <2>1, <2>2 DEF Scanning
  <2>4. \A m \in listener'.batch : \E i \in 1..listener.seen : log[i] = m
    BY <1>4, <1>a DEF PassOver, Scanning
  <2> QED
    BY <2>1, <2>3, <2>4 DEF Scanning
<1>5. ASSUME LoadClaims PROVE Scanning'
  <2>1. /\ log' = log /\ listener' = [listener EXCEPT !.pc = "claim", !.map = claims]
        /\ listener.pc = "scan" /\ listener.todo # <<>> /\ listener.todo[1] \in Mentions
    BY <1>5, <1>a DEF LoadClaims, files
  <2> QED
    BY <1>a, <2>1 DEF Scanning
<1>6. ASSUME Claim PROVE Scanning'
  <2> DEFINE todo == Tail(listener.todo)
  <2>1. /\ log' = log /\ listener'.up = listener.up
        /\ listener'.pc = "scan" /\ listener'.saved = listener.saved
        /\ listener'.seen = listener.seen /\ listener'.todo = todo /\ listener.pc # "idle"
        /\ listener.todo # <<>>
    BY <1>6, <1>a DEF Claim, files, Scanning
  <2>2. \A k \in DOMAIN todo : k + 1 \in DOMAIN listener.todo /\ todo[k] = listener.todo[k + 1]
    BY <1>a, <2>1
  <2> HIDE DEF todo
  <2>3. \A k \in DOMAIN todo :
           \E i \in (listener.saved + 1)..listener.seen : log[i] = todo[k]
    BY <2>1, <2>2 DEF Scanning
  <2>4. \A m \in listener'.batch : \E i \in 1..listener.seen : log[i] = m
    <3>1. listener'.batch = listener.batch \cup {listener.todo[1]} /\ 1 \in DOMAIN listener.todo
      BY <1>6, <1>a, <2>1 DEF Claim
    <3>2. PICK i \in (listener.saved + 1)..listener.seen : log[i] = listener.todo[1]
      BY <2>1, <3>1 DEF Scanning
    <3>3. i \in 1..listener.seen
      BY <1>a
    <3> QED
      BY <3>1, <3>2, <3>3 DEF Scanning
  <2> QED
    BY <2>1, <2>3, <2>4 DEF Scanning
<1>7. ASSUME SaveState PROVE Scanning'
  BY <1>7, <1>a DEF Scanning, SaveState, files
<1>8. ASSUME FlushQueues PROVE Scanning'
  BY <1>8, <1>a DEF Scanning, FlushQueues, MayFlush, AdvanceCursor, files
<1>9. ASSUME NEW s \in Shots, ExitSeen(s) PROVE Scanning'
  BY <1>9, <1>a DEF Scanning, ExitSeen, files
<1>10. ASSUME FlushLoses PROVE Scanning'
  BY <1>10, <1>a DEF Scanning, FlushLoses, MayFlush, AdvanceCursor, Fault, Drop, files
<1>11. ASSUME ListenerDies PROVE Scanning'
  BY <1>11, <1>a DEF Scanning, ListenerDies, Drop, files
<1>12. ASSUME ListenerStarts PROVE Scanning'
  BY <1>12, <1>a DEF Scanning, ListenerStarts, files
<1>13. ASSUME NEW s \in Shots, FlushSpawns(s) PROVE Scanning'
  BY <1>13, <1>a DEF Scanning, FlushSpawns, MayFlush, AdvanceCursor, files
<1>14. ASSUME NEW s \in Shots, KillShot(s) PROVE Scanning'
  BY <1>14, <1>a DEF Scanning, KillShot, Fault, Drop, files
<1>15. ASSUME TakeQueue PROVE Scanning'
  BY <1>15, <1>b DEF TakeQueue, files
<1>16. ASSUME LoadForBatch PROVE Scanning'
  BY <1>16, <1>b DEF LoadForBatch, files
<1>17. ASSUME RunBatch PROVE Scanning'
  BY <1>17, <1>b DEF RunBatch, files
<1>18. ASSUME RunFinishes PROVE Scanning'
  BY <1>18, <1>b DEF RunFinishes, BatchEnds, files
<1>19. ASSUME QueueDone PROVE Scanning'
  BY <1>19, <1>b DEF QueueDone, files
<1>20. ASSUME DaemonStarts PROVE Scanning'
  BY <1>20, <1>b DEF DaemonStarts, files
<1>21. ASSUME RetryBatch PROVE Scanning'
  BY <1>21, <1>b DEF RetryBatch, Fault, Prompt, files
<1>22. ASSUME RunFails PROVE Scanning'
  BY <1>22, <1>b DEF RunFails, BatchEnds, Fault, Drop, files
<1>23. ASSUME LateRejection PROVE Scanning'
  BY <1>23, <1>b DEF LateRejection, Fault, files
<1>24. ASSUME DaemonDies PROVE Scanning'
  BY <1>24, <1>b DEF DaemonDies, DaemonEnds, DaemonDown, files
<1>25. ASSUME DaemonExits PROVE Scanning'
  BY <1>25, <1>b DEF DaemonExits, DaemonEnds, DaemonDown, files
<1>26. ASSUME NEW s \in Shots, ShotQueues(s) PROVE Scanning'
  BY <1>26, <1>b DEF ShotQueues, BusyChecked, IsAgentBusy, files
<1>27. ASSUME NEW s \in Shots, ShotSkips(s) PROVE Scanning'
  BY <1>27, <1>b DEF ShotSkips, BusyChecked, IsAgentBusy, Drop, files
<1>28. ASSUME NEW s \in Shots, ShotPasses(s) PROVE Scanning'
  BY <1>28, <1>b DEF ShotPasses, files
<1>29. ASSUME NEW s \in Shots, ShotRuns(s) PROVE Scanning'
  BY <1>29, <1>b DEF ShotRuns, Prompt, files
<1>30. ASSUME NEW s \in Shots, ShotFinishes(s) PROVE Scanning'
  BY <1>30, <1>b DEF ShotFinishes, ShotEnds, files
<1>31. ASSUME NEW s \in Shots, ShotRetries(s) PROVE Scanning'
  BY <1>31, <1>b DEF ShotRetries, Prompt, Fault, files
<1>32. ASSUME NEW s \in Shots, ShotFails(s) PROVE Scanning'
  BY <1>32, <1>b DEF ShotFails, ShotEnds, Fault, Drop, files
<1>33. ASSUME HookStarts PROVE Scanning'
  BY <1>33, <1>b DEF HookStarts, files
<1>34. ASSUME HookDrains PROVE Scanning'
  BY <1>34, <1>b DEF HookDrains, files
<1>35. ASSUME HookTells PROVE Scanning'
  BY <1>35, <1>b DEF HookTells, files
<1>36. CASE UNCHANGED vars
  BY <1>36, <1>b DEF vars
<1> QED
  BY <1>1, <1>2, <1>3, <1>4, <1>5, <1>6, <1>7, <1>8, <1>9, <1>10, <1>11, <1>12, <1>13, <1>14, <1>15, <1>16, <1>17, <1>18, <1>19, <1>20, <1>21, <1>22, <1>23, <1>24, <1>25, <1>26, <1>27, <1>28, <1>29, <1>30, <1>31, <1>32, <1>33, <1>34, <1>35, <1>36
  DEF Next, ListenerSteps, DaemonSteps, ShotSteps

-----------------------------------------------------------------------------
(* Who has a batch                                                         *)

LEMMA AtWorkNext == ASSUME TypeOK, AtWork, [Next]_vars PROVE AtWork'
<1>a. /\ daemon \in [pc : {"down", "idle", "next", "claim", "run", "retry"},
                     offset : 0..Len(queue), lines : Seq(SUBSET Mentions),
                     batch : SUBSET Mentions, map : SUBSET Mentions]
      /\ shot \in [Shots -> [pc : {"unused", "start", "begin", "run", "retry",
                                   "over", "gone"},
                             batch : SUBSET Mentions, own : BOOLEAN]]
  BY DEF TypeOK
<1>1. ASSUME NEW m \in Messages, Send(m) PROVE AtWork'
  BY <1>1, <1>a DEF AtWork, Send, files
<1>2. ASSUME AgentReads PROVE AtWork'
  BY <1>2, <1>a DEF AtWork, AgentReads, files
<1>3. ASSUME Scan PROVE AtWork'
  BY <1>3, <1>a DEF AtWork, Scan, files
<1>4. ASSUME PassOver PROVE AtWork'
  BY <1>4, <1>a DEF AtWork, PassOver, files
<1>5. ASSUME LoadClaims PROVE AtWork'
  BY <1>5, <1>a DEF AtWork, LoadClaims, files
<1>6. ASSUME Claim PROVE AtWork'
  BY <1>6, <1>a DEF AtWork, Claim, files
<1>7. ASSUME SaveState PROVE AtWork'
  BY <1>7, <1>a DEF AtWork, SaveState, files
<1>8. ASSUME FlushQueues PROVE AtWork'
  BY <1>8, <1>a DEF AtWork, FlushQueues, MayFlush, AdvanceCursor, files
<1>9. ASSUME NEW s \in Shots, ExitSeen(s) PROVE AtWork'
  BY <1>9, <1>a DEF AtWork, ExitSeen, files
<1>10. ASSUME FlushLoses PROVE AtWork'
  BY <1>10, <1>a DEF AtWork, FlushLoses, MayFlush, AdvanceCursor, Fault, Drop, files
<1>11. ASSUME ListenerDies PROVE AtWork'
  BY <1>11, <1>a DEF AtWork, ListenerDies, Drop, files
<1>12. ASSUME ListenerStarts PROVE AtWork'
  BY <1>12, <1>a DEF AtWork, ListenerStarts, files
<1>13. ASSUME NEW s \in Shots, FlushSpawns(s) PROVE AtWork'
  BY <1>13, <1>a DEF AtWork, FlushSpawns, MayFlush, AdvanceCursor, files
<1>14. ASSUME NEW s \in Shots, KillShot(s) PROVE AtWork'
  BY <1>14, <1>a DEF AtWork, KillShot, Fault, Drop, files
<1>15. ASSUME TakeQueue PROVE AtWork'
  BY <1>15, <1>a DEF AtWork, TakeQueue, files
<1>16. ASSUME LoadForBatch PROVE AtWork'
  BY <1>16, <1>a DEF AtWork, LoadForBatch, files
<1>17. ASSUME RunBatch PROVE AtWork'
  BY <1>17, <1>a DEF AtWork, RunBatch, files
<1>18. ASSUME RunFinishes PROVE AtWork'
  BY <1>18, <1>a DEF AtWork, RunFinishes, BatchEnds, files
<1>19. ASSUME QueueDone PROVE AtWork'
  BY <1>19, <1>a DEF AtWork, QueueDone, files
<1>20. ASSUME DaemonStarts PROVE AtWork'
  BY <1>20, <1>a DEF AtWork, DaemonStarts, files
<1>21. ASSUME RetryBatch PROVE AtWork'
  BY <1>21, <1>a DEF AtWork, RetryBatch, Fault, Prompt, files
<1>22. ASSUME RunFails PROVE AtWork'
  BY <1>22, <1>a DEF AtWork, RunFails, BatchEnds, Fault, Drop, files
<1>23. ASSUME LateRejection PROVE AtWork'
  BY <1>23, <1>a DEF AtWork, LateRejection, Fault, files
<1>24. ASSUME DaemonDies PROVE AtWork'
  BY <1>24, <1>a DEF AtWork, DaemonDies, DaemonEnds, DaemonDown, files
<1>25. ASSUME DaemonExits PROVE AtWork'
  BY <1>25, <1>a DEF AtWork, DaemonExits, DaemonEnds, DaemonDown, files
<1>26. ASSUME NEW s \in Shots, ShotQueues(s) PROVE AtWork'
  BY <1>26, <1>a DEF AtWork, ShotQueues, BusyChecked, IsAgentBusy, files
<1>27. ASSUME NEW s \in Shots, ShotSkips(s) PROVE AtWork'
  BY <1>27, <1>a DEF AtWork, ShotSkips, BusyChecked, IsAgentBusy, Drop, files
<1>28. ASSUME NEW s \in Shots, ShotPasses(s) PROVE AtWork'
  BY <1>28, <1>a DEF AtWork, ShotPasses, files
<1>29. ASSUME NEW s \in Shots, ShotRuns(s) PROVE AtWork'
  BY <1>29, <1>a DEF AtWork, ShotRuns, Prompt, files
<1>30. ASSUME NEW s \in Shots, ShotFinishes(s) PROVE AtWork'
  BY <1>30, <1>a DEF AtWork, ShotFinishes, ShotEnds, files
<1>31. ASSUME NEW s \in Shots, ShotRetries(s) PROVE AtWork'
  BY <1>31, <1>a DEF AtWork, ShotRetries, Prompt, Fault, files
<1>32. ASSUME NEW s \in Shots, ShotFails(s) PROVE AtWork'
  BY <1>32, <1>a DEF AtWork, ShotFails, ShotEnds, Fault, Drop, files
<1>33. ASSUME HookStarts PROVE AtWork'
  BY <1>33, <1>a DEF AtWork, HookStarts, files
<1>34. ASSUME HookDrains PROVE AtWork'
  BY <1>34, <1>a DEF AtWork, HookDrains, files
<1>35. ASSUME HookTells PROVE AtWork'
  BY <1>35, <1>a DEF AtWork, HookTells, files
<1>36. CASE UNCHANGED vars
  BY <1>36 DEF AtWork, vars
<1> QED
  BY <1>1, <1>2, <1>3, <1>4, <1>5, <1>6, <1>7, <1>8, <1>9, <1>10, <1>11, <1>12, <1>13, <1>14, <1>15, <1>16, <1>17, <1>18, <1>19, <1>20, <1>21, <1>22, <1>23, <1>24, <1>25, <1>26, <1>27, <1>28, <1>29, <1>30, <1>31, <1>32, <1>33, <1>34, <1>35, <1>36
  DEF Next, ListenerSteps, DaemonSteps, ShotSteps

-----------------------------------------------------------------------------
(* Where a message is                                                      *)

LEMMA QueueGrows ==
  ASSUME TypeOK, NEW B \in SUBSET Mentions, NEW m \in Mentions,
         queue' = Append(queue, B), daemon'.offset = daemon.offset
  PROVE  /\ InQueue(m)' <=> InQueue(m) \/ m \in B
         /\ QueuedOnce(m) /\ (m \in B => ~InQueue(m)) => QueuedOnce(m)'
<1>1. /\ Len(queue') = Len(queue) + 1 /\ Len(queue) \in Nat
      /\ queue'[Len(queue) + 1] = B
      /\ \A i \in (daemon.offset + 1)..Len(queue) : queue'[i] = queue[i]
      /\ daemon.offset \in 0..Len(queue)
  BY DEF TypeOK
<1>2. (daemon'.offset + 1)..Len(queue') = ((daemon.offset + 1)..Len(queue)) \cup {Len(queue) + 1}
  BY <1>1
<1> QED
  BY <1>1, <1>2 DEF InQueue, QueuedOnce

LEMMA QueueTaken ==
  ASSUME TypeOK, NEW m \in Mentions, queue' = queue, daemon'.offset = Len(queue),
         daemon'.lines = SubSeq(queue, daemon.offset + 1, Len(queue))
  PROVE  /\ ~InQueue(m)' /\ QueuedOnce(m)'
         /\ InLines(m)' <=> InQueue(m)
         /\ QueuedOnce(m) => LinedOnce(m)'
<1> DEFINE lines == SubSeq(queue, daemon.offset + 1, Len(queue))
           n == Len(queue) - daemon.offset
<1>1. queue \in Seq(SUBSET Mentions) /\ Len(queue) \in Nat /\ daemon.offset \in 0..Len(queue)
  BY DEF TypeOK
<1>2. DOMAIN lines = 1..n /\ n \in Nat
  BY <1>1, SubSeqProperties
<1>3. \A i \in 1..n : /\ i + daemon.offset \in (daemon.offset + 1)..Len(queue)
                      /\ lines[i] = queue[i + daemon.offset]
  BY <1>1, SubSeqProperties
<1>4. \A i \in (daemon.offset + 1)..Len(queue) :
        i - daemon.offset \in 1..n /\ lines[i - daemon.offset] = queue[i]
  BY SMTT(30), <1>1, <1>3
<1>5. (daemon'.offset + 1)..Len(queue') = {}
  BY <1>1
<1>6. daemon'.lines = lines
  OBVIOUS
<1> HIDE DEF lines, n
<1>7. InLines(m)' <=> InQueue(m)
  BY <1>2, <1>3, <1>4, <1>6 DEF InLines, InQueue
<1>8. QueuedOnce(m) => LinedOnce(m)'
  <2> SUFFICES ASSUME QueuedOnce(m), NEW i \in 1..n, NEW j \in 1..n, m \in lines[i], m \in lines[j]
               PROVE  i = j
    BY <1>2, <1>6 DEF LinedOnce
  <2>1. i + daemon.offset = j + daemon.offset
    BY <1>3 DEF QueuedOnce
  <2> QED
    BY <1>1, <2>1
<1> QED
  BY <1>5, <1>7, <1>8 DEF InQueue, QueuedOnce

LEMMA LineLoaded ==
  ASSUME TypeOK, NEW m \in Mentions, daemon.lines # <<>>, daemon'.lines = Tail(daemon.lines)
  PROVE  /\ InLines(m) <=> InLines(m)' \/ m \in Head(daemon.lines)
         /\ LinedOnce(m) => LinedOnce(m)' /\ (m \in Head(daemon.lines) => ~InLines(m)')
<1> DEFINE lines == Tail(daemon.lines)
           n == Len(daemon.lines)
<1>1. daemon.lines \in Seq(SUBSET Mentions) /\ n \in Nat \ {0} /\ DOMAIN daemon.lines = 1..n
  BY DEF TypeOK
<1>2. DOMAIN lines = 1..(n - 1) /\ Head(daemon.lines) = daemon.lines[1]
      /\ \A i \in 1..(n - 1) : lines[i] = daemon.lines[i + 1]
  BY <1>1
<1>3. /\ \A i \in 1..(n - 1) : i + 1 \in 1..n /\ i + 1 # 1
      /\ \A i \in 1..n : i = 1 \/ (i - 1 \in 1..(n - 1) /\ (i - 1) + 1 = i)
      /\ 1 \in 1..n
  BY <1>1
<1>4. daemon'.lines = lines
  OBVIOUS
<1> HIDE DEF lines, n
<1>5. InLines(m) <=> InLines(m)' \/ m \in Head(daemon.lines)
  <2>1. ASSUME NEW i \in 1..n, m \in daemon.lines[i] PROVE InLines(m)' \/ m \in Head(daemon.lines)
    <3>1. CASE i = 1
      BY <1>2, <2>1, <3>1
    <3>2. CASE i - 1 \in 1..(n - 1) /\ (i - 1) + 1 = i
      <4>1. m \in lines[i - 1] /\ i - 1 \in DOMAIN lines
        BY <1>2, <2>1, <3>2
      <4> QED
        BY <1>4, <4>1 DEF InLines
    <3> QED
      BY <1>3, <3>1, <3>2
  <2>2. ASSUME NEW i \in 1..(n - 1), m \in lines[i] PROVE InLines(m)
    <3>1. i + 1 \in 1..n /\ m \in daemon.lines[i + 1]
      BY <1>2, <1>3, <2>2
    <3> QED
      BY <1>1, <3>1 DEF InLines
  <2>3. m \in Head(daemon.lines) => InLines(m)
    BY <1>1, <1>2, <1>3 DEF InLines
  <2> QED
    BY <1>1, <1>2, <1>4, <2>1, <2>2, <2>3 DEF InLines
<1>6. ASSUME LinedOnce(m) PROVE LinedOnce(m)'
  <2> SUFFICES ASSUME NEW i \in 1..(n - 1), NEW j \in 1..(n - 1), m \in lines[i], m \in lines[j]
               PROVE  i = j
    BY <1>2, <1>4 DEF LinedOnce
  <2>1. i + 1 = j + 1
    BY <1>1, <1>2, <1>3, <1>6 DEF LinedOnce
  <2> QED
    BY <1>1, <2>1
<1>7. ASSUME LinedOnce(m), m \in Head(daemon.lines) PROVE ~InLines(m)'
  <2> SUFFICES ASSUME NEW i \in 1..(n - 1), m \in lines[i] PROVE FALSE
    BY <1>2, <1>4 DEF InLines
  <2>1. i + 1 \in 1..n /\ i + 1 # 1 /\ m \in daemon.lines[i + 1]
    BY <1>2, <1>3
  <2>2. 1 \in DOMAIN daemon.lines /\ m \in daemon.lines[1]
    BY <1>1, <1>2, <1>3, <1>7
  <2>3. 1 = i + 1
    BY <1>1, <1>7, <2>1, <2>2 DEF LinedOnce
  <2> QED
    BY <2>1, <2>3
<1> QED
  BY <1>5, <1>6, <1>7

LEMMA QueueStands ==
  ASSUME NEW m \in Mentions, queue' = queue, daemon'.offset = daemon.offset
  PROVE  (InQueue(m)' <=> InQueue(m)) /\ (QueuedOnce(m)' <=> QueuedOnce(m))
BY DEF InQueue, QueuedOnce

LEMMA LinesStand ==
  ASSUME NEW m \in Mentions, daemon'.lines = daemon.lines
  PROVE  (InLines(m)' <=> InLines(m)) /\ (LinedOnce(m)' <=> LinedOnce(m))
BY DEF InLines, LinedOnce

LEMMA NoLines ==
  ASSUME NEW m \in Mentions, daemon'.lines = <<>>
  PROVE  ~InLines(m)' /\ LinedOnce(m)'
BY DEF InLines, LinedOnce

LEMMA ShotsStand ==
  ASSUME NEW m \in Mentions, \A s \in Shots : shot'[s].batch = shot[s].batch
  PROVE  (InShot(m)' <=> InShot(m)) /\ (ShotOnce(m)' <=> ShotOnce(m))
BY DEF InShot, ShotOnce

LEMMA ShotEmptied ==
  ASSUME NEW m \in Mentions, NEW s \in Shots, shot'[s].batch = {},
         \A t \in Shots \ {s} : shot'[t] = shot[t]
  PROVE  /\ InShot(m) <=> InShot(m)' \/ m \in shot[s].batch
         /\ ShotOnce(m) => ShotOnce(m)' /\ (m \in shot[s].batch => ~InShot(m)')
BY DEF InShot, ShotOnce

LEMMA ShotFilled ==
  ASSUME NEW m \in Mentions, NEW s \in Shots, shot[s].batch = {},
         \A t \in Shots \ {s} : shot'[t] = shot[t]
  PROVE  /\ InShot(m)' <=> InShot(m) \/ m \in shot'[s].batch
         /\ ShotOnce(m) /\ (m \in shot'[s].batch => ~InShot(m)) => ShotOnce(m)'
BY DEF InShot, ShotOnce

LEMMA SavedStands ==
  ASSUME TypeOK, NEW m \in Mentions, Saved(m), listener'.saved \in Nat,
         listener.saved <= listener'.saved,
         \A i \in 1..Len(log) : log'[i] = log[i]
  PROVE  Saved(m)'
<1>1. PICK i \in 1..listener.saved : log[i] = m
  BY DEF Saved
<1>2. i \in 1..listener'.saved /\ i \in 1..Len(log)
  BY DEF TypeOK
<1> QED
  BY <1>1, <1>2 DEF Saved

-----------------------------------------------------------------------------
(* Handed on once                                                          *)

LEMMA FitsNext ==
  ASSUME TypeOK, LogOnce, Scanning, AtWork, [Next]_vars, NEW m \in Mentions, Fits(m)
  PROVE  Fits(m)'
<1>a. /\ log \in Seq(Messages) /\ Len(log) \in Nat
      /\ listener \in [up : BOOLEAN, pc : {"idle", "scan", "claim"},
                       saved : 0..Len(log), seen : 0..Len(log),
                       todo : Seq(Messages), map : SUBSET Mentions,
                       batch : SUBSET Mentions, child : Shots \cup {Nobody}]
      /\ daemon \in [pc : {"down", "idle", "next", "claim", "run", "retry"},
                     offset : 0..Len(queue), lines : Seq(SUBSET Mentions),
                     batch : SUBSET Mentions, map : SUBSET Mentions]
      /\ shot \in [Shots -> [pc : {"unused", "start", "begin", "run", "retry",
                                   "over", "gone"},
                             batch : SUBSET Mentions, own : BOOLEAN]]
      /\ past \in [claimed : SUBSET Mentions, told : SUBSET Mentions,
                   dropped : SUBSET Mentions, early : SUBSET Mentions,
                   overwritten : SUBSET Mentions, disturbed : BOOLEAN,
                   runs : [Mentions -> Nat]]
  BY DEF TypeOK
<1>b. past.runs[m] \in Nat
  BY <1>a
<1>r. \A pc \in {"down", "idle", "next", "claim", "unused", "start", "begin", "over", "gone"} :
         RunsAt(pc) = 0
  BY DEF RunsAt
<1>s. RunsAt("run") = 1 /\ RunsAt("retry") = 2
  BY DEF RunsAt
<1> HIDE DEF RunsAt
<1> DEFINE Queue == (InQueue(m)' <=> InQueue(m)) /\ (QueuedOnce(m)' <=> QueuedOnce(m))
           Lines == (InLines(m)' <=> InLines(m)) /\ (LinedOnce(m)' <=> LinedOnce(m))
           Batch == (m \in daemon'.batch <=> m \in daemon.batch)
                    /\ RunsAt(daemon'.pc) = RunsAt(daemon.pc)
           Batches == (InShot(m)' <=> InShot(m)) /\ (ShotOnce(m)' <=> ShotOnce(m))
           Ran == \A s \in Shots : m \in shot'[s].batch =>
                    m \in shot[s].batch /\ RunsAt(shot'[s].pc) = RunsAt(shot[s].pc)
           Scanned == /\ Saved(m) => Saved(m)'
                      /\ m \in listener'.batch <=> m \in listener.batch
           Past == /\ m \in past'.claimed => m \in past.claimed
                   /\ m \in past.dropped => m \in past'.dropped
           Runs == past'.runs[m] = past.runs[m]
<1>q. ASSUME queue' = queue, daemon'.offset = daemon.offset PROVE Queue
  BY <1>q, QueueStands
<1>l. ASSUME daemon'.lines = daemon.lines PROVE Lines
  BY <1>l, LinesStand
<1>d. ASSUME daemon' = daemon, queue' = queue PROVE Queue /\ Lines /\ Batch
  BY <1>d, <1>q, <1>l
<1>e. ASSUME \A s \in Shots : shot'[s].batch = shot[s].batch PROVE Batches
  BY <1>e, ShotsStand
<1>g. ASSUME shot' = shot PROVE Batches /\ Ran
  BY <1>e, <1>g
<1>h. ASSUME listener'.saved \in Nat, listener.saved <= listener'.saved,
             \A i \in 1..Len(log) : log'[i] = log[i], Saved(m)
      PROVE  Saved(m)'
  BY <1>h, SavedStands
<1>i. ASSUME listener' = listener, log' = log PROVE Scanned
  BY <1>i DEF Saved
<1>j. ASSUME past' = past PROVE Past /\ Runs
  BY <1>j
<1> HIDE DEF Queue, Lines, Batches
<1>k. ASSUME Queue, Lines, Batch, Batches, Ran, Scanned, Past, Runs PROVE Fits(m)'
  BY <1>k DEF Fits, OnePlace, RunsFit, Behind, Carried, Handed, Queue, Lines, Batches
<1>1. ASSUME NEW x \in Messages, Send(x) PROVE Fits(m)'
  <2>1. Queue /\ Lines
    BY <1>1, <1>d DEF Send, files
  <2>2. Batch
    BY <1>1, <1>d DEF Send, files
  <2>3. Batches
    BY <1>1, <1>g DEF Send, files
  <2>4. Ran
    BY <1>1, <1>g DEF Send, files
  <2>5. Scanned
    <3>1. /\ listener'.saved \in Nat /\ listener.saved <= listener'.saved
          /\ \A i \in 1..Len(log) : log'[i] = log[i]
          /\ listener'.batch = listener.batch
      BY <1>1, <1>a DEF Send, files, Scanning
    <3> QED
      BY <1>h, <3>1
  <2>6. Past /\ Runs
    BY <1>1, <1>a, <1>j DEF Send
  <2> QED
    BY <1>k, <2>1, <2>2, <2>3, <2>4, <2>5, <2>6
<1>2. ASSUME AgentReads PROVE Fits(m)'
  <2>1. Queue /\ Lines
    BY <1>2, <1>d DEF AgentReads, files
  <2>2. Batch
    BY <1>2, <1>d DEF AgentReads, files
  <2>3. Batches
    BY <1>2, <1>g DEF AgentReads, files
  <2>4. Ran
    BY <1>2, <1>g DEF AgentReads, files
  <2>5. Scanned
    BY <1>2, <1>i DEF AgentReads, files
  <2>6. Past /\ Runs
    BY <1>2, <1>a, <1>j DEF AgentReads
  <2> QED
    BY <1>k, <2>1, <2>2, <2>3, <2>4, <2>5, <2>6
<1>3. ASSUME Scan PROVE Fits(m)'
  <2>1. Queue /\ Lines
    BY <1>3, <1>d DEF Scan, files
  <2>2. Batch
    BY <1>3, <1>d DEF Scan, files
  <2>3. Batches
    BY <1>3, <1>g DEF Scan, files
  <2>4. Ran
    BY <1>3, <1>g DEF Scan, files
  <2>5. Scanned
    <3>1. /\ listener'.saved \in Nat /\ listener.saved <= listener'.saved
          /\ \A i \in 1..Len(log) : log'[i] = log[i]
          /\ listener'.batch = listener.batch
      BY <1>3, <1>a DEF Scan, files, Scanning
    <3> QED
      BY <1>h, <3>1
  <2>6. Past /\ Runs
    BY <1>3, <1>a, <1>j DEF Scan
  <2> QED
    BY <1>k, <2>1, <2>2, <2>3, <2>4, <2>5, <2>6
<1>4. ASSUME PassOver PROVE Fits(m)'
  <2>1. Queue /\ Lines
    BY <1>4, <1>d DEF PassOver, files
  <2>2. Batch
    BY <1>4, <1>d DEF PassOver, files
  <2>3. Batches
    BY <1>4, <1>g DEF PassOver, files
  <2>4. Ran
    BY <1>4, <1>g DEF PassOver, files
  <2>5. Scanned
    <3>1. /\ listener'.saved \in Nat /\ listener.saved <= listener'.saved
          /\ \A i \in 1..Len(log) : log'[i] = log[i]
          /\ listener'.batch = listener.batch
      BY <1>4, <1>a DEF PassOver, files, Scanning
    <3> QED
      BY <1>h, <3>1
  <2>6. Past /\ Runs
    BY <1>4, <1>a, <1>j DEF PassOver
  <2> QED
    BY <1>k, <2>1, <2>2, <2>3, <2>4, <2>5, <2>6
<1>5. ASSUME LoadClaims PROVE Fits(m)'
  <2>1. Queue /\ Lines
    BY <1>5, <1>d DEF LoadClaims, files
  <2>2. Batch
    BY <1>5, <1>d DEF LoadClaims, files
  <2>3. Batches
    BY <1>5, <1>g DEF LoadClaims, files
  <2>4. Ran
    BY <1>5, <1>g DEF LoadClaims, files
  <2>5. Scanned
    <3>1. /\ listener'.saved \in Nat /\ listener.saved <= listener'.saved
          /\ \A i \in 1..Len(log) : log'[i] = log[i]
          /\ listener'.batch = listener.batch
      BY <1>5, <1>a DEF LoadClaims, files, Scanning
    <3> QED
      BY <1>h, <3>1
  <2>6. Past /\ Runs
    BY <1>5, <1>a, <1>j DEF LoadClaims
  <2> QED
    BY <1>k, <2>1, <2>2, <2>3, <2>4, <2>5, <2>6
<1>6. ASSUME Claim PROVE Fits(m)'
  <2> DEFINE x == listener.todo[1]
  <2>1. Queue /\ Lines /\ Batch
    BY <1>6, <1>d DEF Claim
  <2>2. Batches /\ Ran
    BY <1>6, <1>g DEF Claim
  <2>3. /\ listener'.batch = listener.batch \cup {x} /\ listener'.saved = listener.saved
        /\ past'.claimed = past.claimed \cup {x} /\ past'.dropped = past.dropped
        /\ past'.runs = past.runs /\ log' = log /\ listener.pc = "claim"
    BY <1>6, <1>a DEF Claim, Scanning
  <2>4. m = x => ~Saved(m)
    <3> SUFFICES ASSUME m = x, Saved(m) PROVE FALSE
      OBVIOUS
    <3>1. 1 \in DOMAIN listener.todo
      BY <1>a, <2>3 DEF Scanning
    <3>2. PICK i \in (listener.saved + 1)..listener.seen : log[i] = x
      BY <2>3, <3>1 DEF Scanning
    <3>3. PICK j \in 1..listener.saved : log[j] = m
      BY DEF Saved
    <3>4. i \in 1..Len(log) /\ j \in 1..Len(log) /\ i # j
      BY <1>a
    <3> QED
      BY <3>2, <3>3, <3>4 DEF LogOnce
  <2>5. Saved(m)' <=> Saved(m)
    BY <2>3 DEF Saved
  <2> HIDE DEF x
  <2> QED
    BY <1>a, <1>b, <1>r, <1>s, <2>1, <2>2, <2>3, <2>4, <2>5
    DEF Fits, OnePlace, RunsFit, Behind, Carried, Handed, Queue, Lines, Batches
<1>7. ASSUME SaveState PROVE Fits(m)'
  <2>1. Queue /\ Lines
    BY <1>7, <1>d DEF SaveState, files
  <2>2. Batch
    BY <1>7, <1>d DEF SaveState, files
  <2>3. Batches
    BY <1>7, <1>g DEF SaveState, files
  <2>4. Ran
    BY <1>7, <1>g DEF SaveState, files
  <2>5. Scanned
    <3>1. /\ listener'.saved \in Nat /\ listener.saved <= listener'.saved
          /\ \A i \in 1..Len(log) : log'[i] = log[i]
          /\ listener'.batch = listener.batch
      BY <1>7, <1>a DEF SaveState, files, Scanning
    <3> QED
      BY <1>h, <3>1
  <2>6. Past /\ Runs
    BY <1>7, <1>a, <1>j DEF SaveState
  <2> QED
    BY <1>k, <2>1, <2>2, <2>3, <2>4, <2>5, <2>6
<1>8. ASSUME FlushQueues PROVE Fits(m)'
  <2>1. /\ InQueue(m)' <=> InQueue(m) \/ m \in listener.batch
        /\ QueuedOnce(m) /\ (m \in listener.batch => ~InQueue(m)) => QueuedOnce(m)'
    BY <1>8, <1>a, QueueGrows DEF FlushQueues
  <2>2. Lines /\ Batch
    BY <1>8, <1>l DEF FlushQueues
  <2>3. Batches /\ Ran
    BY <1>8, <1>g DEF FlushQueues
  <2>4. listener'.batch = {} /\ Past /\ Runs
    BY <1>8, <1>a, <1>j DEF FlushQueues
  <2>5. m \in listener.batch => Saved(m)
    BY <1>8 DEF FlushQueues, MayFlush, Scanning, Saved
  <2>6. Saved(m)' <=> Saved(m)
    BY <1>8, <1>a DEF FlushQueues, Saved
  <2> QED
    BY <1>a, <1>b, <1>r, <1>s, <2>1, <2>2, <2>3, <2>4, <2>5, <2>6
    DEF Fits, OnePlace, RunsFit, Behind, Carried, Handed, Queue, Lines, Batches
<1>9. ASSUME NEW s \in Shots, ExitSeen(s) PROVE Fits(m)'
  <2>1. Queue /\ Lines
    BY <1>9, <1>d DEF ExitSeen, files
  <2>2. Batch
    BY <1>9, <1>d DEF ExitSeen, files
  <2>3. Batches
    <3>1. \A t \in Shots : shot'[t].batch = shot[t].batch
      BY <1>9, <1>a DEF ExitSeen
    <3> QED
      BY <1>e, <3>1
  <2>4. Ran
    BY <1>9, <1>a, <1>r DEF ExitSeen
  <2>5. Scanned
    <3>1. /\ listener'.saved \in Nat /\ listener.saved <= listener'.saved
          /\ \A i \in 1..Len(log) : log'[i] = log[i]
          /\ listener'.batch = listener.batch
      BY <1>9, <1>a DEF ExitSeen, files, Scanning
    <3> QED
      BY <1>h, <3>1
  <2>6. Past /\ Runs
    BY <1>9, <1>a, <1>j DEF ExitSeen
  <2> QED
    BY <1>k, <2>1, <2>2, <2>3, <2>4, <2>5, <2>6
<1>10. ASSUME FlushLoses PROVE Fits(m)'
  <2>1. Queue /\ Lines /\ Batch
    BY <1>10, <1>d DEF FlushLoses
  <2>2. Batches /\ Ran
    BY <1>10, <1>g DEF FlushLoses
  <2>3. /\ listener'.batch = {} /\ past'.claimed = past.claimed
        /\ past'.dropped = past.dropped \cup listener.batch /\ past'.runs = past.runs
    BY <1>10, <1>a DEF FlushLoses, Drop
  <2>4. Saved(m)' <=> Saved(m)
    BY <1>10, <1>a DEF FlushLoses, Saved
  <2> QED
    BY <1>a, <1>b, <1>r, <1>s, <2>1, <2>2, <2>3, <2>4
    DEF Fits, OnePlace, RunsFit, Behind, Carried, Handed, Queue, Lines, Batches
<1>11. ASSUME ListenerDies PROVE Fits(m)'
  <2>1. Queue /\ Lines /\ Batch
    BY <1>11, <1>d DEF ListenerDies, files
  <2>2. \A s \in Shots : shot'[s].batch = shot[s].batch /\ shot'[s].pc = shot[s].pc
    BY <1>11, <1>a DEF ListenerDies
  <2>3. Batches /\ Ran
    BY <1>e, <2>2
  <2>4. /\ listener'.batch = {} /\ past'.claimed = past.claimed
        /\ past'.dropped = past.dropped \cup listener.batch /\ past'.runs = past.runs
    BY <1>11, <1>a DEF ListenerDies, Drop
  <2>5. Saved(m)' <=> Saved(m)
    BY <1>11, <1>a DEF ListenerDies, Saved, files
  <2> QED
    BY <1>a, <1>b, <1>r, <1>s, <2>1, <2>3, <2>4, <2>5
    DEF Fits, OnePlace, RunsFit, Behind, Carried, Handed, Queue, Lines, Batches
<1>12. ASSUME ListenerStarts PROVE Fits(m)'
  <2>1. Queue /\ Lines
    BY <1>12, <1>d DEF ListenerStarts, files
  <2>2. Batch
    BY <1>12, <1>d DEF ListenerStarts, files
  <2>3. Batches
    BY <1>12, <1>g DEF ListenerStarts, files
  <2>4. Ran
    BY <1>12, <1>g DEF ListenerStarts, files
  <2>5. Scanned
    <3>1. /\ listener'.saved \in Nat /\ listener.saved <= listener'.saved
          /\ \A i \in 1..Len(log) : log'[i] = log[i]
          /\ listener'.batch = listener.batch
      BY <1>12, <1>a DEF ListenerStarts, files, Scanning
    <3> QED
      BY <1>h, <3>1
  <2>6. Past /\ Runs
    BY <1>12, <1>a, <1>j DEF ListenerStarts
  <2> QED
    BY <1>k, <2>1, <2>2, <2>3, <2>4, <2>5, <2>6
<1>13. ASSUME NEW s \in Shots, FlushSpawns(s) PROVE Fits(m)'
  <2>1. Queue /\ Lines /\ Batch
    BY <1>13, <1>d DEF FlushSpawns
  <2>2. /\ \A t \in Shots \ {s} : shot'[t] = shot[t]
        /\ shot'[s].batch = listener.batch /\ shot'[s].pc = "start"
        /\ shot[s].batch = {}
    BY <1>13, <1>a DEF FlushSpawns, AtWork
  <2>3. /\ InShot(m)' <=> InShot(m) \/ m \in listener.batch
        /\ ShotOnce(m) /\ (m \in listener.batch => ~InShot(m)) => ShotOnce(m)'
    BY <2>2, ShotFilled
  <2>4. \A t \in Shots : m \in shot'[t].batch =>
           \/ m \in shot[t].batch /\ shot'[t].pc = shot[t].pc
           \/ m \in listener.batch /\ shot'[t].pc = "start"
    BY <2>2
  <2>5. listener'.batch = {} /\ Past /\ Runs
    BY <1>13, <1>a, <1>j DEF FlushSpawns
  <2>6. m \in listener.batch => Saved(m)
    BY <1>13 DEF FlushSpawns, MayFlush, Scanning, Saved
  <2>7. Saved(m)' <=> Saved(m)
    BY <1>13, <1>a DEF FlushSpawns, Saved
  <2> QED
    BY <1>a, <1>b, <1>r, <1>s, <2>1, <2>3, <2>4, <2>5, <2>6, <2>7
    DEF Fits, OnePlace, RunsFit, Behind, Carried, Handed, Queue, Lines, Batches
<1>14. ASSUME NEW s \in Shots, KillShot(s) PROVE Fits(m)'
  <2>1. Queue /\ Lines /\ Batch
    BY <1>14, <1>d DEF KillShot, Fault, Drop, files
  <2>2. /\ \A t \in Shots \ {s} : shot'[t] = shot[t]
        /\ shot'[s].batch = {}
    BY <1>14, <1>a DEF KillShot, Fault, Drop
  <2>3. /\ InShot(m) <=> InShot(m)' \/ m \in shot[s].batch
        /\ ShotOnce(m) => ShotOnce(m)' /\ (m \in shot[s].batch => ~InShot(m)')
    BY <2>2, ShotEmptied
  <2>4. Ran
    BY <2>2
  <2>5. Saved(m)' <=> Saved(m)
    BY <1>14, <1>a DEF KillShot, Fault, Drop, Saved, files
  <2>6. listener'.batch = listener.batch
    BY <1>14, <1>a DEF KillShot, Fault, Drop, files
  <2>7. /\ past'.claimed = past.claimed /\ past'.runs = past.runs
        /\ past'.dropped = past.dropped \cup shot[s].batch
    BY <1>14, <1>a DEF KillShot, Fault, Drop
  <2> QED
    BY <1>a, <1>b, <1>r, <1>s, <2>1, <2>3, <2>4, <2>5, <2>6, <2>7
    DEF Fits, OnePlace, RunsFit, Behind, Carried, Handed, Queue, Lines, Batches
<1>15. ASSUME TakeQueue PROVE Fits(m)'
  <2>1. /\ daemon'.lines = SubSeq(queue, daemon.offset + 1, Len(queue))
        /\ daemon'.offset = Len(queue) /\ daemon'.batch = daemon.batch
        /\ daemon'.pc = "next" /\ daemon.pc = "idle" /\ queue' = queue
    BY <1>15, <1>a DEF TakeQueue, files
  <2>2. /\ ~InQueue(m)' /\ QueuedOnce(m)' /\ (InLines(m)' <=> InQueue(m))
        /\ QueuedOnce(m) => LinedOnce(m)'
    BY <2>1, QueueTaken
  <2>3. ~InLines(m) /\ daemon.batch = {}
    BY <2>1 DEF AtWork, InLines
  <2>4. Batches /\ Ran
    BY <1>15, <1>g DEF TakeQueue
  <2>5. Scanned /\ Past /\ Runs
    BY <1>15, <1>i, <1>j DEF TakeQueue, files
  <2> QED
    BY <1>a, <1>b, <1>r, <1>s, <2>1, <2>2, <2>3, <2>4, <2>5
    DEF Fits, OnePlace, RunsFit, Behind, Carried, Handed, Queue, Lines, Batches
<1>16. ASSUME LoadForBatch PROVE Fits(m)'
  <2>1. /\ daemon.lines # <<>> /\ daemon'.lines = Tail(daemon.lines)
        /\ daemon'.batch = Head(daemon.lines) /\ daemon'.offset = daemon.offset
        /\ daemon'.pc = "claim" /\ daemon.pc = "next" /\ queue' = queue
    BY <1>16, <1>a DEF LoadForBatch, files
  <2>2. /\ InLines(m) <=> InLines(m)' \/ m \in Head(daemon.lines)
        /\ LinedOnce(m) => LinedOnce(m)' /\ (m \in Head(daemon.lines) => ~InLines(m)')
    BY <2>1, LineLoaded
  <2>3. Queue
    BY <1>q, <2>1
  <2>4. daemon.batch = {}
    BY <2>1 DEF AtWork
  <2>5. Batches /\ Ran
    BY <1>16, <1>g DEF LoadForBatch
  <2>6. Scanned /\ Past /\ Runs
    BY <1>16, <1>i, <1>j DEF LoadForBatch, files
  <2> QED
    BY <1>a, <1>b, <1>r, <1>s, <2>1, <2>2, <2>3, <2>4, <2>5, <2>6
    DEF Fits, OnePlace, RunsFit, Behind, Carried, Handed, Queue, Lines, Batches
<1>17. ASSUME RunBatch PROVE Fits(m)'
  <2>1. Queue /\ Lines
    BY <1>17, <1>a, <1>q, <1>l DEF RunBatch, files
  <2>2. Batches /\ Ran
    BY <1>17, <1>g DEF RunBatch, files
  <2>3. daemon'.batch = daemon.batch /\ daemon.pc = "claim" /\ daemon'.pc = "run"
    BY <1>17, <1>a DEF RunBatch
  <2>4. Scanned
    BY <1>17, <1>i DEF RunBatch, files
  <2>5. /\ Past
        /\ past'.runs[m] = past.runs[m] + IF m \in daemon.batch THEN 1 ELSE 0
    BY <1>17, <1>a DEF RunBatch
  <2>6. m \in daemon.batch => past'.runs[m] = RunsAt("run")
    BY <1>r, <1>s, <2>3, <2>5 DEF Fits, RunsFit
  <2>7. m \in daemon.batch => ~InQueue(m) /\ ~InLines(m) /\ \A t \in Shots : m \notin shot[t].batch
    BY DEF Fits, OnePlace, InShot
  <2>8. m \notin daemon.batch => Runs
    BY <1>b, <2>5
  <2> QED
    BY <1>a, <1>b, <1>r, <1>s, <2>1, <2>2, <2>3, <2>4, <2>5, <2>6, <2>7, <2>8
    DEF Fits, OnePlace, RunsFit, Behind, Carried, Handed, Queue, Lines, Batches
<1>18. ASSUME RunFinishes PROVE Fits(m)'
  <2>1. Queue /\ Lines
    BY <1>18, <1>a, <1>q, <1>l DEF RunFinishes, BatchEnds, files
  <2>2. Batches /\ Ran
    BY <1>18, <1>g DEF RunFinishes, BatchEnds, files
  <2>3. daemon'.batch = {} /\ daemon.pc \in {"run", "retry"}
    BY <1>18, <1>a DEF RunFinishes, BatchEnds
  <2>4. Scanned
    BY <1>18, <1>i DEF RunFinishes, BatchEnds, files
  <2>5. Past /\ Runs
    BY <1>18, <1>a, <1>j DEF RunFinishes, BatchEnds
  <2>6. m \in daemon.batch => past.runs[m] # 0
    BY <1>s, <2>3 DEF Fits, RunsFit
  <2> QED
    BY <1>a, <1>b, <1>r, <1>s, <2>1, <2>2, <2>3, <2>4, <2>5, <2>6
    DEF Fits, OnePlace, RunsFit, Behind, Carried, Handed, Queue, Lines, Batches
<1>19. ASSUME QueueDone PROVE Fits(m)'
  <2>1. Queue /\ Lines
    BY <1>19, <1>a, <1>q, <1>l DEF QueueDone, files
  <2>2. Batch
    BY <1>19, <1>a, <1>r DEF QueueDone
  <2>3. Batches
    BY <1>19, <1>g DEF QueueDone, files
  <2>4. Ran
    BY <1>19, <1>g DEF QueueDone, files
  <2>5. Scanned
    BY <1>19, <1>i DEF QueueDone, files
  <2>6. Past /\ Runs
    BY <1>19, <1>a, <1>j DEF QueueDone
  <2> QED
    BY <1>k, <2>1, <2>2, <2>3, <2>4, <2>5, <2>6
<1>20. ASSUME DaemonStarts PROVE Fits(m)'
  <2>1. Queue /\ Lines
    BY <1>20, <1>a, <1>q, <1>l DEF DaemonStarts, files
  <2>2. Batch
    BY <1>20, <1>a, <1>r DEF DaemonStarts
  <2>3. Batches
    BY <1>20, <1>g DEF DaemonStarts, files
  <2>4. Ran
    BY <1>20, <1>g DEF DaemonStarts, files
  <2>5. Scanned
    BY <1>20, <1>i DEF DaemonStarts, files
  <2>6. Past /\ Runs
    BY <1>20, <1>a, <1>j DEF DaemonStarts
  <2> QED
    BY <1>k, <2>1, <2>2, <2>3, <2>4, <2>5, <2>6
<1>21. ASSUME RetryBatch PROVE Fits(m)'
  <2>1. Queue /\ Lines
    BY <1>21, <1>a, <1>q, <1>l DEF RetryBatch, Fault, Prompt, files
  <2>2. Batches /\ Ran
    BY <1>21, <1>g DEF RetryBatch, Fault, Prompt, files
  <2>3. daemon'.batch = daemon.batch /\ daemon.pc = "run" /\ daemon'.pc = "retry"
    BY <1>21, <1>a DEF RetryBatch, Fault, Prompt
  <2>4. Scanned
    BY <1>21, <1>i DEF RetryBatch, Fault, Prompt, files
  <2>5. /\ Past
        /\ past'.runs[m] = past.runs[m] + IF m \in daemon.batch THEN 1 ELSE 0
    BY <1>21, <1>a DEF RetryBatch, Fault, Prompt
  <2>6. m \in daemon.batch => past'.runs[m] = RunsAt("retry")
    BY <1>r, <1>s, <2>3, <2>5 DEF Fits, RunsFit
  <2>7. m \in daemon.batch => ~InQueue(m) /\ ~InLines(m) /\ \A t \in Shots : m \notin shot[t].batch
    BY DEF Fits, OnePlace, InShot
  <2>8. m \notin daemon.batch => Runs
    BY <1>b, <2>5
  <2> QED
    BY <1>a, <1>b, <1>r, <1>s, <2>1, <2>2, <2>3, <2>4, <2>5, <2>6, <2>7, <2>8
    DEF Fits, OnePlace, RunsFit, Behind, Carried, Handed, Queue, Lines, Batches
<1>22. ASSUME RunFails PROVE Fits(m)'
  <2>1. Queue /\ Lines
    BY <1>22, <1>a, <1>q, <1>l DEF RunFails, BatchEnds, Fault, Drop, files
  <2>2. Batches /\ Ran
    BY <1>22, <1>g DEF RunFails, BatchEnds, Fault, Drop, files
  <2>3. daemon'.batch = {} /\ daemon.pc \in {"run", "retry"}
    BY <1>22, <1>a DEF RunFails, BatchEnds, Fault, Drop
  <2>4. Scanned
    BY <1>22, <1>i DEF RunFails, BatchEnds, Fault, Drop, files
  <2>5. /\ past'.claimed = past.claimed /\ past'.runs = past.runs
        /\ past'.dropped = past.dropped \cup daemon.batch
    BY <1>22, <1>a, <1>j DEF RunFails, BatchEnds, Fault, Drop
  <2>6. m \in daemon.batch => past.runs[m] # 0
    BY <1>s, <2>3 DEF Fits, RunsFit
  <2> QED
    BY <1>a, <1>b, <1>r, <1>s, <2>1, <2>2, <2>3, <2>4, <2>5, <2>6
    DEF Fits, OnePlace, RunsFit, Behind, Carried, Handed, Queue, Lines, Batches
<1>23. ASSUME LateRejection PROVE Fits(m)'
  <2>1. Queue /\ Lines
    BY <1>23, <1>d DEF LateRejection, Fault, files
  <2>2. Batch
    BY <1>23, <1>d DEF LateRejection, Fault, files
  <2>3. Batches
    BY <1>23, <1>g DEF LateRejection, Fault, files
  <2>4. Ran
    BY <1>23, <1>g DEF LateRejection, Fault, files
  <2>5. Scanned
    BY <1>23, <1>i DEF LateRejection, Fault, files
  <2>6. Past /\ Runs
    BY <1>23, <1>a, <1>j DEF LateRejection, Fault
  <2> QED
    BY <1>k, <2>1, <2>2, <2>3, <2>4, <2>5, <2>6
<1>24. ASSUME DaemonDies PROVE Fits(m)'
  <2>1. /\ queue' = queue /\ daemon'.offset = daemon.offset
        /\ daemon'.batch = {} /\ daemon'.lines = <<>>
    BY <1>24, <1>a DEF DaemonDies, DaemonEnds, DaemonDown
  <2>2. Queue /\ ~InLines(m)' /\ LinedOnce(m)'
    BY <1>q, <2>1, NoLines
  <2>3. Batches /\ Ran
    BY <1>24, <1>g DEF DaemonDies, DaemonEnds, DaemonDown
  <2>4. Scanned
    BY <1>24, <1>i DEF DaemonDies, DaemonEnds, DaemonDown
  <2>5. /\ past'.claimed = past.claimed /\ past'.runs = past.runs
        /\ past'.dropped = past.dropped \cup daemon.batch \cup UNION Range(daemon.lines)
    BY <1>24, <1>a DEF DaemonDies, DaemonEnds, DaemonDown
  <2>6. InLines(m) => m \in UNION Range(daemon.lines)
    BY DEF InLines, Range
  <2> QED
    BY <1>a, <1>b, <1>r, <1>s, <2>1, <2>2, <2>3, <2>4, <2>5, <2>6
    DEF Fits, OnePlace, RunsFit, Behind, Carried, Handed, Queue, Lines, Batches
<1>25. ASSUME DaemonExits PROVE Fits(m)'
  <2>1. /\ queue' = queue /\ daemon'.offset = daemon.offset
        /\ daemon'.batch = {} /\ daemon'.lines = <<>>
    BY <1>25, <1>a DEF DaemonExits, DaemonEnds, DaemonDown
  <2>2. Queue /\ ~InLines(m)' /\ LinedOnce(m)'
    BY <1>q, <2>1, NoLines
  <2>3. Batches /\ Ran
    BY <1>25, <1>g DEF DaemonExits, DaemonEnds, DaemonDown
  <2>4. Scanned
    BY <1>25, <1>i DEF DaemonExits, DaemonEnds, DaemonDown
  <2>5. /\ past'.claimed = past.claimed /\ past'.runs = past.runs
        /\ past'.dropped = past.dropped \cup daemon.batch \cup UNION Range(daemon.lines)
    BY <1>25, <1>a DEF DaemonExits, DaemonEnds, DaemonDown
  <2>6. InLines(m) => m \in UNION Range(daemon.lines)
    BY DEF InLines, Range
  <2> QED
    BY <1>a, <1>b, <1>r, <1>s, <2>1, <2>2, <2>3, <2>4, <2>5, <2>6
    DEF Fits, OnePlace, RunsFit, Behind, Carried, Handed, Queue, Lines, Batches
<1>26. ASSUME NEW s \in Shots, ShotQueues(s) PROVE Fits(m)'
  <2>1. /\ InQueue(m)' <=> InQueue(m) \/ m \in shot[s].batch
        /\ QueuedOnce(m) /\ (m \in shot[s].batch => ~InQueue(m)) => QueuedOnce(m)'
    BY <1>26, <1>a, QueueGrows DEF ShotQueues
  <2>8. Lines /\ Batch
    BY <1>26, <1>l DEF ShotQueues
  <2>2. /\ \A t \in Shots \ {s} : shot'[t] = shot[t]
        /\ shot'[s].batch = {}
    BY <1>26, <1>a DEF ShotQueues, BusyChecked, IsAgentBusy
  <2>3. /\ InShot(m) <=> InShot(m)' \/ m \in shot[s].batch
        /\ ShotOnce(m) => ShotOnce(m)' /\ (m \in shot[s].batch => ~InShot(m)')
    BY <2>2, ShotEmptied
  <2>4. Ran
    BY <2>2
  <2>5. Saved(m)' <=> Saved(m)
    BY <1>26, <1>a DEF ShotQueues, BusyChecked, IsAgentBusy, Saved, files
  <2>6. listener'.batch = listener.batch
    BY <1>26, <1>a DEF ShotQueues, BusyChecked, IsAgentBusy, files
  <2>7. Past /\ Runs /\ (m \in shot[s].batch => past.runs[m] = 0)
    <3>1. shot[s].pc = "start"
      BY <1>26 DEF ShotQueues
    <3>2. m \in shot[s].batch => past.runs[m] = 0
      BY <1>r, <3>1 DEF Fits, RunsFit
    <3> QED
      BY <1>26, <1>j, <3>2 DEF ShotQueues
  <2> QED
    BY <1>a, <1>b, <1>r, <1>s, <2>1, <2>3, <2>4, <2>5, <2>6, <2>7, <2>8
    DEF Fits, OnePlace, RunsFit, Behind, Carried, Handed, Queue, Lines, Batches
<1>27. ASSUME NEW s \in Shots, ShotSkips(s) PROVE Fits(m)'
  <2>1. Queue /\ Lines /\ Batch
    BY <1>27, <1>d DEF ShotSkips, BusyChecked, IsAgentBusy, Drop, files
  <2>2. /\ \A t \in Shots \ {s} : shot'[t] = shot[t]
        /\ shot'[s].batch = {}
    BY <1>27, <1>a DEF ShotSkips, BusyChecked, IsAgentBusy, Drop
  <2>3. /\ InShot(m) <=> InShot(m)' \/ m \in shot[s].batch
        /\ ShotOnce(m) => ShotOnce(m)' /\ (m \in shot[s].batch => ~InShot(m)')
    BY <2>2, ShotEmptied
  <2>4. Ran
    BY <2>2
  <2>5. Saved(m)' <=> Saved(m)
    BY <1>27, <1>a DEF ShotSkips, BusyChecked, IsAgentBusy, Drop, Saved, files
  <2>6. listener'.batch = listener.batch
    BY <1>27, <1>a DEF ShotSkips, BusyChecked, IsAgentBusy, Drop, files
  <2>7. /\ past'.claimed = past.claimed /\ past'.runs = past.runs
        /\ past'.dropped = past.dropped \cup shot[s].batch
    BY <1>27, <1>a DEF ShotSkips, BusyChecked, IsAgentBusy, Drop
  <2> QED
    BY <1>a, <1>b, <1>r, <1>s, <2>1, <2>3, <2>4, <2>5, <2>6, <2>7
    DEF Fits, OnePlace, RunsFit, Behind, Carried, Handed, Queue, Lines, Batches
<1>28. ASSUME NEW s \in Shots, ShotPasses(s) PROVE Fits(m)'
  <2>1. Queue /\ Lines
    BY <1>28, <1>d DEF ShotPasses, files
  <2>2. Batch
    BY <1>28, <1>d DEF ShotPasses, files
  <2>3. Batches
    <3>1. \A t \in Shots : shot'[t].batch = shot[t].batch
      BY <1>28, <1>a DEF ShotPasses
    <3> QED
      BY <1>e, <3>1
  <2>4. Ran
    BY <1>28, <1>a, <1>r DEF ShotPasses
  <2>5. Scanned
    BY <1>28, <1>i DEF ShotPasses, files
  <2>6. Past /\ Runs
    BY <1>28, <1>a, <1>j DEF ShotPasses
  <2> QED
    BY <1>k, <2>1, <2>2, <2>3, <2>4, <2>5, <2>6
<1>29. ASSUME NEW s \in Shots, ShotRuns(s) PROVE Fits(m)'
  <2>1. Queue /\ Lines /\ Batch
    BY <1>29, <1>d DEF ShotRuns, Prompt, files
  <2>2. \A t \in Shots : shot'[t].batch = shot[t].batch
    BY <1>29, <1>a DEF ShotRuns, Prompt
  <2>3. Batches
    BY <1>e, <2>2
  <2>4. /\ \A t \in Shots \ {s} : shot'[t].pc = shot[t].pc
        /\ shot[s].pc = "begin" /\ shot'[s].pc = "run"
    BY <1>29, <1>a DEF ShotRuns, Prompt
  <2>5. Scanned
    BY <1>29, <1>i DEF ShotRuns, Prompt, files
  <2>6. /\ Past
        /\ past'.runs[m] = past.runs[m] + IF m \in shot[s].batch THEN 1 ELSE 0
    BY <1>29, <1>a DEF ShotRuns, Prompt
  <2>7. m \in shot[s].batch =>
          /\ ~InQueue(m) /\ ~InLines(m) /\ m \notin daemon.batch
          /\ past.runs[m] = RunsAt("begin")
          /\ \A t \in Shots : m \in shot[t].batch => t = s
          /\ Handed(m)
    BY <2>4 DEF Fits, OnePlace, RunsFit, InShot, ShotOnce, Handed
  <2>8. CASE m \in shot[s].batch
    <3>1. past'.runs[m] = RunsAt("run") /\ past'.runs[m] <= 2
      BY <1>r, <1>s, <2>6, <2>7, <2>8
    <3>2. \A t \in Shots : m \in shot'[t].batch => past'.runs[m] = RunsAt(shot'[t].pc)
      BY <2>2, <2>4, <2>7, <2>8, <3>1
    <3> QED
      BY <1>b, <1>s, <2>1, <2>3, <2>5, <2>6, <2>7, <2>8, <3>1, <3>2
      DEF Fits, OnePlace, RunsFit, Behind, Carried, Handed, Queue, Lines, Batches
  <2>9. CASE m \notin shot[s].batch
    <3>1. Ran /\ Runs
      BY <1>b, <2>2, <2>4, <2>6, <2>9
    <3> QED
      BY <1>k, <2>1, <2>3, <2>5, <2>6, <3>1
  <2> QED
    BY <2>8, <2>9
<1>30. ASSUME NEW s \in Shots, ShotFinishes(s) PROVE Fits(m)'
  <2>1. Queue /\ Lines /\ Batch
    BY <1>30, <1>d DEF ShotFinishes, ShotEnds, files
  <2>2. /\ \A t \in Shots \ {s} : shot'[t] = shot[t]
        /\ shot'[s].batch = {}
    BY <1>30, <1>a DEF ShotFinishes, ShotEnds
  <2>3. /\ InShot(m) <=> InShot(m)' \/ m \in shot[s].batch
        /\ ShotOnce(m) => ShotOnce(m)' /\ (m \in shot[s].batch => ~InShot(m)')
    BY <2>2, ShotEmptied
  <2>4. Ran
    BY <2>2
  <2>5. Saved(m)' <=> Saved(m)
    BY <1>30, <1>a DEF ShotFinishes, ShotEnds, Saved, files
  <2>6. listener'.batch = listener.batch
    BY <1>30, <1>a DEF ShotFinishes, ShotEnds, files
  <2>7. Past /\ Runs /\ (m \in shot[s].batch => past.runs[m] # 0)
    <3>1. shot[s].pc \in {"run", "retry"}
      BY <1>30 DEF ShotFinishes
    <3>2. m \in shot[s].batch => past.runs[m] # 0
      BY <1>r, <1>s, <3>1 DEF Fits, RunsFit
    <3> QED
      BY <1>30, <1>j, <3>2 DEF ShotFinishes
  <2> QED
    BY <1>a, <1>b, <1>r, <1>s, <2>1, <2>3, <2>4, <2>5, <2>6, <2>7
    DEF Fits, OnePlace, RunsFit, Behind, Carried, Handed, Queue, Lines, Batches
<1>31. ASSUME NEW s \in Shots, ShotRetries(s) PROVE Fits(m)'
  <2>1. Queue /\ Lines /\ Batch
    BY <1>31, <1>d DEF ShotRetries, Prompt, Fault, files
  <2>2. \A t \in Shots : shot'[t].batch = shot[t].batch
    BY <1>31, <1>a DEF ShotRetries, Prompt, Fault
  <2>3. Batches
    BY <1>e, <2>2
  <2>4. /\ \A t \in Shots \ {s} : shot'[t].pc = shot[t].pc
        /\ shot[s].pc = "run" /\ shot'[s].pc = "retry"
    BY <1>31, <1>a DEF ShotRetries, Prompt, Fault
  <2>5. Scanned
    BY <1>31, <1>i DEF ShotRetries, Prompt, Fault, files
  <2>6. /\ Past
        /\ past'.runs[m] = past.runs[m] + IF m \in shot[s].batch THEN 1 ELSE 0
    BY <1>31, <1>a DEF ShotRetries, Prompt, Fault
  <2>7. m \in shot[s].batch =>
          /\ ~InQueue(m) /\ ~InLines(m) /\ m \notin daemon.batch
          /\ past.runs[m] = RunsAt("run")
          /\ \A t \in Shots : m \in shot[t].batch => t = s
          /\ Handed(m)
    BY <2>4 DEF Fits, OnePlace, RunsFit, InShot, ShotOnce, Handed
  <2>8. CASE m \in shot[s].batch
    <3>1. past'.runs[m] = RunsAt("retry") /\ past'.runs[m] <= 2
      BY <1>r, <1>s, <2>6, <2>7, <2>8
    <3>2. \A t \in Shots : m \in shot'[t].batch => past'.runs[m] = RunsAt(shot'[t].pc)
      BY <2>2, <2>4, <2>7, <2>8, <3>1
    <3> QED
      BY <1>b, <1>s, <2>1, <2>3, <2>5, <2>6, <2>7, <2>8, <3>1, <3>2
      DEF Fits, OnePlace, RunsFit, Behind, Carried, Handed, Queue, Lines, Batches
  <2>9. CASE m \notin shot[s].batch
    <3>1. Ran /\ Runs
      BY <1>b, <2>2, <2>4, <2>6, <2>9
    <3> QED
      BY <1>k, <2>1, <2>3, <2>5, <2>6, <3>1
  <2> QED
    BY <2>8, <2>9
<1>32. ASSUME NEW s \in Shots, ShotFails(s) PROVE Fits(m)'
  <2>1. Queue /\ Lines /\ Batch
    BY <1>32, <1>d DEF ShotFails, ShotEnds, Fault, Drop, files
  <2>2. /\ \A t \in Shots \ {s} : shot'[t] = shot[t]
        /\ shot'[s].batch = {}
    BY <1>32, <1>a DEF ShotFails, ShotEnds, Fault, Drop
  <2>3. /\ InShot(m) <=> InShot(m)' \/ m \in shot[s].batch
        /\ ShotOnce(m) => ShotOnce(m)' /\ (m \in shot[s].batch => ~InShot(m)')
    BY <2>2, ShotEmptied
  <2>4. Ran
    BY <2>2
  <2>5. Saved(m)' <=> Saved(m)
    BY <1>32, <1>a DEF ShotFails, ShotEnds, Fault, Drop, Saved, files
  <2>6. listener'.batch = listener.batch
    BY <1>32, <1>a DEF ShotFails, ShotEnds, Fault, Drop, files
  <2>7. /\ past'.claimed = past.claimed /\ past'.runs = past.runs
        /\ past'.dropped = past.dropped \cup shot[s].batch
    BY <1>32, <1>a DEF ShotFails, ShotEnds, Fault, Drop
  <2> QED
    BY <1>a, <1>b, <1>r, <1>s, <2>1, <2>3, <2>4, <2>5, <2>6, <2>7
    DEF Fits, OnePlace, RunsFit, Behind, Carried, Handed, Queue, Lines, Batches
<1>33. ASSUME HookStarts PROVE Fits(m)'
  <2>1. Queue /\ Lines
    BY <1>33, <1>d DEF HookStarts, files
  <2>2. Batch
    BY <1>33, <1>d DEF HookStarts, files
  <2>3. Batches
    BY <1>33, <1>g DEF HookStarts, files
  <2>4. Ran
    BY <1>33, <1>g DEF HookStarts, files
  <2>5. Scanned
    BY <1>33, <1>i DEF HookStarts, files
  <2>6. Past /\ Runs
    BY <1>33, <1>a, <1>j DEF HookStarts
  <2> QED
    BY <1>k, <2>1, <2>2, <2>3, <2>4, <2>5, <2>6
<1>34. ASSUME HookDrains PROVE Fits(m)'
  <2>1. Queue /\ Lines
    BY <1>34, <1>d DEF HookDrains, files
  <2>2. Batch
    BY <1>34, <1>d DEF HookDrains, files
  <2>3. Batches
    BY <1>34, <1>g DEF HookDrains, files
  <2>4. Ran
    BY <1>34, <1>g DEF HookDrains, files
  <2>5. Scanned
    BY <1>34, <1>i DEF HookDrains, files
  <2>6. Past /\ Runs
    BY <1>34, <1>a, <1>j DEF HookDrains
  <2> QED
    BY <1>k, <2>1, <2>2, <2>3, <2>4, <2>5, <2>6
<1>35. ASSUME HookTells PROVE Fits(m)'
  <2>1. Queue /\ Lines
    BY <1>35, <1>d DEF HookTells, files
  <2>2. Batch
    BY <1>35, <1>d DEF HookTells, files
  <2>3. Batches
    BY <1>35, <1>g DEF HookTells, files
  <2>4. Ran
    BY <1>35, <1>g DEF HookTells, files
  <2>5. Scanned
    BY <1>35, <1>i DEF HookTells, files
  <2>6. Past /\ Runs
    BY <1>35, <1>a, <1>j DEF HookTells
  <2> QED
    BY <1>k, <2>1, <2>2, <2>3, <2>4, <2>5, <2>6
<1>36. CASE UNCHANGED vars
  BY <1>36, <1>d, <1>g, <1>i, <1>j, <1>k DEF vars
<1> QED
  BY <1>1, <1>2, <1>3, <1>4, <1>5, <1>6, <1>7, <1>8, <1>9, <1>10, <1>11, <1>12, <1>13, <1>14, <1>15, <1>16, <1>17, <1>18, <1>19, <1>20, <1>21, <1>22, <1>23, <1>24, <1>25, <1>26, <1>27, <1>28, <1>29, <1>30, <1>31, <1>32, <1>33, <1>34, <1>35, <1>36
  DEF Next, ListenerSteps, DaemonSteps, ShotSteps

-----------------------------------------------------------------------------
(* The theorems                                                            *)

LEMMA Initially == ASSUME Init PROVE IInv
<1> USE BoundsAssumption DEF Init, DaemonDown
<1>1. TypeOK
  BY DEF TypeOK, Holders, Nobody
<1>2. InTime /\ OneBusy
  BY DEF InTime, OneBusy, Running
<1>3. LogOnce /\ Scanning /\ AtWork
  BY DEF LogOnce, Scanning, AtWork
<1>4. ASSUME NEW m \in Mentions PROVE Fits(m)
  <2>1. ~InQueue(m) /\ QueuedOnce(m)
    BY DEF InQueue, QueuedOnce
  <2>2. ~InLines(m) /\ LinedOnce(m)
    BY DEF InLines, LinedOnce
  <2>3. ~InShot(m) /\ ShotOnce(m)
    BY DEF InShot, ShotOnce
  <2>4. past.runs[m] = 0 /\ m \notin daemon.batch /\ m \notin past.claimed
    OBVIOUS
  <2>5. \A s \in Shots : m \notin shot[s].batch
    OBVIOUS
  <2> QED
    BY <2>1, <2>2, <2>3, <2>4, <2>5 DEF Fits, OnePlace, RunsFit, Behind, Carried, Handed
<1> QED
  BY <1>1, <1>2, <1>3, <1>4 DEF IInv, HandedOnce

LEMMA HandedOnceNext == ASSUME TypeOK, HandedOnce, [Next]_vars PROVE HandedOnce'
<1>1. LogOnce' /\ Scanning' /\ AtWork'
  BY LogOnceNext, ScanningNext, AtWorkNext DEF HandedOnce
<1>2. ASSUME NEW m \in Mentions PROVE Fits(m)'
  BY FitsNext DEF HandedOnce
<1> QED
  BY <1>1, <1>2 DEF HandedOnce

LEMMA Inductive == ASSUME IInv, [Next]_vars PROVE IInv'
<1>1. TypeOK'
  BY TypeNext DEF IInv, HandedOnce
<1>2. InTime'
  BY InTimeNext DEF IInv
<1>3. OneBusy'
  BY BusyNext DEF IInv
<1>4. HandedOnce'
  BY HandedOnceNext DEF IInv
<1> QED
  BY <1>1, <1>2, <1>3, <1>4 DEF IInv

\* A message in one of the places is on its way.
LEMMA HandedIsOnItsWay ==
  ASSUME TypeOK, NEW m \in Mentions, m \in listener.batch \/ Handed(m)
  PROVE  m \in OnItsWay \/ past.runs[m] > 0
<1> DEFINE waiting == SubSeq(queue, daemon.offset + 1, Len(queue))
           Waiting == UNION Range(waiting)
           Taken == UNION Range(daemon.lines)
           Shot == UNION {shot[s].batch : s \in Shots}
<1>a. OnItsWay = listener.batch \cup daemon.batch \cup Waiting \cup Taken \cup Shot
  BY DEF OnItsWay, Queued
<1>b. /\ Waiting = UNION Range(waiting) /\ Taken = UNION Range(daemon.lines)
      /\ Shot = UNION {shot[s].batch : s \in Shots}
  OBVIOUS
<1> HIDE DEF waiting, Waiting, Taken, Shot
<1>1. CASE InQueue(m)
  <2>1. PICK i \in (daemon.offset + 1)..Len(queue) : m \in queue[i]
    BY <1>1 DEF InQueue
  <2>2. queue \in Seq(SUBSET Mentions) /\ daemon.offset \in 0..Len(queue) /\ Len(queue) \in Nat
    BY DEF TypeOK
  <2>3. /\ i - daemon.offset \in DOMAIN waiting
        /\ waiting[i - daemon.offset] = queue[i]
    BY SMTT(30), <2>2, SubSeqProperties DEF waiting
  <2>4. m \in Waiting
    BY <1>b, <2>1, <2>3 DEF Range
  <2> QED
    BY <1>a, <2>4
<1>2. CASE InLines(m)
  <2>1. m \in Taken
    BY <1>b, <1>2 DEF InLines, Range
  <2> QED
    BY <1>a, <2>1
<1>3. CASE InShot(m)
  <2>1. m \in Shot
    BY <1>b, <1>3 DEF InShot
  <2> QED
    BY <1>a, <2>1
<1>4. CASE m \in listener.batch \cup daemon.batch
  BY <1>a, <1>4
<1>5. past.runs[m] \in Nat
  BY DEF TypeOK
<1> QED
  BY <1>1, <1>2, <1>3, <1>4, <1>5 DEF Handed

LEMMA InvariantImplies == ASSUME IInv PROVE ClaimedInTime /\ ClaimedIsRun /\ BusyWhileRunning
<1>1. ClaimedInTime
  BY DEF IInv, InTime, ClaimedInTime
<1>2. TwoRunsAtMost
  BY DEF IInv, HandedOnce, Fits, RunsFit, TwoRunsAtMost
<1>3. ClaimedIsCarried
  <2> SUFFICES ASSUME NEW m \in past.claimed
               PROVE  m \in OnItsWay \cup past.dropped \/ past.runs[m] > 0
    BY DEF ClaimedIsCarried
  <2>1. TypeOK /\ m \in Mentions
    BY DEF IInv, TypeOK
  <2>2. m \in listener.batch \/ Handed(m) \/ m \in past.dropped
    BY <2>1 DEF IInv, HandedOnce, Fits, Carried
  <2> QED
    BY <2>1, <2>2, HandedIsOnItsWay
<1>4. BusyWhileRunning
  BY DEF IInv, OneBusy, BusyWhileRunning, IsAgentBusy, Running
<1> QED
  BY <1>1, <1>2, <1>3, <1>4 DEF ClaimedIsRun

LEMMA Invariance == Spec => []IInv
<1>1. Init => IInv
  BY Initially
<1>2. IInv /\ [Next]_vars => IInv'
  BY Inductive
<1> QED
  BY <1>1, <1>2, PTL DEF Spec

\* Every variable has its type, whoever dies when.
THEOREM TypeAlways == Spec => []TypeOK
<1>1. IInv => TypeOK
  BY DEF IInv
<1> QED
  BY <1>1, Invariance, PTL

\* The agent is woken for and told of one message only when the stop hook read it
\* before the listener claimed it, or an older copy of the claim file was written
\* back over the claim.
THEOREM ClaimedInTimeAlways == Spec => []ClaimedInTime
<1>1. IInv => ClaimedInTime
  BY InvariantImplies
<1> QED
  BY <1>1, Invariance, PTL

\* What the listener claimed, and so hid from the stop hook, is on its way to the
\* agent, was run, or was dropped by a failure; and nothing is run more often
\* than a failed run is retried.
THEOREM ClaimedIsRunAlways == Spec => []ClaimedIsRun
<1>1. IInv => ClaimedIsRun
  BY InvariantImplies
<1> QED
  BY <1>1, Invariance, PTL

\* While one process runs the agent the busy file names one that is alive.
THEOREM BusyAlways == Spec => []BusyWhileRunning
<1>1. IInv => BusyWhileRunning
  BY InvariantImplies
<1> QED
  BY <1>1, Invariance, PTL
=============================================================================
