-------------------------------- MODULE Wake --------------------------------
(***************************************************************************)
(* The wake stack of one agent (.cursor/hooks): a listener follows the     *)
(* room's log, claims the messages that mention the agent and queues them  *)
(* in batches, a daemon takes the queue and prompts the agent, a one-shot  *)
(* process does so when the queue cannot be written, and the editor's stop *)
(* hook tells an agent nobody wakes what it has not read.  They share five *)
(* files and no lock: the claims, the queue, the busy flag, the one-shot's *)
(* lock and the agent's cursor.                                            *)
(*                                                                         *)
(* One room stands for all logs.  The mention scan is the set Mentions.    *)
(* Claims and the busy flag do not expire: 24 hours and 10 minutes are     *)
(* taken to be longer than the behaviours described here.                  *)
(***************************************************************************)
EXTENDS Naturals, Sequences, FiniteSets, SequencesExt

CONSTANTS
    Mentions,       \* messages that wake the agent
    Chats,          \* messages that do not
    Shots,          \* one-shot processes the listener may spawn
    MaxCrashes,     \* bound: deaths of the listener and of the daemon
    MaxFaults       \* bound: failed runs, failed writes, late rejections

ASSUME BoundsAssumption == MaxCrashes \in Nat /\ MaxFaults \in Nat
ASSUME ShotsAssumption == Shots \cap {"nobody", "dead", "daemon"} = {}

VARIABLES
    log,        \* the room's log
    cursor,     \* the agent's offset for the room, in its cursor file
    claims,     \* coord-wake-claimed-<id>.json: claimed messages
    queue,      \* .wake-queue-<id>.jsonl: batches
    busy,       \* coord-wake-busy-<id>.json: who runs; "dead" if it died
    lock,       \* the one-shot's lock file
    listener,   \* the listener's memory, and its state file in "saved"
    daemon,     \* the daemon's memory, and its queue offset on disk
    shot,       \* the one-shot processes
    hook,       \* the stop hook of the editor
    past,       \* history, for the properties only
    faults      \* counters against the bounds

vars == <<log, cursor, claims, queue, busy, lock, listener, daemon, shot,
          hook, past, faults>>
files == <<log, cursor, claims, queue, busy, lock>>

Messages == Mentions \cup Chats
Nobody == "nobody"
Holders == {Nobody, "dead", "daemon"} \cup Shots

\* isAgentBusy: a busy file whose process died counts as none, and is removed.
IsAgentBusy == busy \in {"daemon"} \cup Shots

BusyChecked == busy' = IF IsAgentBusy THEN busy ELSE Nobody

IsDaemonAlive == daemon.pc # "down"

\* isStaleLock: the process in the lock file is gone.
StaleLock == lock # Nobody /\ shot[lock].pc \notin {"begin", "run", "retry"}

\* Processes that are in the middle of a run of the agent.
Running == {p \in {"daemon"} : daemon.pc \in {"run", "retry"}}
               \cup {s \in Shots : shot[s].pc \in {"run", "retry"}}

DaemonDown(offset) ==
    [pc |-> "down", offset |-> offset, lines |-> <<>>, batch |-> {}, map |-> {}]

Init ==
    /\ log = <<>> /\ cursor = 0 /\ claims = {} /\ queue = <<>>
    /\ busy = Nobody /\ lock = Nobody
    /\ listener = [up |-> TRUE, pc |-> "idle", saved |-> 0, seen |-> 0,
                   todo |-> <<>>, map |-> {}, batch |-> {}, child |-> Nobody]
    /\ daemon = DaemonDown(0)
    /\ shot = [s \in Shots |-> [pc |-> "unused", batch |-> {}, own |-> TRUE]]
    /\ hook = [pc |-> "idle", lines |-> {}, cursor |-> 0]
    /\ past = [claimed |-> {}, told |-> {}, dropped |-> {}, early |-> {},
               overwritten |-> {}, disturbed |-> FALSE,
               runs |-> [m \in Mentions |-> 0]]
    /\ faults = [crashes |-> 0, failures |-> 0]

Fault == /\ faults.failures < MaxFaults
         /\ faults' = [faults EXCEPT !.failures = @ + 1]

\* The history of a batch nobody will run any more, and of a run of one.
Drop(batch) == past' = [past EXCEPT !.dropped = @ \cup batch]
Prompt(p, batch) ==
    past' = [past EXCEPT
        !.runs = [m \in Mentions |-> @[m] + IF m \in batch THEN 1 ELSE 0],
        !.disturbed = @ \/ Running \ {p} # {}]

(***************************************************************************)
(* The bus: a sender appends, and the agent reads its room to the end.     *)
(***************************************************************************)
Send(m) ==
    /\ m \notin Range(log)
    /\ log' = Append(log, m)
    /\ UNCHANGED <<cursor, claims, queue, busy, lock, listener, daemon, shot,
                   hook, past, faults>>

AgentReads ==
    /\ cursor < Len(log)
    /\ cursor' = Len(log)
    /\ UNCHANGED <<log, claims, queue, busy, lock, listener, daemon, shot, hook,
                   past, faults>>

(***************************************************************************)
(* The listener.  A scan takes the new lines and claims, one by one, those *)
(* that wake the agent; the claim file is read and then written.           *)
(***************************************************************************)
Scan ==
    /\ listener.up /\ listener.pc = "idle" /\ listener.seen < Len(log)
    /\ listener' = [listener EXCEPT
          !.pc = "scan",
          !.seen = Len(log),
          !.todo = SubSeq(log, listener.seen + 1, Len(log))]
    /\ UNCHANGED <<files, daemon, shot, hook, past, faults>>

\* A line that wakes nobody, or is claimed.
PassOver ==
    /\ listener.pc = "scan" /\ listener.todo # <<>>
    /\ Head(listener.todo) \notin Mentions \/ Head(listener.todo) \in claims
    /\ listener' = [listener EXCEPT !.todo = Tail(@)]
    /\ UNCHANGED <<files, daemon, shot, hook, past, faults>>

LoadClaims ==
    /\ listener.pc = "scan" /\ listener.todo # <<>>
    /\ Head(listener.todo) \in Mentions \ claims
    /\ listener' = [listener EXCEPT !.pc = "claim", !.map = claims]
    /\ UNCHANGED <<files, daemon, shot, hook, past, faults>>

\* Mutant of Claim: the claim is not written.
ClaimForgotten ==
    /\ listener.pc = "claim"
    /\ LET m == Head(listener.todo) IN
       /\ listener' = [listener EXCEPT !.pc = "scan", !.todo = Tail(@),
                                       !.map = {}, !.batch = @ \cup {m}]
       /\ past' = [past EXCEPT
             !.claimed = @ \cup {m},
             !.early = @ \cup ({m} \cap (past.told \cup hook.lines))]
    /\ UNCHANGED <<files, daemon, shot, hook, faults>>

\* Claim before debounce; what the claim file lost since it was read is gone.
Claim ==
    /\ listener.pc = "claim"
    /\ LET m == Head(listener.todo) IN
       /\ claims' = listener.map \cup {m}
       /\ listener' = [listener EXCEPT !.pc = "scan", !.todo = Tail(@),
                                       !.map = {}, !.batch = @ \cup {m}]
       /\ past' = [past EXCEPT
             !.claimed = @ \cup {m},
             !.early = @ \cup ({m} \cap (past.told \cup hook.lines)),
             !.overwritten = @ \cup (claims \ (listener.map \cup {m}))]
    /\ UNCHANGED <<log, cursor, queue, busy, lock, daemon, shot, hook, faults>>

SaveState ==
    /\ listener.pc = "scan" /\ listener.todo = <<>>
    /\ listener' = [listener EXCEPT !.pc = "idle", !.saved = listener.seen]
    /\ UNCHANGED <<files, daemon, shot, hook, past, faults>>

(***************************************************************************)
(* The debounced flush: wait while the agent is busy, move the cursor by   *)
(* the size of the batch, then queue it, or spawn a one-shot, or lose it.  *)
(***************************************************************************)
AdvanceCursor == cursor' = cursor + Cardinality(listener.batch)

MayFlush ==
    /\ listener.up /\ listener.pc = "idle"
    /\ listener.batch # {} /\ listener.child = Nobody
    /\ ~IsAgentBusy

\* Mutant of FlushQueues: filterUnclaimed drops what scheduleWake claimed.
FlushUnclaimed ==
    /\ MayFlush
    /\ AdvanceCursor
    /\ queue' = Append(queue, listener.batch \ claims)
    /\ listener' = [listener EXCEPT !.batch = {}]
    /\ busy' = Nobody
    /\ UNCHANGED <<log, claims, lock, daemon, shot, hook, past, faults>>

FlushQueues ==
    /\ MayFlush
    /\ AdvanceCursor
    /\ queue' = Append(queue, listener.batch)
    /\ listener' = [listener EXCEPT !.batch = {}]
    /\ busy' = Nobody
    /\ UNCHANGED <<log, claims, lock, daemon, shot, hook, past, faults>>

FlushSpawns(s) ==
    /\ MayFlush
    /\ shot[s].pc = "unused" /\ s = CHOOSE t \in Shots : shot[t].pc = "unused"
    /\ AdvanceCursor
    /\ shot' = [shot EXCEPT ![s] = [pc |-> "start", batch |-> listener.batch,
                                     own |-> TRUE]]
    /\ listener' = [listener EXCEPT !.batch = {}, !.child = s]
    /\ busy' = Nobody
    /\ UNCHANGED <<log, claims, queue, lock, daemon, hook, past, faults>>

\* The queue, and then the batch file or the spawn, fail.
FlushLoses ==
    /\ MayFlush /\ Fault
    /\ AdvanceCursor
    /\ listener' = [listener EXCEPT !.batch = {}]
    /\ Drop(listener.batch)
    /\ busy' = Nobody
    /\ UNCHANGED <<log, claims, queue, lock, daemon, shot, hook>>

\* The exit event of a one-shot, and the kill after three minutes.
ExitSeen(s) ==
    /\ shot[s].pc = "over" /\ shot[s].own
    /\ shot' = [shot EXCEPT ![s].pc = "gone"]
    /\ listener' = [listener EXCEPT !.child = Nobody]
    /\ UNCHANGED <<files, daemon, hook, past, faults>>

KillShot(s) ==
    /\ shot[s].pc \in {"start", "begin", "run", "retry"}
    /\ listener.child = s
    /\ Fault
    /\ shot' = [shot EXCEPT ![s].pc = "over", ![s].batch = {}]
    /\ busy' = IF busy = s THEN "dead" ELSE busy
    /\ listener' = [listener EXCEPT !.child = Nobody]
    /\ Drop(shot[s].batch)
    /\ UNCHANGED <<log, cursor, claims, queue, lock, daemon, hook>>

ListenerDies ==
    /\ listener.up /\ faults.crashes < MaxCrashes
    /\ faults' = [faults EXCEPT !.crashes = @ + 1]
    /\ listener' = [listener EXCEPT !.up = FALSE, !.pc = "idle", !.todo = <<>>,
                                    !.map = {}, !.batch = {}, !.child = Nobody]
    /\ shot' = [s \in Shots |->
                 [shot[s] EXCEPT !.own = @ /\ shot[s].pc = "unused"]]
    /\ Drop(listener.batch)
    /\ UNCHANGED <<files, daemon, hook>>

\* Mutant of ListenerStarts: every start skips the backlog, not the first only.
ListenerStartsFresh ==
    /\ ~listener.up
    /\ listener' = [listener EXCEPT !.up = TRUE, !.seen = Len(log), !.saved = Len(log)]
    /\ UNCHANGED <<files, daemon, shot, hook, past, faults>>

ListenerStarts ==
    /\ ~listener.up
    /\ listener' = [listener EXCEPT !.up = TRUE, !.seen = listener.saved]
    /\ UNCHANGED <<files, daemon, shot, hook, past, faults>>

(***************************************************************************)
(* The daemon.  It moves its queue offset before it runs what it took.     *)
(***************************************************************************)
DaemonStarts ==
    /\ daemon.pc = "down"
    /\ daemon' = [daemon EXCEPT !.pc = "idle"]
    /\ UNCHANGED <<files, listener, shot, hook, past, faults>>

\* Mutant of TakeQueue: the offset is not moved.
TakeQueueAgain ==
    /\ daemon.pc = "idle" /\ daemon.offset < Len(queue)
    /\ daemon' = [daemon EXCEPT
          !.pc = "next",
          !.lines = SubSeq(queue, daemon.offset + 1, Len(queue))]
    /\ UNCHANGED <<files, listener, shot, hook, past, faults>>

\* Mutant of TakeQueue: the offset passes the end of the queue.
TakeQueueBeyond ==
    /\ daemon.pc = "idle" /\ daemon.offset < Len(queue)
    /\ daemon' = [daemon EXCEPT
          !.pc = "next",
          !.lines = SubSeq(queue, daemon.offset + 1, Len(queue)),
          !.offset = Len(queue) + 1]
    /\ UNCHANGED <<files, listener, shot, hook, past, faults>>

TakeQueue ==
    /\ daemon.pc = "idle" /\ daemon.offset < Len(queue)
    /\ daemon' = [daemon EXCEPT
          !.pc = "next",
          !.lines = SubSeq(queue, daemon.offset + 1, Len(queue)),
          !.offset = Len(queue)]
    /\ UNCHANGED <<files, listener, shot, hook, past, faults>>

LoadForBatch ==
    /\ daemon.pc = "next" /\ daemon.lines # <<>>
    /\ daemon' = [daemon EXCEPT !.pc = "claim", !.batch = Head(daemon.lines),
                                !.lines = Tail(@), !.map = claims]
    /\ UNCHANGED <<files, listener, shot, hook, past, faults>>

\* Mutant of RunBatch: the busy flag is not set.
RunBatchIdle ==
    /\ daemon.pc = "claim"
    /\ LET map == daemon.map \cup daemon.batch IN
       /\ claims' = map
       /\ past' = [past EXCEPT
             !.overwritten = @ \cup (claims \ map),
             !.disturbed = @ \/ Running # {},
             !.runs = [m \in Mentions |->
                         @[m] + IF m \in daemon.batch THEN 1 ELSE 0]]
    /\ daemon' = [daemon EXCEPT !.pc = "run", !.map = {}]
    /\ UNCHANGED <<log, cursor, queue, busy, lock, listener, shot, hook, faults>>

RunBatch ==
    /\ daemon.pc = "claim"
    /\ LET map == daemon.map \cup daemon.batch IN
       /\ claims' = map
       /\ past' = [past EXCEPT
             !.overwritten = @ \cup (claims \ map),
             !.disturbed = @ \/ Running # {},
             !.runs = [m \in Mentions |->
                         @[m] + IF m \in daemon.batch THEN 1 ELSE 0]]
    /\ busy' = "daemon"
    /\ daemon' = [daemon EXCEPT !.pc = "run", !.map = {}]
    /\ UNCHANGED <<log, cursor, queue, lock, listener, shot, hook, faults>>

\* A timeout, a stale session or a recoverable error is retried once.
RetryBatch ==
    /\ daemon.pc = "run" /\ Fault
    /\ Prompt("daemon", daemon.batch)
    /\ daemon' = [daemon EXCEPT !.pc = "retry"]
    /\ UNCHANGED <<files, listener, shot, hook>>

BatchEnds ==
    /\ busy' = Nobody
    /\ daemon' = [daemon EXCEPT !.pc = "next", !.batch = {}]
    /\ UNCHANGED <<log, cursor, claims, queue, lock, listener, shot, hook>>

RunFinishes ==
    /\ daemon.pc \in {"run", "retry"}
    /\ BatchEnds
    /\ UNCHANGED <<past, faults>>

RunFails ==
    /\ daemon.pc \in {"run", "retry"} /\ Fault
    /\ BatchEnds
    /\ Drop(daemon.batch)

QueueDone ==
    /\ daemon.pc = "next" /\ daemon.lines = <<>>
    /\ daemon' = [daemon EXCEPT !.pc = "idle"]
    /\ UNCHANGED <<files, listener, shot, hook, past, faults>>

\* unhandledRejection, uncaughtException: busy is released, the run goes on.
LateRejection ==
    /\ IsDaemonAlive /\ busy # Nobody /\ Fault
    /\ busy' = Nobody
    /\ past' = [past EXCEPT !.disturbed = TRUE]
    /\ UNCHANGED <<log, cursor, claims, queue, lock, listener, daemon, shot, hook>>

\* A kill leaves the busy file; an orderly exit removes it, whoever is busy.
DaemonEnds(left) ==
    /\ IsDaemonAlive /\ faults.crashes < MaxCrashes
    /\ faults' = [faults EXCEPT !.crashes = @ + 1]
    /\ daemon' = DaemonDown(daemon.offset)
    /\ busy' = left
    /\ past' = [past EXCEPT
          !.dropped = @ \cup daemon.batch \cup UNION Range(daemon.lines),
          !.disturbed = @ \/ (left = Nobody /\ busy \in Shots)]
    /\ UNCHANGED <<log, cursor, claims, queue, lock, listener, shot, hook>>

DaemonDies == DaemonEnds(IF busy = "daemon" THEN "dead" ELSE busy)
DaemonExits == DaemonEnds(Nobody)

(***************************************************************************)
(* The one-shot.  It leaves the batch to a daemon that is alive, and gives *)
(* way to an agent that is busy or a one-shot that holds the lock.         *)
(***************************************************************************)
ShotQueues(s) ==
    /\ shot[s].pc = "start" /\ IsDaemonAlive
    /\ BusyChecked
    /\ queue' = Append(queue, shot[s].batch)
    /\ shot' = [shot EXCEPT ![s].pc = "over", ![s].batch = {}]
    /\ UNCHANGED <<log, cursor, claims, lock, listener, daemon, hook, past, faults>>

ShotSkips(s) ==
    /\ shot[s].pc = "start" /\ ~IsDaemonAlive
    /\ IsAgentBusy \/ (lock # Nobody /\ ~StaleLock)
    /\ BusyChecked
    /\ Drop(shot[s].batch)
    /\ shot' = [shot EXCEPT ![s].pc = "over", ![s].batch = {}]
    /\ UNCHANGED <<log, cursor, claims, queue, lock, listener, daemon, hook, faults>>

ShotPasses(s) ==
    /\ shot[s].pc = "start" /\ ~IsDaemonAlive
    /\ ~IsAgentBusy
    /\ lock = Nobody \/ StaleLock
    /\ lock' = Nobody
    /\ busy' = Nobody
    /\ shot' = [shot EXCEPT ![s].pc = "begin"]
    /\ UNCHANGED <<log, cursor, claims, queue, listener, daemon, hook, past,
                   faults>>

ShotRuns(s) ==
    /\ shot[s].pc = "begin"
    /\ lock' = s
    /\ busy' = s
    /\ Prompt(s, shot[s].batch)
    /\ shot' = [shot EXCEPT ![s].pc = "run"]
    /\ UNCHANGED <<log, cursor, claims, queue, listener, daemon, hook, faults>>

ShotRetries(s) ==
    /\ shot[s].pc = "run" /\ Fault
    /\ Prompt(s, shot[s].batch)
    /\ shot' = [shot EXCEPT ![s].pc = "retry"]
    /\ UNCHANGED <<files, listener, daemon, hook>>

ShotEnds(s) ==
    /\ shot' = [shot EXCEPT ![s].pc = "over", ![s].batch = {}]
    /\ busy' = Nobody
    /\ lock' = Nobody
    /\ UNCHANGED <<log, cursor, claims, queue, listener, daemon, hook>>

ShotFinishes(s) ==
    /\ shot[s].pc \in {"run", "retry"}
    /\ ShotEnds(s)
    /\ UNCHANGED <<past, faults>>

ShotFails(s) ==
    /\ shot[s].pc \in {"run", "retry"} /\ Fault
    /\ ShotEnds(s)
    /\ Drop(shot[s].batch)

(***************************************************************************)
(* The stop hook leaves a busy or managed agent alone; otherwise it tells  *)
(* the agent the unread mentions nobody claimed and moves the cursor.      *)
(***************************************************************************)
HookStarts ==
    /\ hook.pc = "idle" /\ ~IsAgentBusy /\ ~IsDaemonAlive
    /\ cursor < Len(log)
    /\ hook' = [hook EXCEPT !.pc = "checked"]
    /\ busy' = Nobody
    /\ UNCHANGED <<log, cursor, claims, queue, lock, listener, daemon, shot, past,
                   faults>>

Unread == Range(SubSeq(log, cursor + 1, Len(log)))

HookDrains ==
    /\ hook.pc = "checked"
    /\ LET lines == (Unread \cap Mentions) \ claims IN
       hook' = IF lines = {} THEN [hook EXCEPT !.pc = "idle"]
               ELSE [pc |-> "drained", lines |-> lines, cursor |-> Len(log)]
    /\ UNCHANGED <<files, listener, daemon, shot, past, faults>>

HookTells ==
    /\ hook.pc = "drained"
    /\ cursor' = hook.cursor
    /\ past' = [past EXCEPT !.told = @ \cup hook.lines]
    /\ hook' = [pc |-> "idle", lines |-> {}, cursor |-> 0]
    /\ UNCHANGED <<log, claims, queue, busy, lock, listener, daemon, shot, faults>>

-----------------------------------------------------------------------------

ListenerSteps == Scan \/ PassOver \/ LoadClaims \/ Claim \/ SaveState
                     \/ FlushQueues \/ (\E s \in Shots : ExitSeen(s))
DaemonSteps == TakeQueue \/ LoadForBatch \/ RunBatch \/ RunFinishes \/ QueueDone
ShotSteps(s) == ShotQueues(s) \/ ShotSkips(s) \/ ShotPasses(s) \/ ShotRuns(s)
                    \/ ShotFinishes(s)

Next ==
    \/ \E m \in Messages : Send(m)
    \/ AgentReads
    \/ ListenerSteps
    \/ FlushLoses \/ ListenerDies \/ ListenerStarts
    \/ \E s \in Shots : FlushSpawns(s) \/ KillShot(s)
    \/ DaemonSteps
    \/ DaemonStarts \/ RetryBatch \/ RunFails \/ LateRejection \/ DaemonDies
    \/ DaemonExits
    \/ \E s \in Shots : ShotSteps(s) \/ ShotRetries(s) \/ ShotFails(s)
    \/ HookStarts \/ HookDrains \/ HookTells

Spec == Init /\ [][Next]_vars

\* The processes that are up go on: timers fire, and runs have a deadline.
FairSpec == /\ Spec
            /\ WF_vars(ListenerSteps)
            /\ WF_vars(DaemonSteps)
            /\ \A s \in Shots : WF_vars(ShotSteps(s))

-----------------------------------------------------------------------------

\* Type correctness.
TypeOK ==
    /\ log \in Seq(Messages) /\ cursor \in Nat
    /\ claims \subseteq Mentions /\ queue \in Seq(SUBSET Mentions)
    /\ busy \in Holders /\ lock \in Shots \cup {Nobody}
    /\ listener \in [up : BOOLEAN, pc : {"idle", "scan", "claim"},
                     saved : 0..Len(log), seen : 0..Len(log),
                     todo : Seq(Messages), map : SUBSET Mentions,
                     batch : SUBSET Mentions, child : Shots \cup {Nobody}]
    /\ daemon \in [pc : {"down", "idle", "next", "claim", "run", "retry"},
                   offset : 0..Len(queue), lines : Seq(SUBSET Mentions),
                   batch : SUBSET Mentions, map : SUBSET Mentions]
    /\ shot \in [Shots -> [pc : {"unused", "start", "begin", "run", "retry",
                                 "over", "gone"},
                           batch : SUBSET Mentions, own : BOOLEAN]]
    /\ hook \in [pc : {"idle", "checked", "drained"},
                 lines : SUBSET Mentions, cursor : 0..Len(log)]
    /\ past \in [claimed : SUBSET Mentions, told : SUBSET Mentions,
                 dropped : SUBSET Mentions, early : SUBSET Mentions,
                 overwritten : SUBSET Mentions, disturbed : BOOLEAN,
                 runs : [Mentions -> Nat]]
    /\ faults \in [crashes : 0..MaxCrashes, failures : 0..MaxFaults]

\* The agent is woken for and told of the same message only when the hook had
\* read it before it was claimed, or when a claim was lost to an older copy of
\* the claim file: a message claimed in time is never delivered by both.
ClaimedInTime ==
    \A m \in past.told : m \in past.claimed => m \in past.early \cup past.overwritten

\* No message is run more than twice, whatever crashes, restarts and retries:
\* once, and once again when the run failed.
TwoRunsAtMost == \A m \in Mentions : past.runs[m] <= 2

\* A message that was claimed, and so is hidden from the stop hook, is on its
\* way in one of the four places, or was run, or was dropped by a recorded
\* failure.
Queued == UNION Range(SubSeq(queue, daemon.offset + 1, Len(queue)))
OnItsWay == listener.batch \cup daemon.batch \cup Queued
                \cup (UNION Range(daemon.lines)) \cup (UNION {shot[s].batch : s \in Shots})
ClaimedIsCarried ==
    \A m \in past.claimed : m \in OnItsWay \cup past.dropped \/ past.runs[m] > 0

\* What was claimed is run, at most twice, or dropped by a failure on record.
ClaimedIsRun == ClaimedIsCarried /\ TwoRunsAtMost

\* While a run of the agent is in progress the busy file says so, unless a
\* second run or a late rejection of the daemon released it.
BusyWhileRunning == Running # {} /\ ~past.disturbed => IsAgentBusy

\* "Advance agent-coord cursor offsets so coord-stop skips hook-delivered
\* messages" (coord-wake-claim-lib.mjs:93): it skips no message nobody can have
\* delivered, since it has not been sent yet.
SkipsOnlyDelivered == cursor <= Len(log)

\* Every message that mentions the agent is run, told, or dropped by a failure,
\* as long as the listener and the daemon are up: a busy flag left behind, a
\* flight that never ends or a queue offset beyond the queue stops nobody.
Relayed ==
    \A m \in Mentions :
        m \in Range(log) ~> \/ past.runs[m] > 0
                            \/ m \in past.told \cup past.dropped
                            \/ ~listener.up \/ ~IsDaemonAlive
=============================================================================
