------------------------------- MODULE Mailbox -------------------------------
(***************************************************************************)
(* One agent's mail: the append-only logs it follows (its inbox, the       *)
(* status board, its rooms) and the ONE cursor file that records how far   *)
(* each log was read.  Two kinds of processes advance that file:           *)
(*                                                                         *)
(*   - read_messages calls (src/tools.ts), which snapshot the log without  *)
(*     a lock and then read-modify-write the cursor under the file's lock  *)
(*     (updateJson in src/store.ts);                                       *)
(*   - peek-coord hooks and tmux pushers, which take no lock: they load    *)
(*     the whole cursor file, drain log after log, and rename a new        *)
(*     cursor file over the old one.                                       *)
(*                                                                         *)
(* A locked writer truncates the file before it writes it, so an unlocked  *)
(* process can find it empty (readJson then falls back to {}), and its     *)
(* rename can unlink the inode the locked writer is about to write.        *)
(*                                                                         *)
(* Messages are positions 1, 2, ... of their log; a log holds only what    *)
(* the consumers tell apart about a message.                               *)
(***************************************************************************)
EXTENDS Integers, Sequences, FiniteSets

CONSTANTS
  Inboxes,        \* the logs read as source "inbox"
  Boards,         \* the logs read as source "status"
  Rooms,          \* the logs read as source "room"
  Readers,        \* concurrent read_messages calls
  Hooks,          \* peek-coord processes
  Pushers,        \* tmux-pusher processes
  Limits,         \* values of the optional limit argument; 0 = not given
  Window,         \* the limit of a room read that gives none (50 in the code)
  SinceCuts,      \* how many of the unread messages sinceTs filters out
  Crashes,        \* whether a process may die in the middle of its work
  Traffic,        \* the kinds of messages that are sent
  MaxLog,         \* bound: messages per log
  NoOne

Keys == Inboxes \cup Boards \cup Rooms
Consumers == Hooks \cup Pushers

\* "control": a slash command sent as such; "barred": text that starts with a
\* slash, or comes from a sender the pusher's allowlist leaves out.
Kinds == {"peer", "own", "control", "barred"}

ASSUME TrafficAssumption == Traffic \subseteq Kinds
ASSUME LimitsAssumption == Limits \subseteq Nat
ASSUME WindowAssumption == Window \in Nat \ {0}
ASSUME SinceAssumption == SinceCuts \subseteq Nat
ASSUME BoundAssumption == MaxLog \in Nat
ASSUME CrashAssumption == Crashes \in BOOLEAN
ASSUME NobodyAssumption == NoOne \notin Readers

VARIABLES
  log,            \* log[k]: the messages appended to k, oldest first
  file,           \* file[k]: the offset of k last written to the cursor file
  torn,           \* the cursor file is truncated and not yet written again
  lock,           \* the call that holds the cursor file's lock, or NoOne
  pc,             \* where a read_messages call is
  key, limit, cut,\* its arguments: the source, limit, and what sinceTs drops
  seen,           \* the length of the log it read, before the lock
  base,           \* the offsets it read from the cursor file, under the lock
  hpc,            \* where an unlocked consumer is
  todo,           \* the logs it has still to drain
  from, upto,     \* the offsets it loaded, and those it has drained up to
  claimed,        \* history: the positions a consumer took as its own
  again,          \* history: the positions taken after they were claimed
  passed,         \* history: the positions a read skipped because of sinceTs
  pushed,         \* history: the positions a pusher took
  shown,          \* history: the positions put before the agent
  stashed,        \* history: the positions a history hash recovers
  dropped,        \* history: the positions lost with what had them in hand
  wiped           \* history: a call has died and left the cursor file truncated

cursorVars == <<file, torn, lock>>
callVars == <<pc, key, limit, cut, seen, base>>
consumerVars == <<hpc, todo, from, upto>>
history == <<claimed, again, passed, pushed, shown, stashed, dropped,
             wiped>>
vars == <<log, cursorVars, callVars, consumerVars, history>>

CallStates == {"idle", "peek", "read", "locked", "torn", "stash", "reply"}
ConsumerStates == {"idle", "drain", "print"}
Offsets == [Keys -> Nat]
Zero == [k \in Keys |-> 0]

\* What a process finds in the cursor file: an empty file parses as {}.
Cursor == IF torn THEN Zero ELSE file

-----------------------------------------------------------------------------
(* The batch a read_messages call takes: positions Lo+1..Hi of its log.    *)

Least(a, b) == IF a <= b THEN a ELSE b
Most(a, b) == IF a >= b THEN a ELSE b

Start(r) == base[r][key[r]]
Hi(r) == Most(Start(r), seen[r])
Lo(r) == Least(Start(r) + cut[r], Hi(r))
Batch(r) == (Lo(r) + 1)..Hi(r)

\* Mutants of Advanced: one short; to the end of the log, not of the snapshot;
\* every log's offset moved along.
AdvancedShort(r) == [base[r] EXCEPT ![key[r]] = Start(r) + (Hi(r) - Lo(r)) - 1]
AdvancedToEnd(r) == [base[r] EXCEPT ![key[r]] = Len(log[key[r]])]
AdvancedEverywhere(r) == [k \in Keys |-> base[r][k] + (Hi(r) - Lo(r))]

\* The offset moves by the number of entries left after the sinceTs filter.
Advanced(r) == [base[r] EXCEPT ![key[r]] = Start(r) + (Hi(r) - Lo(r))]

EffectiveLimit(r) ==
  IF limit[r] # 0 THEN limit[r] ELSE IF key[r] \in Rooms THEN Window ELSE MaxLog

Overflows(r) == Hi(r) - Lo(r) > EffectiveLimit(r)

\* Mutant of Overflow: the last message before the window is in neither slice.
OverflowShort(r) ==
  IF key[r] \in Rooms /\ Overflows(r)
  THEN (Lo(r) + 1)..(Hi(r) - EffectiveLimit(r) - 1) ELSE {}

\* A room keeps its newest messages raw and stashes the older ones; any other
\* source returns its oldest ones.
Overflow(r) ==
  IF key[r] \in Rooms /\ Overflows(r)
  THEN (Lo(r) + 1)..(Hi(r) - EffectiveLimit(r)) ELSE {}
Recent(r) ==
  IF ~Overflows(r) THEN Batch(r)
  ELSE IF key[r] \in Rooms THEN (Hi(r) - EffectiveLimit(r) + 1)..Hi(r)
  ELSE (Lo(r) + 1)..(Lo(r) + EffectiveLimit(r))

\* Own posts are dropped from shared logs, never from the inbox.
VisibleToCall(k, i) == k \in Inboxes \/ log[k][i] # "own"

\* What a pusher queues for the pane (shouldInject), and what a hook prints.
VisibleToConsumer(c, k, i) ==
  IF c \in Pushers THEN log[k][i] \notin {"own", "barred"}
  ELSE log[k][i] # "control" /\ (k \in Inboxes \/ log[k][i] # "own")

Drained(c, k) == (from[c][k] + 1)..upto[c][k]

-----------------------------------------------------------------------------
Init ==
  /\ log = [k \in Keys |-> <<>>]
  /\ file = Zero
  /\ torn = FALSE
  /\ lock = NoOne
  /\ pc = [r \in Readers |-> "idle"]
  /\ key \in [Readers -> Keys]
  /\ limit = [r \in Readers |-> 0]
  /\ cut = [r \in Readers |-> 0]
  /\ seen = [r \in Readers |-> 0]
  /\ base = [r \in Readers |-> Zero]
  /\ hpc = [c \in Consumers |-> "idle"]
  /\ todo = [c \in Consumers |-> {}]
  /\ from = [c \in Consumers |-> Zero]
  /\ upto = [c \in Consumers |-> Zero]
  /\ claimed = [k \in Keys |-> {}]
  /\ again = [k \in Keys |-> {}]
  /\ passed = [k \in Keys |-> {}]
  /\ pushed = [k \in Keys |-> {}]
  /\ shown = [k \in Keys |-> {}]
  /\ stashed = [k \in Keys |-> {}]
  /\ dropped = [k \in Keys |-> {}]
  /\ wiped = FALSE

\* appendJsonl: send_message, send_command or post_status add a line to a log.
Send(k, kind) ==
  /\ Len(log[k]) < MaxLog
  /\ log' = [log EXCEPT ![k] = Append(@, kind)]
  /\ UNCHANGED <<cursorVars, callVars, consumerVars, history>>

-----------------------------------------------------------------------------
(* read_messages                                                           *)

\* A call that ends leaves nothing behind: its locals are gone.
CallEnds(r) ==
  /\ pc' = [pc EXCEPT ![r] = "idle"]
  /\ limit' = [limit EXCEPT ![r] = 0]
  /\ cut' = [cut EXCEPT ![r] = 0]
  /\ seen' = [seen EXCEPT ![r] = 0]
  /\ base' = [base EXCEPT ![r] = Zero]
  /\ UNCHANGED key

\* The handler reads the whole log before it takes the cursor's lock.
BeginRead(r, k, l, n, peek) ==
  /\ pc[r] = "idle"
  /\ pc' = [pc EXCEPT ![r] = IF peek THEN "peek" ELSE "read"]
  /\ key' = [key EXCEPT ![r] = k]
  /\ limit' = [limit EXCEPT ![r] = l]
  /\ cut' = [cut EXCEPT ![r] = n]
  /\ seen' = [seen EXCEPT ![r] = Len(log[k])]
  /\ UNCHANGED <<log, cursorVars, base, consumerVars, history>>

\* peek: true only looks at the cursor.
Peek(r) ==
  /\ pc[r] = "peek"
  /\ CallEnds(r)
  /\ UNCHANGED <<log, cursorVars, consumerVars, history>>

\* updateJson locks the cursor file and reads it ...
Acquire(r) ==
  /\ pc[r] = "read"
  /\ lock = NoOne
  /\ lock' = r
  /\ pc' = [pc EXCEPT ![r] = "locked"]
  /\ base' = [base EXCEPT ![r] = Cursor]
  /\ UNCHANGED <<log, file, torn, key, limit, cut, seen, consumerVars, history>>

\* ... or gives up when its retries run out.
LockFailed(r) ==
  /\ pc[r] = "read"
  /\ lock # NoOne
  /\ CallEnds(r)
  /\ UNCHANGED <<log, cursorVars, consumerVars, history>>

\* fs.writeFile opens the file for writing, which truncates it ...
Truncate(r) ==
  /\ pc[r] = "locked"
  /\ pc' = [pc EXCEPT ![r] = "torn"]
  /\ torn' = TRUE
  /\ UNCHANGED <<log, file, lock, key, limit, cut, seen, base, consumerVars, history>>

\* ... and then writes the new cursor: in vain when a consumer's rename has
\* put another file in its place.  The batch is the call's either way.
Store(r) ==
  LET k == key[r] IN
  /\ pc[r] = "torn"
  /\ file' = IF torn THEN Advanced(r) ELSE file
  /\ torn' = FALSE
  /\ lock' = NoOne
  /\ claimed' = [claimed EXCEPT ![k] = @ \cup Batch(r)]
  /\ again' = [again EXCEPT ![k] = @ \cup (claimed[k] \cap Batch(r))]
  /\ passed' = [passed EXCEPT ![k] = @ \cup ((Start(r) + 1)..Lo(r))]
  /\ pc' = [pc EXCEPT ![r] = IF Overflow(r) = {} THEN "reply" ELSE "stash"]
  /\ UNCHANGED <<log, key, limit, cut, seen, base, consumerVars,
                 pushed, shown, stashed, dropped, wiped>>

\* stashHistory writes the overflow of a room read under its hash.
Stash(r) ==
  /\ pc[r] = "stash"
  /\ pc' = [pc EXCEPT ![r] = "reply"]
  /\ stashed' = [stashed EXCEPT ![key[r]] = @ \cup Overflow(r)]
  /\ UNCHANGED <<log, cursorVars, key, limit, cut, seen, base, consumerVars,
                 claimed, again, passed, pushed, shown, dropped, wiped>>

Lose(r) == dropped' = [dropped EXCEPT ![key[r]] = @ \cup Batch(r)]

\* It throws (no lock, the file is unlinked by a sweep, no space): the call
\* fails, and its batch with it, behind a cursor that has moved.
StashThrows(r) ==
  /\ pc[r] = "stash"
  /\ CallEnds(r)
  /\ Lose(r)
  /\ UNCHANGED <<log, cursorVars, consumerVars,
                 claimed, again, passed, pushed, shown, stashed, wiped>>

Reply(r) ==
  /\ pc[r] = "reply"
  /\ CallEnds(r)
  /\ shown' = [shown EXCEPT ![key[r]] =
                 @ \cup {i \in Recent(r) : VisibleToCall(key[r], i)}]
  /\ UNCHANGED <<log, cursorVars, consumerVars,
                 claimed, again, passed, pushed, stashed, dropped, wiped>>

\* The server process dies during a call: its cursor file stays truncated, or
\* the batch it had taken is gone.
CallDies(r) ==
  /\ Crashes
  /\ pc[r] # "idle"
  /\ CallEnds(r)
  /\ wiped' = (wiped \/ (pc[r] = "torn" /\ torn))
  /\ IF pc[r] \in {"stash", "reply"} THEN Lose(r) ELSE UNCHANGED dropped
  /\ UNCHANGED <<log, cursorVars, consumerVars,
                 claimed, again, passed, pushed, shown, stashed>>

\* Mutant of BreakStaleLock: a slow holder's lock is taken over too.
BreakAnyLock ==
  /\ lock # NoOne
  /\ lock' = NoOne
  /\ UNCHANGED <<log, file, torn, callVars, consumerVars, history>>

\* proper-lockfile takes over a lock whose holder has been dead for 5 seconds.
BreakStaleLock ==
  /\ lock # NoOne
  /\ pc[lock] \notin {"locked", "torn"}
  /\ lock' = NoOne
  /\ UNCHANGED <<log, file, torn, callVars, consumerVars, history>>

-----------------------------------------------------------------------------
(* peek-coord and tmux-pusher                                              *)

ConsumerEnds(c) ==
  /\ hpc' = [hpc EXCEPT ![c] = "idle"]
  /\ todo' = [todo EXCEPT ![c] = {}]
  /\ from' = [from EXCEPT ![c] = Zero]
  /\ upto' = [upto EXCEPT ![c] = Zero]

\* Load the cursor file; drain the inbox, and the rooms too when told to.
Load(c, withRooms) ==
  /\ hpc[c] = "idle"
  /\ hpc' = [hpc EXCEPT ![c] = "drain"]
  /\ todo' = [todo EXCEPT ![c] = IF withRooms THEN Inboxes \cup Rooms ELSE Inboxes]
  /\ from' = [from EXCEPT ![c] = Cursor]
  /\ upto' = [upto EXCEPT ![c] = Cursor]
  /\ UNCHANGED <<log, cursorVars, callVars, history>>

\* One log is read to its end and the in-memory cursor moved there.
Drain(c, k) ==
  /\ hpc[c] = "drain"
  /\ k \in todo[c]
  /\ todo' = [todo EXCEPT ![c] = @ \ {k}]
  /\ upto' = [upto EXCEPT ![c][k] = Most(@, Len(log[k]))]
  /\ UNCHANGED <<log, cursorVars, callVars, hpc, from, history>>

\* A hook writes the cursor only when it has something to print, a pusher
\* whenever it drained anything.
WorthSaving(c) ==
  \E k \in Keys : \E i \in Drained(c, k) :
    c \in Pushers \/ VisibleToConsumer(c, k, i)

\* Mutant of Save: the offsets are taken from the logs when they are written.
SaveEnds(c) ==
  /\ hpc[c] = "drain"
  /\ todo[c] = {}
  /\ WorthSaving(c)
  /\ hpc' = [hpc EXCEPT ![c] = "print"]
  /\ file' = [k \in Keys |-> Len(log[k])]
  /\ torn' = FALSE
  /\ claimed' = [k \in Keys |-> claimed[k] \cup Drained(c, k)]
  /\ UNCHANGED <<log, lock, callVars, todo, from, upto,
                 again, passed, pushed, shown, stashed, dropped, wiped>>

\* The whole cursor, every key of it, replaces the file by a rename.
Save(c) ==
  /\ hpc[c] = "drain"
  /\ todo[c] = {}
  /\ WorthSaving(c)
  /\ hpc' = [hpc EXCEPT ![c] = "print"]
  /\ file' = upto[c]
  /\ torn' = FALSE
  /\ claimed' = [k \in Keys |-> claimed[k] \cup Drained(c, k)]
  /\ again' = [k \in Keys |-> again[k] \cup (claimed[k] \cap Drained(c, k))]
  /\ pushed' = IF c \in Pushers
               THEN [k \in Keys |-> pushed[k] \cup Drained(c, k)] ELSE pushed
  /\ UNCHANGED <<log, lock, callVars, todo, from, upto,
                 passed, shown, stashed, dropped, wiped>>

NothingToSave(c) ==
  /\ hpc[c] = "drain"
  /\ todo[c] = {}
  /\ ~WorthSaving(c)
  /\ ConsumerEnds(c)
  /\ UNCHANGED <<log, cursorVars, callVars, history>>

\* A hook prints into the agent's context; a pusher queues for the pane.
Show(c) ==
  /\ hpc[c] = "print"
  /\ ConsumerEnds(c)
  /\ shown' = [k \in Keys |->
                 shown[k] \cup {i \in Drained(c, k) : VisibleToConsumer(c, k, i)}]
  /\ UNCHANGED <<log, cursorVars, callVars,
                 claimed, again, passed, pushed, stashed, dropped, wiped>>

ConsumerDies(c) ==
  /\ Crashes
  /\ hpc[c] # "idle"
  /\ ConsumerEnds(c)
  /\ dropped' = IF hpc[c] = "print"
                THEN [k \in Keys |-> dropped[k] \cup Drained(c, k)] ELSE dropped
  /\ UNCHANGED <<log, cursorVars, callVars,
                 claimed, again, passed, pushed, shown, stashed, wiped>>

-----------------------------------------------------------------------------
ReadCall(r) ==
  \/ \E k \in Keys, l \in Limits, n \in SinceCuts, peek \in BOOLEAN :
       BeginRead(r, k, l, n, peek)
  \/ Peek(r) \/ Acquire(r) \/ LockFailed(r) \/ Truncate(r) \/ Store(r)
  \/ Stash(r) \/ StashThrows(r) \/ Reply(r) \/ CallDies(r)

Consume(c) ==
  \/ \E withRooms \in BOOLEAN : Load(c, withRooms)
  \/ \E k \in Keys : Drain(c, k)
  \/ Save(c) \/ NothingToSave(c) \/ Show(c) \/ ConsumerDies(c)

Next ==
  \/ \E k \in Keys, kind \in Traffic : Send(k, kind)
  \/ \E r \in Readers : ReadCall(r)
  \/ BreakStaleLock
  \/ \E c \in Consumers : Consume(c)

Spec == Init /\ [][Next]_vars

-----------------------------------------------------------------------------
(* Properties                                                              *)

\* Every variable has its type; every offset is an offset.
TypeOK ==
  /\ log \in [Keys -> Seq(Kinds)]
  /\ file \in Offsets
  /\ torn \in BOOLEAN
  /\ lock \in Readers \cup {NoOne}
  /\ pc \in [Readers -> CallStates]
  /\ key \in [Readers -> Keys]
  /\ limit \in [Readers -> Nat]
  /\ cut \in [Readers -> Nat]
  /\ seen \in [Readers -> Nat]
  /\ base \in [Readers -> Offsets]
  /\ hpc \in [Consumers -> ConsumerStates]
  /\ todo \in [Consumers -> SUBSET Keys]
  /\ from \in [Consumers -> Offsets]
  /\ upto \in [Consumers -> Offsets]
  /\ claimed \in [Keys -> SUBSET Nat]
  /\ again \in [Keys -> SUBSET Nat]
  /\ passed \in [Keys -> SUBSET Nat]
  /\ pushed \in [Keys -> SUBSET Nat]
  /\ shown \in [Keys -> SUBSET Nat]
  /\ stashed \in [Keys -> SUBSET Nat]
  /\ dropped \in [Keys -> SUBSET Nat]
  /\ wiped \in BOOLEAN

\* The cursor never runs ahead of what was consumed: whatever lock is missed,
\* whatever stale cursor a hook or a pusher renames over a newer one, every
\* message below an offset was taken by somebody (or filtered by sinceTs).
\* Losing a message silently would take an offset nobody's batch reached.
NoSkip == \A k \in Keys : 1..file[k] \subseteq claimed[k] \cup passed[k]

\* No offset points past the end of its log, so an unread message is always
\* in reach of the next read.
CursorWithinLog == \A k \in Keys : file[k] <= Len(log[k])

\* Among read_messages calls alone the lock is enough, although each call
\* reads the log before it takes the lock: what has been taken is exactly
\* the prefix the cursor names, and nothing was taken twice.  It breaks only
\* when a process dies with the cursor file truncated.
ExactlyOnce ==
  ~wiped =>
    \A k \in Keys : claimed[k] = 1..file[k] /\ again[k] = {}

\* A position some live process has taken and not yet handed over.
InHand(k, i) ==
  \/ \E r \in Readers : /\ key[r] = k
                        /\ \/ pc[r] \in {"stash", "reply"} /\ i \in Recent(r)
                           \/ pc[r] = "stash" /\ i \in Overflow(r)
  \/ \E c \in Consumers : hpc[c] = "print" /\ i \in Drained(c, k)

\* A position that needs nobody any more: it was shown, the history recovers it,
\* it was lost in the hands of one that failed, or a pusher barred it.
Settled(k, i) ==
  \/ i \in shown[k] \cup stashed[k] \cup dropped[k]
  \/ i \in pushed[k] /\ log[k][i] = "barred"

\* The agent is owed what peers wrote: none of it that was taken goes astray.
Owed(k, i) == log[k][i] \in {"peer", "barred"}
Kept(k) == \A i \in claimed[k] : Owed(k, i) => Settled(k, i) \/ InHand(k, i)

\* A room read moves the cursor past the overflow before it is stashed, and all
\* who read a room move it before they show anything: still each room message
\* that one of them took is shown by that one or another, recovered by a digest,
\* barred by a pusher, in somebody's hands, or was in those of a call whose stash
\* failed or of a process that died.
RoomsLossless == \A k \in Rooms : Kept(k)

\* src/tools.ts:706 promises the same of every read: the cursor advances past
\* everything "we account for here (recent window + any overflow we stash
\* below)".
AdvancesOnlyPastAccounted == \A k \in Keys : Kept(k)

\* src/tools.ts:708: what a read advanced past "must not requeue for the next
\* read".
MustNotRequeue == ~wiped => \A k \in Keys : again[k] = {}

\* hooks/tmux-pusher.mjs:32: read_messages "won't see anything the pusher
\* already delivered".
ReadSkipsPushed ==
  [][\A r \in Readers : pc[r] = "torn" /\ pc'[r] \in {"stash", "reply"}
       => Batch(r) \cap pushed[key[r]] = {}]_vars

\* hooks/peek-coord.mjs:51: control commands are consumed by the hook ("the
\* cursor already advanced in drain"): when a hook is done, the cursor file
\* is past every control command it drained, or at least not behind it
\* because of the hook.
HookConsumesControl ==
  [][\A c \in Hooks : hpc[c] = "drain" /\ hpc'[c] # "drain" =>
       \A k \in Keys : \A i \in Drained(c, k) :
         log[k][i] = "control" => file'[k] >= i]_vars

\* The promise of Delivery, kept by read_messages calls.
Promise == INSTANCE Delivery WITH
  sent <- [k \in Keys |-> Len(log[k])], delivered <- claimed, repeated <- again,
  lost <- wiped

RefinesDelivery == Promise!Spec
=============================================================================
