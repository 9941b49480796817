# agent-coord-mcp in TLA+

agent-coord-mcp is a message bus for coding agents that has no server of its own. Its state is a
directory of JSON and JSONL files (`~/agent-coord`); every agent runs an MCP server
(`src/src/server.ts`, the tools in `tools.ts`, the file primitives in `store.ts`), and hooks,
pushers, chat clients and wake daemons work on the same files as separate processes. Some take the
lock of a file, some do not, and any of them may die. This project models that sharing: who reads
what before which write, what a crash leaves behind, and what the agents see of it.

Paths below are relative to the repository root, which is `src/` here (so `src/src/tools.ts` is the
repository's own `src/tools.ts`).

## 1. The system

| Component | State | Operations | Talks to |
|---|---|---|---|
| Logs and cursors (`tools.ts`, `store.ts`) | `inbox/<id>.jsonl`, `status.jsonl`, `room.jsonl`, `rooms/<room>.jsonl`; `cursors/<id>.json`; `<file>.lock` | `send_message` appends under the log's lock; `read_messages` snapshots the log without one, moves the cursor under the cursor's lock (`updateJson`: lock, truncate, write), stashes the overflow, replies | every other reader of the log |
| peek-coord hook (`hooks/peek-coord.mjs`) | the cursor file, loaded whole | drain inbox and rooms, rename a new cursor file into place, print | shares the cursor with everybody, takes no lock |
| Retention sweep (`prune`) | all files | rewrite logs, shift cursors, delete orphan inboxes and memberships, receipts and digests | one lock after another |
| tmux pusher (`hooks/tmux-pusher.mjs`) | memory: pending list, timer, flag; receipts log; marker | drain, debounce, paste, Enter, receipt, probe of the pane | pane (tmux), cursor, `send_command` |
| `send_command` | – | gate on the transport, append a control command, wait for its receipt, remind after `/clear` | tmux pusher |
| `wait_for_message` | a poll per call | measure the log, notice growth, read | remote pusher |
| Remote pusher (`scripts/coord-pusher.mjs`) | a loop per room, a heartbeat timer | long-poll, refresh of rooms, report and clear the marker | server over MCP |
| Transport markers | `transports/<id>.json`, pid files, heartbeat in `agents.json` | `attach_agent`, `detach_agent`, `list_agents`, report, clear | both pushers |
| Registry and rooms | `agents.json`, `rooms.json` | register, unregister, rename, join, leave, eviction | inbox and cursor files |
| Wake stack (`.cursor/hooks`) | claims, queue and its offset, busy flag, one-shot lock, listener state | listener scan and flush, daemon, one-shot, stop hook | cursor of the agent |
| History digests (`store.ts`) | `history/<hash>.json` | stash the overflow under a hash, retrieve, sweep what expired | `read_messages`, sessions |
| Channels (`tools.ts`) | `rooms.json`, `rooms/<room>.jsonl`, offsets in every cursor file | create, join, leave, post, topic, MOTD, `delete_room` | registry, cursors |
| doctor (`tools.ts`) | – | check members, inboxes, cursors, logs; fix them by what it read at its start | every file |
| Server, identity (`server.ts`) | `tokens.json` and its copy in memory, a binding per session | authenticate, bind, gate, reload, rotate on rename | every tool |
| coord-chat (`scripts/coord-chat.mjs`) | a cursor, a map of invited stacks | drain, `/prune`, `/wipe`, `/rollover`, join, part, invite, kick, quit | the same files, mostly without locks |
| Hook stacks (`scripts/coord-agent-spawn.mjs`, `coord-pid-lib.mjs`) | two pid files, a manifest, a transport marker | start, claim, preempt, sweep, exit handlers | coord-chat, admin CLI |
| GM inventory, dice, setup and clean-up scripts, native client | various | game inventory, maintenance, user interface | the same files |

What makes it hard:

* **No common lock.** `updateJson` and `appendJsonl` take the lock of one file; pushers, hooks and
  the wake stack rename or rewrite the same files without it; a call spans several files.
* **Read, then act.** A log is snapshotted before the cursor's lock is taken; a marker, a
  registry, a list of rooms, a busy flag is read and acted on later.
* **The cursor moves first.** Every consumer records the progress before the message has reached
  anybody, so a death in between loses it, and a retry must be driven from memory.
* **Timers and retries.** Debounced injection, receipts with a deadline, long polls, heartbeats.

What must be right: a message is not skipped, lost or repeated except where the code accepts it;
what is typed into a pane keeps its order and control commands their receipts; one pusher serves a
pane and one stack an agent, and both can be found; an identity owns its mail, its digests and its
name through renames; cleaning up takes nothing from anybody who is there; a wake happens once.
`PROJECT.json` lists the hazards by line with the properties that cover them.

## 2. Modules

| Module | Models | Used by |
|---|---|---|
| `Delivery` | abstract: one reader of an append-only log; each delivery is the next unread messages | refined by `Mailbox` |
| `Mailbox` | `read_messages` calls, peek-coord hooks and pushers on one cursor file | `MCMailbox`, `Cursors_proofs` |
| `Cursors_proofs` | theorems of `Mailbox`, with the refinement of `Delivery`, and of `Channels` | – |
| `Prune` | sweeps against the readers and senders of one log | `MCPrune`, `Logs_proofs` |
| `Pusher` | the tmux pusher with `send_command` | `MCPusher`, `Pusher_proofs` |
| `Pusher_proofs` | theorems of `Pusher` | – |
| `LongPoll` | `wait_for_message` with the loops of the remote pusher | `MCLongPoll`, `Logs_proofs` |
| `Logs_proofs` | theorems of `LongPoll` and of `Prune` | – |
| `Transport` | the marker: attach, detach, list, both kinds of pusher | `MCTransport`, `Agents_proofs` |
| `Agents_proofs` | theorems of `Transport` and of `Registry` | – |
| `Registry` | the registry, members, inbox and cursor files of ids | `MCRegistry`, `Agents_proofs` |
| `Wake` | listener, daemon, one-shots, stop hook | `MCWake`, `Wake_proofs` |
| `Wake_proofs` | theorems of `Wake` | – |
| `Channels` | a channel's entry, log and offsets under the agents' tools, `delete_room` and `doctor` | `MCChannels`, `Cursors_proofs` |
| `Identity` | tokens, the server's copy, sessions and renames | `Session` |
| `History` | stash, retrieval and expiry of digests | `Session` |
| `Session` | composes `Identity` and `History`: digests handed out in the name of a session | `MCSession`, `Session_proofs` |
| `Session_proofs` | theorems of `Session`, and of the digests of `History` they rest on | – |
| `Chat` | coord-chat's drain and its rewriting commands beside the server | `Chat_proofs` |
| `Chat_proofs` | theorems of `Chat` | – |
| `Stacks` | the hook stack of an agent and those who start and stop it | `MCStacks`, `Stacks_proofs` |
| `Stacks_proofs` | theorems of `Stacks` | – |

Each module is about one agent (Registry: about ids). They meet at the files: `Mailbox` has the
pusher only as one more unlocked writer of the cursor, `Pusher` has its inside; `Registry` treats
a read as one step, `Mailbox` has its inside; `Prune` is the sweep that `Registry` leaves out, and
`Chat` has the other sweep, which takes no lock. `Session` is a composition in the model too: it
EXTENDS `Identity` and `History`, the gate of one guards the calls of the other, and the end of
the server ends both.

### Correspondence

The `map` of `PROJECT.json` gives the lines of every definition. The grain is: one action for what
a process does between two points where another can interfere, that is between awaits, system
calls on shared files, or timers, with the exceptions named in section 5.

* **Mailbox.** `log[k]` is a file of lines, of which only the kind matters (`peer`, `own`,
  `control`, and `barred`: what a pusher's allowlist or slash guard leaves out); `file` is the cursor file, `torn` says it is truncated. A call is `BeginRead`
  (snapshot), `Acquire`, `Truncate`, `Store` (commit and unlock), `Stash` or `StashThrows` (stashHistory fails, and with it the call, when the
  cursor has moved), `Reply`; `BreakStaleLock` takes over the lock of a dead process; `CallDies` and
  `ConsumerDies` may strike in every state. `Advanced` is `setOffset`
  with its count of filtered entries. A hook is `Load`, one `Drain` per log, `Save` (rename) or
  `NothingToSave` (the early exit), `Show`.
* **Prune.** A sweep is a truncation, a write and, later, the shift of the cursor; a send takes its
  time stamp before it appends. `Adjust` is the clamped shift of `tools.ts:1004`.
* **Pusher.** `CheckOnce` drains both logs and moves the cursor; `Flush` starts the injection of
  what is pending; `LoadAndPaste`, `Enter`, `Stamp` are its steps for one item; `InjectFails`
  queues the whole batch again in front; `Issue`, `Confirm`, `TimeOut`, `Remind` are the command
  and its timers. `lines` is what the pane has seen.
* **LongPoll.** `Measure`, `Notice`, `Expire`, `Read` on the server; `CallWait`, `Receive`,
  `CallFails`, `LoopEnds`, `AskRooms`, `Refresh` in the pusher. An abandoned call goes on. `Read` takes
  all that is unread (`TakeUnread`), returns a room's newest `Window` (`Fresh`) and leaves the rest to a
  digest (`Overflow`); `ReadFails` and `StashThrows` are its errors before and after the cursor has moved,
  which the loop takes for a result without messages. `Receive` queues what the pusher's filters let
  through (`Admitted`) and never looks at the digest.
* **Transport.** Every handler is cut where it awaits: read the marker, then judge it
  (`IsMarkerLive`), then write or unlink it, whatever it is by then. `age` is the heartbeat's age.
* **Registry.** A rename is five steps (check, registry, members, inbox, cursor), a departure two,
  a prune a list and a step for each inbox; `PruneRead` finds agents.json as it is, or emptied by a
  writer. `join_room` (create the room, add the member, post the
  notice) is one step. The detach that `unregister` performs is in Transport.
* **Wake.** `Scan` takes the new lines; a line that wakes nobody or is claimed is passed over
  (`PassOver`), for another the claim file is read (`LoadClaims`) and written (`Claim`);
  `FlushQueues`, `FlushSpawns`, `FlushLoses` are the outcomes of a flush, each after the advance
  of the cursor by a count; `TakeQueue` moves the offset before `RunBatch`, which is followed by at
  most one `RetryBatch`; the one-shot is a check (`ShotQueues`, `ShotSkips`, `ShotPasses`) and a run;
  the stop hook is `HookStarts`, `HookDrains`, `HookTells`.
* **Channels.** A log is a sequence of lines that parse or do not. `EnsureRoom`, `AddMember`,
  `SetRoomMeta`, `Post` are the awaits of joining, posting and setting the topic; `DeleteCheck`,
  `DeleteEntry`, `DeleteLog`, `DropOffset` (an agent each), `DeleteEnds` those of `delete_room`. The
  doctor reads agents (`DoctorReadAgents`) and rooms, goes through the checks in the code's order
  (`DoctorMembers`, `DoctorInbox`, `DoctorCursor`, `DoctorOffset` with `DoctorClamp`,
  `DoctorRewrite` or, when the log to be copied is gone, `DoctorFails`, `DoctorRegister`), and acts on `doc.known` and `doc.counts`, which it never reads
  again. `KnownNow` is empty while a writer has agents.json truncated.
* **Identity.** A token is its client. `map` is what the server has in memory; `Sighup` reloads it;
  `Gate` is the check of every tool. A rename is `RenameBegins`, `RenameRegistry`, `RotateBegins`
  (the truncation of tokens.json), `RotateWrites`, `RenameReplies`.
* **History.** A stash is `StashBegins`, `StashLocks`, `StashOpens`, `StashWrites`, `StashReplies`; its
  sweep, for which nobody waits, is `SweepReads` and one `SweepUnlinks` for each dead file.
  `HistoryHash` keeps from a batch what the code hashes. `RolloverClears` is coord-chat's `/rollover`,
  which unlinks every digest.
* **Chat.** A command is a step for each await it reaches: `/prune` is `PruneReads`, `PruneWrites`,
  then `ShiftReads`/`ShiftWrites` per cursor file; `/rollover` is `RolloverRenames`,
  `RolloverCreates` and the shifts to 0. `DrainReads` and `DrainSaves` are the two ends of the drain's
  wait for the cursor's lock, which commands do not take. `Peer*` is the server at work for an agent.
* **Stacks.** A stack goes from "spawned" through `ClaimDaemon`, `HoldDaemon`, `HoldListener` to "up";
  it ends by `Exit` (handlers run), `Crash`, a preemption or a sweep (they do not). A supervisor's
  command is one `Begin`, a `Sweep` followed by the 300 ms it waits, and what comes after:
  `Spawn`, `Register`, `Mark` of an invitation, `Uninvited`, `KickStopped` and `Kicked`, `QuitDone`.
  The CLI's map ends with its run (`Return`). An exit event waits in `exits` until the chat's loop
  turns (`ChildExit`).

Variables marked "history" are read by properties only. In several modules a history variable
(`damage`, `clash`, `foul`, `unordered`, `lost`, `disturbed`,
`misread`, `late`, `raced`, `outdated`, `lag`) records that a specific, named
interference happened; the properties then say: *short of exactly these, it is correct*. They are
the precise statement of what the unlocked files cost. They are not a licence: each names an
interleaving that the code really allows, and where a document denies it a configuration of the
second table below shows it.

## 3. The runs

`tlc -workers 2 -config <run>.cfg MC<module>`; the run of `Chat` needs no module of its own and takes
`Chat`.

| Run | Instance | What it shows |
|---|---|---|
| `MailboxCalls` | 2 calls, 1 room, 3 messages, crashes | the lock is enough although the snapshot precedes it: calls implement `Delivery` (`RefinesDelivery`), `ExactlyOnce` until the cursor is wiped by a death between truncation and write; `RoomsLossless`: what was taken is shown, stashed, barred or in hand, but for the batch of a call that died or whose stash failed |
| `MailboxRace` | 1 call, 1 hook, 2 logs, sinceTs, crashes | an unlocked rename repeats mail and never skips it (`NoSkip`), nor puts an offset out of reach (`CursorWithinLog`) |
| `Prune` | 2 sweeps, 2 readers, 1 sender, 3 messages | `ReadExactly` (nothing twice, no gap), `CursorStands`: only a snapshot and a cursor on different sides of a sweep do harm |
| `Pusher` | a command, a peer or slash message a log, 1 failure, 1 restart | `ConfirmedWasTyped`, `Conserved`, `TypedInOrder` (no overtaking, typed again only on a failure), `ReminderAfterClear` (for a command by DM: a drain takes the inbox first, so the reminder of a room's `/clear` may precede it); live: `Relayed`, `WipedIsReanchored` |
| `LongPoll` | inbox and a room, 2 calls, 2 messages, a room window of 1, 3 moves, 1 fault | `InOrder`, `OneCallEach`; `NothingLost`: what the cursor has passed is accounted for, and nothing is lost while no connection or stash fails and no room is left; live: `FollowsRooms` (a joined room is tailed, a left one silent) |
| `Transport` | an attach, a detach, a list, 2 local pushers, 1 remote, crashes | `OnePusher`, `Findable`, `DetachSilences` |
| `Registry` | 2 ids, 1 room, 2 calls under way, 1 message, evictions | `MailKeptOnce` (mail is kept, and read once), `Consistent` (one entry each, no ghost in a room) |
| `Wake` | 2 messages, 2 one-shots, 1 death, 1 fault | `ClaimedInTime`, `ClaimedIsRun` (what is claimed is carried on, and run twice at most), `BusyWhileRunning`; live: `Relayed` |
| `Channels` | 2 agents, 1 channel, torn files; at most four of 2 calls (one at a time), 2 registrations or departures, a delete and a doctor | `DoctorHeals`: an undisturbed doctor leaves nothing to repair; `Spared`: a disturbed one evicts nobody who was told it joined and purges no inbox, but in the recorded ways; `NoOffsetOutlives` |
| `Session` | 3 ids, 2 clients with tokens, 2 sessions, 2 digests with one signature; three of the stashes, renames, ends of the server and expiries | `SessionMatchesFile`, `NobodyShutOut`, `DigestOpens` |
| `Chat` | 2 posts, 2 commands, 1 read of the peer, 1 death | `NothingPassedOver` for the peer, `NothingUnseen` for the chat, `Conserved`; live: `Shown` |
| `Stacks` | 2 invited stacks, 1 of an editor task, a chat, the CLI, 3 commands, crashes | `OneStack`: whoever is up owns both pid files, so it is alone and every sweep finds it; `Marked`; `QuitLeavesNone` |

Further configurations are kept beside these, each for one property that does not hold: the code
does not do what a line of a document or comment says. They are run by hand in the same way.

| Configuration | Property | Disagreement |
|---|---|---|
| `MailboxLimit` | `AdvancesOnlyPastAccounted` | an inbox read with a limit moves the cursor past what it neither returns nor stashes (`tools.ts:706`) |
| `PruneCursor` | `CursorWithinLog` | a read across a sweep leaves the cursor past the end of the log (`tools.ts:1006`) |
| `LongPollNotice` | `Noticed` | mail that precedes a wait is noticed with the next message only (`README.md:380`) |
| `WakeCursor` | `SkipsOnlyDelivered` | a wake adds its count to an offset that others have moved, and skips later mail (`coord-wake-claim-lib.mjs:93`) |
| `MailboxSince` | `MustNotRequeue` | after a read with sinceTs the offset is behind what was returned (`tools.ts:708`) |
| `MailboxPushed` | `ReadSkipsPushed` | a read that holds the lock returns what the pusher, which takes none, delivers meanwhile (`tmux-pusher.mjs:32`) |
| `MailboxControl` | `HookConsumesControl` | the hook's early exit leaves control lines unread (`peek-coord.mjs:51`) |
| `PusherAlone` | `ControlAlone` | after a failed Enter the draft of the pane joins the next line (`tmux-pusher.mjs:241`) |
| `LongPollRefresh` | `RefreshTails` | a room rejoined while its loop ends waits for one refresh more (`coord-pusher.mjs:275`) |
| `TransportRemote` | `RefusesSecond` | an attach spawns beside a remote pusher that is up (`tools.ts:1131`) |
| `TransportGhost` | `GhostGoes` | listing renews the heartbeat that keeps the marker of a dead remote pusher (`tools.ts:319`) |
| `RegistryReturn` | `InReach` | a swept inbox leaves its cursor file, and the id's new mail is out of reach (`tools.ts:1006`) |
| `RegistryOverwrite` | `RenameKeepsMail` | a rename overwrites mail waiting for the new id (`tools.ts:380`) |
| `RegistryStale` | `SparesRegistered` | a prune with an old registry deletes the inbox of an agent (`README.md:86`) |

What the newer modules found and excuse by a history variable, each a trace TLC gives when the
excuse is taken out of the property:

* `misread` (Channels): `readJson` turns an agents.json caught between truncation and write into `{}`; a
  doctor that reads it then takes every agent for unregistered, evicts all members and purges all
  inboxes. `late` is the same for one agent that registered during the run.
* `raced` (Channels): a read that measured a log before `delete_room` unlinked it commits its offset
  after the cursors were gone through.
* `outdated` (Identity): the other live sessions of a client whose entry in tokens.json a rename moves
  go on under the old id until they reconnect, and a server's map of before the rename binds new ones to it until a SIGHUP.
* `displaced` (Identity): a rename to an id that has a token in tokens.json and is not registered
  takes that token's place.
* `clash` and `lag` (Chat): a rewrite of the chat in the middle of a server's read, and a drain that
  saves the cursor it loaded before a command went by.
* `dropped` (Mailbox, LongPoll): the batch of a call whose stash failed after the cursor had moved, or
  that died or was abandoned then. `digested` (LongPoll): room messages older than the window, which the
  remote pusher never queues.
* `raced` (Stacks): two stacks that look at a pid file at a time both come up.
* `clash` (Stacks): a kick or uninvite during the start of a stack that another process invited finds
  nothing on disk, reports success, and the stack comes up; an exit that is heard late unlinks the
  marker of the next stack.

### Bounds

The bounds are constants named `Max...` and sizes of sets of calls. They are chosen by what an
error needs: two calls and a third message to see a second batch overlap the first; two sweeps for
a shift that meets another one; a failure *and* a restart for the pusher; a loop that is started,
cancelled and started again (three moves) for the refresh, with two messages in all and a window of
one for an overflow and for a message that follows an abandoned call's; two one-shots for their lock and a
crash with a retry for the daemon; a delete and a doctor that overlap with a call that is cut into
its awaits; two clients and a third name, so that one renames itself to the other's or to a free
one; two batches with one signature; two stacks, so that one meets the traces of the other, and
three commands, so that one falls between two of another supervisor. `Channels` and `Session`
have a state constraint besides (`FourInAll`, `ThreeInAll`): not every combination of rare events
is explored at once. Both were also checked without it, `Channels` with one move. Larger instances were run while the modules were written
(among them Wake with two deaths and two faults) with the
same result. What the instances leave out is covered by the theorems of section 4, which
hold for any number of processes, ids, messages, batches and commands: every safety property of a
run is one of them, and only the liveness properties rest on the instances alone.

`CHECK_DEADLOCK FALSE` is set everywhere because the bounds make the behaviours end, and because a
bus with nothing to send may rest.

Symmetry is used for calls, senders, ids, sessions and pids in runs with safety properties only.

### Fairness

Liveness is stated for `FairSpec`. `Pusher`: its interval and timers fire, a tmux command ends, a
sender's server runs on; nothing restarts a pusher and nothing must fail. `LongPoll`: an await is
answered, a wait has a deadline, the refresh is periodic; nothing forces a message to arrive.
`Wake`: a process that is up goes on with its event loop, a run of the agent ends (the SDK run has a
deadline of three minutes, and a one-shot is killed after as long); nobody restarts what died.
The flush of the listener is fair because its debounce (300 ms) is shorter than its poll (500 ms):
every scan that finds a batch restarts the debounce, so a `COORD_WAKE_DEBOUNCE_MS` of the poll's size
or more would put the flush off for ever, and that configuration is outside the model.
`Chat`: the drain's timer fires and gets the cursor's lock in the end, and a command runs to its end;
nothing makes a dead chat start again.
All are weak fairness of what a timer or the event loop does in the code.

## 4. What is proved

Checked by TLAPS for every value of the constants:

| Module | Theorem | Assumes | Says |
|---|---|---|---|
| `Cursors_proofs` | `TypeCorrect` | – | `Spec => []TypeOK` |
| | `NothingSkipped` | – | `Spec => []NoSkip`: with hooks, pushers, sinceTs, limits and crashes |
| | `CursorReachable` | – | `Spec => []CursorWithinLog` |
| | `LockedReadsExactlyOnce` | no hooks or pushers, no sinceTs | `Spec => []ExactlyOnce` |
| | `ReadsImplementDelivery` | the same | `Spec => RefinesDelivery` |
| | `RoomsLosslessAlways` | – | `Spec => []RoomsLossless`: with hooks, pushers, sinceTs, limits and crashes |
| | `SparedAlways` | – | `ChannelsSpec => []Spared` |
| | `NoOffsetOutlivesAlways` | – | `ChannelsSpec => []NoOffsetOutlives` |
| | `DoctorHealsAlways` | – | `ChannelsSpec => []DoctorHeals` |
| `Session_proofs` | `SessionMatchesFileAlways` | – | `Spec => []SessionMatchesFile` |
| | `NobodyShutOutAlways` | – | `Spec => []NobodyShutOut` |
| | `DigestOpensAlways` | – | `Spec => []DigestOpens` |
| `Stacks_proofs` | `OneStackAlways` | – | `Spec => []OneStack` |
| | `MarkedAlways` | – | `Spec => []Marked` |
| | `QuitLeavesNoneAlways` | – | `Spec => QuitLeavesNone` |
| `Agents_proofs` | `OnePusherAlways` | – | `Spec => []OnePusher` |
| | `FindableAlways` | – | `Spec => []Findable` |
| | `DetachSilencesAlways` | – | `Spec => DetachSilences` |
| | `MailKeptAlways` | – | `RegistrySpec => []MailKeptOnce` |
| | `ConsistentAlways` | – | `RegistrySpec => []Consistent` |
| `Logs_proofs` | `OneCallAlways` | – | `Spec => []OneCallEach` |
| | `InOrderAlways` | – | `Spec => []InOrder` |
| | `NothingLostAlways` | – | `Spec => []NothingLost` |
| | `ReadExactlyAlways` | – | `PruneSpec => []ReadExactly` |
| | `CursorStandsAlways` | – | `PruneSpec => []CursorStands` |
| `Pusher_proofs` | `ConfirmedAlways` | – | `Spec => []ConfirmedWasTyped` |
| | `ConservedAlways` | – | `Spec => []Conserved` |
| | `TypedInOrderAlways` | – | `Spec => []TypedInOrder` |
| | `ReminderAlways` | – | `Spec => []ReminderAfterClear` |
| `Chat_proofs` | `ConservedAlways` | – | `Spec => []Conserved` |
| | `NothingPassedAlways` | – | `Spec => []NothingPassedOver` |
| | `NothingUnseenAlways` | – | `Spec => []NothingUnseen` |
| `Wake_proofs` | `ClaimedInTimeAlways` | – | `Spec => []ClaimedInTime` |
| | `ClaimedIsRunAlways` | – | `Spec => []ClaimedIsRun` |
| | `BusyAlways` | – | `Spec => []BusyWhileRunning` |

The type invariants of `Mailbox` (`TypeCorrect`), of `Transport`, `LongPoll`, `Pusher`, `Chat` and
`Wake` (`TypeAlways`), and of `Registry` and `Channels` (`RegistryTypeAlways`, `ChannelsTypeAlways`) are theorems.
`Registry`, `Prune` and `Channels` share a module of proofs with another one and carry their name in `Init`,
`Next` and `Spec` for that.

Beside these there are only the assumptions the modules declare for their constants: bounds are
naturals, sets that stand for different things are disjoint, `None` is nobody, and in `Channels` no
agent has the name of a stage of a call. TLC evaluates them on every run. The bounds are in the specifications, but no argument depends on their size.

### Mailbox

None of the properties is inductive, because a process holds copies of the cursor that it may
write back later. `SkipInv` says that every copy that can still be written (the `base` of a call
that holds the lock, the `from` of a hook that drains) is as good as the file: all below it is
taken. `LenInv` says that every such copy, and every snapshot, fits in its log. `OnceInv` adds what
the lock gives: only the holder is between its read and its write, what it read is still what the
file says, and a torn file is its own or that of a dead process. The refinement uses
`OnceInv /\ LenInv`: a commit is a `Deliver` of the positions between the file and the snapshot,
a death in the truncated file is `Lose`, everything else stutters. `KeepInv` adds to `LenInv` that what was
taken is in the log (`ClaimedInLog`), so that a message's kind does not change under the claim of
`RoomsLossless`, and that what a pusher is about to queue it has pushed (`HandsPushed`), so that what its
filters leave out is settled as barred. The rest is who may touch what: a step of one call or of one hook leaves alone what
another has in hand (`CallStepKeeps`, `RunStepKeeps`), and a room's batch is the part it returns and the
part it stashes, with nothing between them (`RoomBatch`). Each step lemma has one step for
each action and one below it for each conjunct the action can disturb; the arithmetic of a batch is
in `BatchFact`.

Two assumptions are necessary and not technical: with a hook `ExactlyOnce` is false (a stale
rename repeats mail), and with sinceTs a count of filtered entries is added to the offset.

### Channels

The three properties build on each other's files but have an invariant each. `SpareInv` is about what the
doctor remembers: the registry it read at its start has everybody but those who came late (`Recalled`),
and a call that has seated its agent and has yet to reply (`Joining`) is treated as one that has replied,
so that the doctor never finds a member it may take away. `ReachInv` is about offsets: an agent has
offsets for its own logs only (`Owned`), a read that waits for the cursor's lock holds a count that still
fits (`Counted`, unless the log was deleted under it), and an offset that reaches past its log's end
belongs to somebody `delete_room` or the doctor has still on its list (`Reaching`, `Orphaned`). `HealInv`
assumes nothing about the state the doctor finds: while it is alone its copies are up to date (`Current`),
and each check, once passed, has mended its part (`Mended`), which the later checks do not undo. The
lines that parse are counted by `Whole`, a cardinality: a `SelectSeq` of the lines would be recursive.

### Session

`SessionMatchesFile` and `NobodyShutOut` speak of tokens.json, a session's binding and the registry, and
a rename changes them one after the other. `FileOK` says what holds of them at rest: a live session
that is not `outdated` is bound to the id that the file gives its token. `RenameOK` says it of a rename
under way, by how far it has come: up to `RotateWrites` the file still has the old id, after it the
new one, and `Moves` is exactly who differs in between. `DigestOpens` needs two things more.
`HistoryInv` is about the digests alone: whoever was told of a digest, or is about
to be, has one that stands, unless it expired or a signature clashed; it holds whatever names ask,
so the gate is not part of it. `Current` then says that, for a client whose entry no rename has
moved, the map in memory, the name of its live session and the owner of what it was handed all agree
with tokens.json, so that its next request asks under the name the digest was made in.

### Stacks

`OneStack` follows from `Exclusive`: unless two stacks looked at a pid file at a time, at most one is
past its first claim, and it owns what it wrote. It is inductive because a claim kills or defers to
whoever the file names, and a sweep empties the files only of the processes it kills.
`QuitLeavesNone` follows from `Held`: a living stack of a chat is the one in the map, and none is
alive in the part of a command that follows a stop. `Marked` follows from `Orderly`, which adds to
it what no `clash` gives: one supervisor at work, after a sweep no invited stack at all, in an
invitation only the new one. `Entering` and `Spawned` say that the map holds stacks that were
spawned. TLC checked `IInv` on the instance of the run before it was proved.

### Transport

`OnePusher` says nothing of the calls that hold a copy of the marker, so it is not inductive. `Tidy`
adds them, as long as nothing `foul` happened: one attach at most is at work; a local pusher that
serves is the marker's, or that of the attach which has yet to write it (`Marked`), and while an
attach is at work there is no other (`AttachAlone`); the marker is open and empty only under one
writer. `Started`, `SeenDown` and `Beats` hold even when it is foul: who was read was started once
and does not come back; who cleans up or unlinks a local marker has seen its pusher down; a remote
pusher that is up beats in every period, so that no list finds its marker stale. `DetachSilences` is
an action property and follows from `SeenDown` and `Marked` in the state before the unlink.

### Registry

`MailKeptOnce` needs to know where every message is. `RegistryInv` says it, unless two calls clashed on
a file: a message that was sent was read or deleted, or is at one place in one inbox (`AllPlaced`,
`OneMailPlace`), and exactly what is before an id's offset was read (`AtRest`). A rename moves registry,
members, inbox and cursor one after the other, and between the last two the mail of the new id goes by
the offset of the old one (`UnderWay`); two renames that are there are about different ids (`Apart`).
`Members` does the same for the rooms: a member that is not registered is about to be taken out by
a departure or a rename (`Accounted`), so that there is none when all calls have returned, which is
one half of `Consistent`; the other, one entry for each agent, is `Counted`.

The attempt to prove it showed an interference that the property had not named: with three ids, a
rename from a to b that has moved the inbox and not yet the cursor lets a rename from b to d take the
inbox on, and what a had read is delivered to d again. The module now records that clash (`HalfMoved`).
The run has two ids and could not meet it; an instance with three is too large for a run.

### LongPoll

`InOrder` needs to know where the cursor is. `Passed` says that what a call holds and what is queued the
cursor has passed, `Newer` that the call a loop waits for holds only what is newer than what the
loop has queued; abandoned calls are bound by the first alone. The cursor is on the server, so a
second call on a log starts behind what the first took. `NothingLost` has two parts. The accounting
holds whatever fails (`Accounted`): each message to be injected that the cursor has passed is queued, in
a call, digested or dropped, and what is digested is a room's and older than the window when it was read
(`Digests`), which it stays, since the cursor only grows. The second is conditional like the property:
while nothing failed and no room was left (`Calm`), nothing is dropped, and every call that is under way
has its loop (`Attended`). `Counted` links `moves` to the membership, so that "no room was left" stays false once
it is false.

The new messages of a read are a set of positions put in order by `Ordered`, a CHOOSE. That a
finite set of positions can be listed, so that the CHOOSE has something to choose, is proved by the
smallest bound for which it fails (`ListExists`, with `WFMin` of the library): the library's
induction theorems cannot be used.

### Prune

An offset counts the entries of a file that a sweep shortens, so the argument goes by the ids of the
entries, the places they had among all ever appended. While the log is in time order (`InTimeOrder`) a
sweep takes a beginning of it: the file is then the ids behind those removed (`Numbered`), and the
snapshot of a read was so (`SeenNumbered`). A sweep writes the file first and shifts the cursor later, and
several may be in between: each entry removed is due to be shifted by one of them at most (`Due`,
`Accounts`), whence the shifts made and those to come are no more than the removals. `CursorFits` then says
that the offset with the shifts made has passed all that was delivered, and nothing that was neither
delivered nor swept. That a sweep keeps the end of a log in time order (`KeepsEnd`) is proved of `Kept`, which
numbers the entries it keeps by counting them; a `SelectSeq` would have been recursive.

### Pusher

The pane, its draft, the batch and the pending list are one queue, and `Injected` says so: all in it
was taken from a log (`AllTaken`), batch and list are rising and the list is behind the batch
(`Ranked`), what is pasted is in the draft and then on a line until it is stamped (`Pasting`). Unless a
pusher stopped with messages in memory, nothing the cursor has passed is missing (`Kept`), and of each
log the pane with its draft holds a beginning (`InTurn`): from these follow `Conserved` and
`NoOvertaking`. `TypedAgainOnlyOnFailure` bounds a number, so its strengthening counts: `Counted` bounds
the places of a message in pane *and* draft by `1 + failures`, and by `failures` while the message waits to
be pasted again; each failure that queues a batch again raises the bound, each paste spends one.
`Commanded` follows a `send_command`: the command is in its log from `Issue` on, the reminder behind it
(`Reminding`), and on a line before any line with the reminder (`Anchored`). The last is true only of a
command by DM: for a room's `/clear` TLC shows the reminder, which goes to the inbox, drained and typed
before the command, since a drain takes the inbox first; the property says so.

### Chat

A rewrite of coord-chat holds what it read of the log for a while. `Overwritten` says that what is in the
log and not in its copy was posted meanwhile, and is the strengthening of `Conserved`. For the offsets,
`Keeps` tells by the command's step what they cover: before the write the copy, after it the log shifted by
what the command has yet to take off, after its shift the log. `PeerKept` and `MineKept` say it of the two
readers, each short of its own interference.

### Wake

`ClaimedInTime` needs what the hook has read and not told yet (`InTime`), `BusyWhileRunning` that the busy file
names the one who runs, whence nobody else does (`OneBusy`). `ClaimedIsRun` is the long one. A message is at
one place at a time: in the queue behind the daemon's offset, in the lines the daemon took, in its batch,
with a one-shot, or run (`OnePlace`); its number of runs is determined by the place (`RunsFit`), so that a
second batch with the same message, and with it a third run, cannot come about. That the listener does not
hand a message on a second time does not follow from the claims, which an older copy may wipe out: it follows
from its offsets. What was handed on stands before what the state file has saved, what is scanned or scanned
again after a death stands behind it (`Scanning`, `Behind`), and a message is in the log once. `AtWork`
says who has a batch at all. `Carried` is then the claim's own part.

### Not proved

Only model-checked are the liveness properties `WipedIsReanchored`, `Relayed` (of `Pusher` and of `Wake`),
`FollowsRooms` and `Shown`: fairness and ENABLED are beyond the prover. What a definition over a whole
sequence computes for every input would need induction over data, which it cannot do either; the lemmas
go round it by counting and by smallest bounds (`ListExists`, `KeepsEnd`).

## 5. Abstractions

* Messages are positions or ids; text, formatting, logging and wording are left out. Rooms beside
  the one or two of an instance behave alike; `#general`, which the remote pusher always tails, is in
  `LongPoll` a room that is not left.
* An allowlist and the slash guard of the pushers are one kind of message, `barred`. The window of a room
  read is a constant, 50 in the code.
* Files are written in one step, except where a reader can see the truncation (the cursor, the log
  under a sweep, the marker).
* `Mailbox` has no sweep, `Prune` no hook, `Pusher` no other consumer.
* `LongPoll` has one wait's read as one step: the races of the cursor file are `Mailbox`'s. Its instance
  sends no `barred` messages: they go the way of the agent's own mail in the inbox; the theorems have both.
* A rename is `Registry`'s, without the transport: that `rename_agent` moves the marker to the new id, or
  detaches a pusher that is up, is not modelled, and `Transport` has one id.
* In `Wake` a claim does not expire (24 hours), the busy flag does not either (10 minutes), the
  mention scan is a set of messages, and the cursor's read-modify-write is one step (its races are
  `Mailbox`'s subject). The claim file is read and written in one step each, so that an unlocked reader
  that finds it truncated and takes it for `{}` is left out. A busy file of a dead process counts as none, and is removed by the next
  check that goes on.
* `Channels` treats the truncation of agents.json as visible and of the other files as not; a topic and
  a MOTD have no content. The doctor's check of transport markers and what it only reports are left
  out.
* `Session` runs with tokens.json; that a session without it is bound by its first claim is in
  `Identity`, and no instance of the list reaches it.
* `Chat` has one channel and one other reader, and its logs have no malformed line.
* `Stacks` has one agent, so an `@all` command is its single case; SIGTERM kills at once; the read and
  unlink of a sweep (`coord-agent-spawn.mjs:125`) are one step, although another process may come in
  between: nothing is waited for there, but nothing is locked either; a pid is used once. Mail that
  arrives after a kick is `Registry`'s.
* The paste pipeline of the remote pusher mirrors the tmux pusher and is not repeated.
* Not modelled: receipts as a file, fan-out of `send_command` to several members, `force_unregister`, GM
  inventory, dice and clean-up scripts, the terminal and native user interfaces, transport set-up of
  the server. `PROJECT.json` lists each with the reason.

## 6. Plan

Done, in this order: `Mailbox` and its theorems, `Delivery`, `Prune`, `Pusher`, `LongPoll`,
`Transport`, `Registry`, `Wake`; then `Channels` with the doctor, `Identity`, `History` and their
composition `Session`, `Chat`, `Stacks`.

Next, by importance:

1. Receipts as a file: appended without a lock and rewritten by `prune` under one; composition of
   `Pusher` with `Prune`.
2. `Stacks` with `Transport`: the marker of an invited agent has no `agentId`, and `list_agents` does
   not count it.
3. `Prune` with `LongPoll`: a log that shrinks and grows back under a wait.
4. A room with several members in `Pusher`: the fan-out of `send_command`.

Abstract specifications worth stating: a registry of owners for `Registry` (an id owns one
mailbox), a lease for `Transport` (at most one server of a pane), at-most-once hand-over for
`Pusher` and `Wake`.

Theorem worth proving: `ControlAlone` of `Pusher` for a pane whose Enter never fails. The modules declare
no RECURSIVE operator, so that what is added to them can be proved about.
