------------------------------- MODULE Pusher -------------------------------
(***************************************************************************)
(* The tmux pusher of one agent (hooks/tmux-pusher.mjs) and the            *)
(* send_command calls that go through it (sendCommandTool in               *)
(* src/tools.ts).                                                          *)
(*                                                                         *)
(* The pusher drains the agent's inbox and its room into a list it keeps   *)
(* in memory, moves the cursor past them at once, and types the list into  *)
(* the agent's pane when a debounce timer fires: peers' messages in one    *)
(* paste, each control command alone.  A receipt is stamped for a message  *)
(* only after its paste and Enter went through.  When tmux fails, the      *)
(* whole batch is queued again.                                            *)
(*                                                                         *)
(* send_command checks that the pusher is alive, appends a control         *)
(* command, waits for its receipt until a deadline, and after a /clear     *)
(* sends a reminder to the agent's inbox.                                  *)
(*                                                                         *)
(* A message is named by its log and its position in it.  The pusher is    *)
(* the only consumer here; Mailbox has the others.                         *)
(***************************************************************************)
EXTENDS Integers, Sequences, FiniteSets, SequencesExt

CONSTANTS
  Calls,          \* send_command calls, one command each
  Traffic,        \* the kinds of messages peers send
  Commands,       \* the control commands sent
  Targets,        \* the logs they are sent to
  IncludeRoom,    \* AGENT_COORD_INCLUDE_ROOM
  MaxLog,         \* bound: no peer's message makes a log longer than this
  MaxFailures,    \* bound: how often tmux fails
  MaxStops,       \* bound: how often the pusher stops
  Grace,          \* AGENT_COORD_TARGET_GRACE
  NoCall

Inbox == "inbox"
Room == "room"
Logs == {Inbox, Room}
Control == {"clear", "compact"}

ASSUME TrafficAssumption == Traffic \subseteq {"peer", "slash"}
ASSUME CommandAssumption == Commands \subseteq Control
ASSUME TargetAssumption == Targets \subseteq Logs
ASSUME RoomAssumption == IncludeRoom \in BOOLEAN
ASSUME BoundAssumption == MaxLog \in Nat /\ MaxFailures \in Nat /\ MaxStops \in Nat
ASSUME GraceAssumption == Grace \in Nat \ {0}
ASSUME NobodyAssumption == NoCall \notin Calls

VARIABLES
  log,            \* the agent's inbox and its room
  offset,         \* the agent's cursor file
  up,             \* the pusher process runs (its marker's pid is alive)
  misses,         \* pane probes missed in a row
  pending,        \* drained and not yet typed
  timer,          \* the debounce timer is set
  phase,          \* of the injection: idle, load, pasted or entered
  batch,          \* the messages being injected
  at,             \* the first of them not yet typed
  draft,          \* pasted into the pane's input line and not submitted
  lines,          \* submitted in the pane, line by line
  receipts,       \* the messages receipts were stamped for
  call,           \* where a send_command call is
  command,        \* its command, and the message that carries it
  issued,
  failures,       \* history: how often tmux failed
  stops,          \* history: how often the pusher stopped
  lost            \* history: a pusher stopped with messages it had drained

mailVars == <<log, offset>>
memoryVars == <<misses, pending, timer, phase, batch, at>>
paneVars == <<draft, lines>>
callVars == <<call, command, issued>>
historyVars == <<failures, stops, lost>>
vars == <<mailVars, up, memoryVars, paneVars, receipts, callVars, historyVars>>

Kind(m) == log[m[1]][m[2]].kind
Messages == UNION {{s} \X DOMAIN log[s] : s \in Logs}

\* The reminder of a send_command call, once it is in the inbox.
Reminders(c) == {m \in Messages : log[m[1]][m[2]] = [kind |-> "peer", call |-> c]}

-----------------------------------------------------------------------------
(* What is drained, and how a batch is cut into pastes                     *)

\* Text that looks like a slash command is not typed, a control command is.
ShouldInject(m) == Kind(m) # "slash"

\* The positions in a set, oldest first.
Ordered(S) == CHOOSE q \in [1..Cardinality(S) -> S] :
                \A i, j \in 1..Cardinality(S) : i < j => q[i] < q[j]

\* all.slice(off), less what is not injected.
Unread(s) == {i \in (offset[s] + 1)..Len(log[s]) : ShouldInject(<<s, i>>)}
Fresh(s) == [k \in 1..Cardinality(Unread(s)) |-> <<s, Ordered(Unread(s))[k]>>]

Followed == IF IncludeRoom THEN Logs ELSE {Inbox}

\* The inbox is drained before the room.
Drained == Fresh(Inbox) \o (IF IncludeRoom THEN Fresh(Room) ELSE <<>>)

\* One paste: a control command alone, or a run of other messages.
RunEnd(commands, first, last) ==
  IF first \in commands THEN first
  ELSE CHOOSE e \in first..last :
         /\ \A i \in first..e : i \notin commands
         /\ e = last \/ e + 1 \in commands
ControlAt == {i \in DOMAIN batch : Kind(batch[i]) \in Control}
PasteEnd == RunEnd(ControlAt, at, Len(batch))
Paste == SubSeq(batch, at, PasteEnd)

-----------------------------------------------------------------------------
Init ==
  /\ log = [s \in Logs |-> <<>>]
  /\ offset = [s \in Logs |-> 0]
  /\ up = FALSE
  /\ misses = 0
  /\ pending = <<>>
  /\ timer = FALSE
  /\ phase = "idle"
  /\ batch = <<>>
  /\ at = 1
  /\ draft = <<>>
  /\ lines = <<>>
  /\ receipts = {}
  /\ call = [c \in Calls |-> "idle"]
  /\ command = [c \in Calls |-> "clear"]
  /\ issued = [c \in Calls |-> <<Inbox, 0>>]
  /\ failures = 0
  /\ stops = 0
  /\ lost = FALSE

\* appendJsonl: one line at the end of a log.
Deposit(s, kind, c) ==
  log' = [log EXCEPT ![s] = Append(@, [kind |-> kind, call |-> c])]

\* A peer's message reaches a log.
Send(s, kind) ==
  /\ Len(log[s]) < MaxLog
  /\ Deposit(s, kind, NoCall)
  /\ UNCHANGED <<offset, up, memoryVars, paneVars, receipts, callVars, historyVars>>

-----------------------------------------------------------------------------
(* The pusher                                                              *)

Drain ==
  /\ pending' = pending \o Drained
  /\ offset' = [s \in Logs |-> IF s \in Followed THEN Len(log[s]) ELSE offset[s]]
  /\ timer' = (timer \/ pending \o Drained # <<>>)

\* The process starts, publishes its marker, and drains what accumulated.
Start ==
  /\ ~up
  /\ up' = TRUE
  /\ Drain
  /\ UNCHANGED <<log, misses, phase, batch, at, paneVars, receipts, callVars, historyVars>>

\* A poll or a file watcher fires.
CheckOnce ==
  /\ up
  /\ Drain
  /\ UNCHANGED <<log, up, misses, phase, batch, at, paneVars, receipts, callVars, historyVars>>

\* Mutant of Flush: the batch is a view of the queue, which is not emptied.
FlushAliased ==
  /\ up /\ timer /\ phase = "idle"
  /\ timer' = FALSE
  /\ batch' = pending
  /\ at' = 1
  /\ phase' = "load"
  /\ UNCHANGED <<mailVars, up, misses, pending, paneVars, receipts, callVars, historyVars>>

\* The timer fires.  During an injection it is only set again.
Flush ==
  /\ up /\ timer /\ phase = "idle"
  /\ timer' = FALSE
  /\ batch' = pending
  /\ pending' = <<>>
  /\ at' = 1
  /\ phase' = "load"
  /\ UNCHANGED <<mailVars, up, misses, paneVars, receipts, callVars, historyVars>>

\* tmux load-buffer exits and paste-buffer follows it in the same handler ...
LoadAndPaste ==
  /\ up /\ phase = "load"
  /\ draft' = draft \o Paste
  /\ phase' = "pasted"
  /\ UNCHANGED <<mailVars, up, misses, pending, timer, batch, at, lines, receipts,
                 callVars, historyVars>>

\* ... 100 ms later the line is submitted ...
Enter ==
  /\ up /\ phase = "pasted"
  /\ lines' = Append(lines, draft)
  /\ draft' = <<>>
  /\ phase' = "entered"
  /\ UNCHANGED <<mailVars, up, misses, pending, timer, batch, at, receipts,
                 callVars, historyVars>>

NextPaste ==
  IF PasteEnd = Len(batch)
  THEN phase' = "idle" /\ batch' = <<>> /\ at' = 1
  ELSE phase' = "load" /\ batch' = batch /\ at' = PasteEnd + 1

\* Mutant of Stamp: the receipts do not wait for the Enter.
StampAfterPaste ==
  /\ up /\ phase \in {"pasted", "entered"}
  /\ receipts' = receipts \cup ToSet(Paste)
  /\ NextPaste
  /\ UNCHANGED <<mailVars, up, misses, pending, timer, paneVars, callVars, historyVars>>

\* ... and 50 ms after that the receipts are stamped.
Stamp ==
  /\ up /\ phase = "entered"
  /\ receipts' = receipts \cup ToSet(Paste)
  /\ NextPaste
  /\ UNCHANGED <<mailVars, up, misses, pending, timer, paneVars, callVars, historyVars>>

\* load-buffer, paste-buffer or the first Enter fails; a draft stays in the pane.
FailsWith(queue, next) ==
  /\ up /\ phase \in {"load", "pasted"}
  /\ failures < MaxFailures
  /\ failures' = failures + 1
  /\ pending' = queue
  /\ timer' = TRUE
  /\ phase' = next
  /\ batch' = <<>>
  /\ at' = 1
  /\ UNCHANGED <<mailVars, up, misses, paneVars, receipts, callVars, stops, lost>>

\* Mutants of InjectFails: the batch is dropped; it is queued last; the flag
\* that an injection runs is not reset.
InjectFailsDropping == FailsWith(pending, "idle")
InjectFailsQueuedLast == FailsWith(pending \o batch, "idle")
InjectFailsStuck == FailsWith(batch \o pending, "stuck")

\* The whole batch is queued again, whatever of it was typed.
InjectFails == FailsWith(batch \o pending, "idle")

\* The process ends, and its memory with it.
Ends ==
  /\ up' = FALSE
  /\ misses' = 0
  /\ pending' = <<>>
  /\ timer' = FALSE
  /\ phase' = "idle"
  /\ batch' = <<>>
  /\ at' = 1
  /\ stops' = stops + 1
  /\ lost' = (lost \/ pending # <<>> \/ batch # <<>>)
  /\ UNCHANGED <<mailVars, paneVars, receipts, callVars>>

\* It is killed: by detach_agent, or any other way.
Stop == up /\ stops < MaxStops /\ Ends /\ UNCHANGED failures

ProbeOk ==
  /\ up
  /\ misses' = 0
  /\ UNCHANGED <<mailVars, up, pending, timer, phase, batch, at, paneVars, receipts,
                 callVars, historyVars>>

\* The pane does not answer; after Grace misses in a row the pusher exits.
ProbeMisses ==
  /\ up
  /\ failures < MaxFailures
  /\ failures' = failures + 1
  /\ IF misses + 1 >= Grace THEN Ends
     ELSE /\ misses' = misses + 1
          /\ UNCHANGED <<mailVars, up, pending, timer, phase, batch, at, paneVars,
                         receipts, callVars, stops, lost>>

-----------------------------------------------------------------------------
(* send_command                                                            *)

\* Hard-gated: refuses unless the target has a live tmux transport.
Gate(c, cmd, s) ==
  /\ call[c] = "idle"
  /\ call' = [call EXCEPT ![c] = IF up THEN "allowed" ELSE "refused"]
  /\ command' = [command EXCEPT ![c] = cmd]
  /\ issued' = [issued EXCEPT ![c] = <<s, 0>>]
  /\ UNCHANGED <<mailVars, up, memoryVars, paneVars, receipts, historyVars>>

\* The command is appended; the call waits for the receipt unless told not to.
Issue(c, wait) ==
  LET s == issued[c][1] IN
  /\ call[c] = "allowed"
  /\ Deposit(s, command[c], c)
  /\ issued' = [issued EXCEPT ![c] = <<s, Len(log[s]) + 1>>]
  /\ call' = [call EXCEPT ![c] = IF wait THEN "waiting" ELSE "sent"]
  /\ UNCHANGED <<offset, up, memoryVars, paneVars, receipts, command, historyVars>>

Confirm(c) ==
  /\ call[c] = "waiting"
  /\ issued[c] \in receipts
  /\ call' = [call EXCEPT ![c] = "confirmed"]
  /\ UNCHANGED <<mailVars, up, memoryVars, paneVars, receipts, command, issued, historyVars>>

\* The deadline passes; the receipts were read once more before it is looked at.
TimeOut(c) ==
  /\ call[c] = "waiting"
  /\ issued[c] \notin receipts
  /\ call' = [call EXCEPT ![c] = "pending"]
  /\ UNCHANGED <<mailVars, up, memoryVars, paneVars, receipts, command, issued, historyVars>>

RemindWhen(c, states) ==
  /\ call[c] \in states
  /\ command[c] = "clear"
  /\ Reminders(c) = {}
  /\ Deposit(Inbox, "peer", c)
  /\ UNCHANGED <<offset, up, memoryVars, paneVars, receipts, callVars, historyVars>>

\* Mutants of Remind: scheduled before the command is sent; only when confirmed.
RemindEarly(c) == RemindWhen(c, {"allowed", "waiting", "sent", "confirmed", "pending"})
RemindConfirmed(c) == RemindWhen(c, {"confirmed"})

\* The timer of a /clear's reminder fires in the sender's server.
Remind(c) == RemindWhen(c, {"sent", "confirmed", "pending"})

-----------------------------------------------------------------------------
Type == CheckOnce \/ Flush \/ LoadAndPaste \/ Enter \/ Stamp
Fail == InjectFails \/ ProbeMisses \/ Stop
Command(c) ==
  \/ \E cmd \in Commands, s \in Targets : Gate(c, cmd, s)
  \/ \E wait \in BOOLEAN : Issue(c, wait)
  \/ Confirm(c) \/ TimeOut(c) \/ Remind(c)

Next ==
  \/ \E s \in Logs, kind \in Traffic : Send(s, kind)
  \/ Start \/ Type \/ ProbeOk \/ Fail
  \/ \E c \in Calls : Command(c)

Spec == Init /\ [][Next]_vars

\* Timers and intervals fire, tmux ends each command it is given, and the
\* server of a sender runs.  Nothing restarts a pusher, nothing must fail.
Fairness ==
  /\ WF_vars(CheckOnce) /\ WF_vars(Flush)
  /\ WF_vars(LoadAndPaste) /\ WF_vars(Enter) /\ WF_vars(Stamp)
  /\ \A c \in Calls : /\ WF_vars(\E wait \in BOOLEAN : Issue(c, wait))
                      /\ WF_vars(Confirm(c) \/ TimeOut(c))
                      /\ WF_vars(Remind(c))

FairSpec == Spec /\ Fairness

-----------------------------------------------------------------------------
(* Properties                                                              *)

CallStates == {"idle", "refused", "allowed", "waiting", "sent", "confirmed", "pending"}
Entries == [kind : {"peer", "slash"} \cup Control, call : Calls \cup {NoCall}]
Names == Logs \X Nat

\* The types of the logs, the pusher's memory, the pane and the calls.
TypeOK ==
  /\ log \in [Logs -> Seq(Entries)]
  /\ offset \in [Logs -> Nat]
  /\ up \in BOOLEAN /\ timer \in BOOLEAN /\ lost \in BOOLEAN
  /\ misses \in 0..(Grace - 1)
  /\ pending \in Seq(Names) /\ batch \in Seq(Names) /\ draft \in Seq(Names)
  /\ lines \in Seq(Seq(Names))
  /\ phase \in {"idle", "load", "pasted", "entered"}
  /\ at \in IF phase = "idle" THEN {1} ELSE DOMAIN batch
  /\ receipts \subseteq Names
  /\ call \in [Calls -> CallStates]
  /\ command \in [Calls -> Control]
  /\ issued \in [Calls -> Names]
  /\ failures \in 0..MaxFailures /\ stops \in Nat

OnLine(m, n) == m \in ToSet(lines[n])
Typed == {m \in Messages : \E n \in DOMAIN lines : OnLine(m, n)}

\* How often a message stands in the pane.
Times(m) == Cardinality(UNION {{n} \X {i \in DOMAIN lines[n] : lines[n][i] = m} :
                                 n \in DOMAIN lines})

\* A send_command that reports "confirmed" was typed into the pane and
\* submitted, whatever failed, was queued again, or stopped in between.
ConfirmedWasTyped == \A c \in Calls : call[c] = "confirmed" => issued[c] \in Typed

\* The cursor moves before anything is typed, so the pusher's memory is all
\* there is between the two: unless a pusher stops, every message the cursor
\* has passed is typed, or in the rest of the batch, or queued.
Conserved ==
  ~lost =>
    \A m \in Messages : m[2] <= offset[m[1]] /\ ShouldInject(m) =>
      m \in Typed \cup ToSet(SubSeq(batch, at, Len(batch))) \cup ToSet(pending)

\* Failed batches go back before what was drained meanwhile, so no message of
\* a log is typed while an older one of that log was not.
NoOvertaking ==
  ~lost =>
    \A m, n \in Messages :
      m[1] = n[1] /\ m[2] < n[2] /\ ShouldInject(m) /\ n \in Typed => m \in Typed

\* A message is typed once, and once more for each failure of tmux at most,
\* over any number of restarts of the pusher.
TypedAgainOnlyOnFailure == \A m \in Messages : Times(m) <= 1 + failures

\* A log's messages are typed in its order, and again only when tmux failed.
TypedInOrder == NoOvertaking /\ TypedAgainOnlyOnFailure

\* src/tools.ts:437: the reminder re-anchors "a freshly-wiped worker": by the
\* time it is typed, the /clear it follows up has been, if that went to the
\* inbox too (a drain takes the room's command after the inbox's reminder).
ReminderAfterClear ==
  ~lost =>
    \A c \in Calls : \A m \in Reminders(c) : issued[c][1] = Inbox /\ m \in Typed =>
      \E n \in DOMAIN lines : OnLine(issued[c], n) /\ \A k \in 1..n : ~OnLine(m, k)

\* hooks/tmux-pusher.mjs:241: each control command "is injected on its own as
\* a RAW line so the TUI runs it as a slash command".
ControlAlone ==
  \A n \in DOMAIN lines :
    (\E m \in ToSet(lines[n]) : Kind(m) \in Control) => Len(lines[n]) = 1

\* Every message that reaches a log the pusher follows is typed in the end,
\* unless the pusher stops.
Relayed ==
  \A s \in Followed, i \in 1..(MaxLog + 2) :
    <<s, i>> \in Messages /\ ShouldInject(<<s, i>>)
      ~> <<s, i>> \in Typed \/ ~up \/ lost

\* After the last time the /clear of call c was typed, its reminder was.
Reanchored(c) ==
  \E m \in Reminders(c) : \E n \in DOMAIN lines :
    OnLine(m, n) /\ \A k \in n..Len(lines) : ~OnLine(issued[c], k)

\* An agent wiped by a /clear is told who it is in the end, also when the
\* /clear was typed only after the call had given up waiting for it.
WipedIsReanchored ==
  \A c \in Calls :
    /\ command[c] = "clear"
    /\ issued[c][1] = Inbox /\ issued[c] \in Typed
      ~> Reanchored(c) \/ ~up \/ lost
=============================================================================
