------------------------------ MODULE LongPoll ------------------------------
(***************************************************************************)
(* The remote pusher of one agent (scripts/coord-pusher.mjs) and the       *)
(* wait_for_message calls it makes to the server (src/tools.ts).           *)
(*                                                                         *)
(* The pusher runs one loop per log: the inbox and each room the agent is  *)
(* in.  A loop calls wait_for_message and queues for the pane what it      *)
(* returns.  A periodic refresh asks the server for the agent's rooms,     *)
(* starts the loops that are missing and cancels those of rooms it left;   *)
(* a cancelled loop ends when its call does.                               *)
(*                                                                         *)
(* On the server a wait measures the log, waits until it is longer, and    *)
(* then reads what the cursor has not passed (readMessagesTool, which      *)
(* Mailbox has in detail and which is one step here): of a room the newest *)
(* Window messages only, the older ones go to a digest that the pusher     *)
(* does not look at.  When the connection fails the pusher stops waiting   *)
(* and calls again; the server goes on with the call that nobody waits     *)
(* for.                                                                    *)
(***************************************************************************)
EXTENDS Integers, Sequences, FiniteSets

CONSTANTS
  Inbox, Rooms,   \* the logs
  Calls,          \* wait_for_message calls the server has at once
  Traffic,        \* the kinds of messages that are sent
  Window,         \* how many messages a read of a room returns (50 in the code)
  MaxLog,         \* bound: messages, of all logs together
  MaxMoves,       \* bound: how often the agent joins or leaves a room
  MaxFaults,      \* bound: how often the connection or a stash fails
  None

Sources == {Inbox} \cup Rooms

\* "barred": from a sender outside the allowlist, or text that starts with a
\* slash.
Kinds == {"peer", "own", "barred"}

ASSUME TrafficAssumption == Traffic \subseteq Kinds
ASSUME WindowAssumption == Window \in Nat \ {0}
ASSUME BoundAssumption == {MaxLog, MaxMoves, MaxFaults} \subseteq Nat
ASSUME NobodyAssumption == None \notin Calls \cup Sources /\ Inbox \notin Rooms

VARIABLES
  log, cursor,    \* the logs and the agent's cursor
  member,         \* the rooms the agent is in
  loop,           \* loop[s]: off, on or cancelled
  awaits,         \* awaits[s]: the call the loop of s waits for, or None
  view,           \* the rooms a refresh got from the server, or None
  wait,           \* where a call is on the server: free, measure, wait, grown, reply
  source, size,   \* its log, and the length it measured
  batch,          \* what it returns
  pushed,         \* pushed[s]: what was queued for the pane, in order
  digested,       \* history: what a read has left to a digest
  dropped,        \* history: what was lost with an abandoned call or a failed read
  moves, faults   \* history: joins and leaves; failures

busVars == <<log, cursor, member>>
pusherVars == <<loop, awaits, view, pushed>>
callVars == <<wait, source, size, batch>>
historyVars == <<digested, dropped, moves, faults>>
vars == <<busVars, pusherVars, callVars, historyVars>>

Unread(s) == (cursor[s] + 1)..Len(log[s])

\* The unread messages of a room that are older than its window.
Overflow(s) == IF s = Inbox THEN {} ELSE (cursor[s] + 1)..(Len(log[s]) - Window)

\* What a read returns: own posts are left out of the rooms' messages.
Fresh(s) == {i \in Unread(s) \ Overflow(s) : s = Inbox \/ log[s][i] # "own"}

\* What shouldInject lets through to the pane.
Admitted(s, c) == {i \in batch[c] : log[s][i] = "peer"}

\* The positions in a set, oldest first.
Ordered(S) == CHOOSE q \in [1..Cardinality(S) -> S] :
                \A i, j \in 1..Cardinality(S) : i < j => q[i] < q[j]

Init ==
  /\ log = [s \in Sources |-> <<>>]
  /\ cursor = [s \in Sources |-> 0]
  /\ member = {}
  /\ loop = [s \in Sources |-> IF s = Inbox THEN "on" ELSE "off"]
  /\ awaits = [s \in Sources |-> None]
  /\ view = None
  /\ wait = [c \in Calls |-> "free"]
  /\ source = [c \in Calls |-> Inbox]
  /\ size = [c \in Calls |-> 0]
  /\ batch = [c \in Calls |-> {}]
  /\ pushed = [s \in Sources |-> <<>>]
  /\ digested = [s \in Sources |-> {}]
  /\ dropped = [s \in Sources |-> {}]
  /\ moves = 0
  /\ faults = 0

-----------------------------------------------------------------------------
(* The bus                                                                 *)

Posted == UNION {{s} \X DOMAIN log[s] : s \in Sources}

Post(s, kind) ==
  /\ Cardinality(Posted) < MaxLog
  /\ log' = [log EXCEPT ![s] = Append(@, kind)]
  /\ UNCHANGED <<cursor, member, pusherVars, callVars, historyVars>>

\* join_room or leave_room.
Move(s) ==
  /\ moves < MaxMoves
  /\ moves' = moves + 1
  /\ member' = IF s \in member THEN member \ {s} ELSE member \cup {s}
  /\ UNCHANGED <<log, cursor, pusherVars, callVars, digested, dropped, faults>>

-----------------------------------------------------------------------------
(* wait_for_message on the server                                          *)

\* Mutant of Measure: a log that is not there yet has a length of its own.
MeasureMissing(c) ==
  LET length == Len(log[source[c]]) IN
  /\ wait[c] = "measure"
  /\ size' = [size EXCEPT ![c] = IF length = 0 THEN -1 ELSE length]
  /\ wait' = [wait EXCEPT ![c] = "wait"]
  /\ UNCHANGED <<busVars, pusherVars, source, batch, historyVars>>

Measure(c) ==
  /\ wait[c] = "measure"
  /\ size' = [size EXCEPT ![c] = Len(log[source[c]])]
  /\ wait' = [wait EXCEPT ![c] = "wait"]
  /\ UNCHANGED <<busVars, pusherVars, source, batch, historyVars>>

\* The watcher or the poll finds the log longer than it was measured.
Notice(c) ==
  /\ wait[c] = "wait"
  /\ Len(log[source[c]]) > size[c]
  /\ wait' = [wait EXCEPT ![c] = "grown"]
  /\ UNCHANGED <<busVars, pusherVars, source, size, batch, historyVars>>

\* The deadline passes: nothing is read.
Expire(c) ==
  /\ wait[c] \in {"measure", "wait"}
  /\ wait' = [wait EXCEPT ![c] = "reply"]
  /\ UNCHANGED <<busVars, pusherVars, source, size, batch, historyVars>>

\* Mutants of Read: the cursor stays; the result is dropped for being late.
ReadAgain(c) ==
  /\ wait[c] = "grown"
  /\ batch' = [batch EXCEPT ![c] = Fresh(source[c])]
  /\ wait' = [wait EXCEPT ![c] = IF Fresh(source[c]) = {} THEN "measure" ELSE "reply"]
  /\ UNCHANGED <<busVars, pusherVars, source, size, historyVars>>
ReadTooLate(c) ==
  /\ wait[c] = "grown"
  /\ cursor' = [cursor EXCEPT ![source[c]] = Len(log[source[c]])]
  /\ wait' = [wait EXCEPT ![c] = "reply"]
  /\ UNCHANGED <<log, member, pusherVars, source, size, batch, historyVars>>

\* The cursor moves past all that is unread.
TakeUnread(s) ==
  cursor' = [cursor EXCEPT ![s] = IF @ < Len(log[s]) THEN Len(log[s]) ELSE @]

\* The unread messages are taken, a room's overflow goes to its digest; when
\* the window holds own posts only, the wait goes on without a reply.
Read(c) ==
  LET s == source[c] IN
  /\ wait[c] = "grown"
  /\ TakeUnread(s)
  /\ batch' = [batch EXCEPT ![c] = Fresh(s)]
  /\ digested' = [digested EXCEPT ![s] = @ \cup Overflow(s)]
  /\ wait' = [wait EXCEPT ![c] = IF Fresh(s) = {} THEN "measure" ELSE "reply"]
  /\ UNCHANGED <<log, member, pusherVars, source, size, dropped, moves, faults>>

\* The cursor's lock is not to be had: the call ends with an error, which the
\* loop takes for a result without messages.
ReadFails(c) ==
  /\ wait[c] = "grown"
  /\ wait' = [wait EXCEPT ![c] = "reply"]
  /\ UNCHANGED <<busVars, pusherVars, source, size, batch, historyVars>>

\* The overflow cannot be stashed: the same error, but the cursor has moved.
StashThrows(c) ==
  LET s == source[c] IN
  /\ wait[c] = "grown"
  /\ Overflow(s) # {}
  /\ faults < MaxFaults
  /\ faults' = faults + 1
  /\ TakeUnread(s)
  /\ dropped' = [dropped EXCEPT ![s] = @ \cup Unread(s)]
  /\ wait' = [wait EXCEPT ![c] = "reply"]
  /\ UNCHANGED <<log, member, pusherVars, source, size, batch, digested, moves>>

Freed(c) ==
  /\ wait' = [wait EXCEPT ![c] = "free"]
  /\ source' = [source EXCEPT ![c] = Inbox]
  /\ size' = [size EXCEPT ![c] = 0]
  /\ batch' = [batch EXCEPT ![c] = {}]

\* The reply to a call nobody waits for goes nowhere.
ReplyToNobody(c) ==
  /\ wait[c] = "reply"
  /\ \A s \in Sources : awaits[s] # c
  /\ dropped' = [dropped EXCEPT ![source[c]] = @ \cup batch[c]]
  /\ Freed(c)
  /\ UNCHANGED <<busVars, pusherVars, digested, moves, faults>>

-----------------------------------------------------------------------------
(* The pusher's loops                                                      *)

CallWait(s, c) ==
  /\ loop[s] = "on"
  /\ awaits[s] = None
  /\ wait[c] = "free"
  /\ awaits' = [awaits EXCEPT ![s] = c]
  /\ wait' = [wait EXCEPT ![c] = "measure"]
  /\ source' = [source EXCEPT ![c] = s]
  /\ UNCHANGED <<busVars, loop, view, pushed, size, batch, historyVars>>

\* What may be injected of the result is queued for the pane, unless the loop
\* was cancelled meanwhile.
Receive(s) ==
  LET c == awaits[s] IN
  /\ c # None
  /\ wait[c] = "reply"
  /\ awaits' = [awaits EXCEPT ![s] = None]
  /\ IF loop[s] = "cancelled"
     THEN /\ loop' = [loop EXCEPT ![s] = "off"]
          /\ dropped' = [dropped EXCEPT ![s] = @ \cup batch[c]]
          /\ UNCHANGED pushed
     ELSE /\ pushed' = [pushed EXCEPT ![s] = @ \o Ordered(Admitted(s, c))]
          /\ UNCHANGED <<loop, dropped>>
  /\ Freed(c)
  /\ UNCHANGED <<busVars, view, digested, moves, faults>>

\* The call fails on the client's side; the loop backs off and tries again.
CallFails(s) ==
  /\ awaits[s] # None
  /\ faults < MaxFaults
  /\ faults' = faults + 1
  /\ awaits' = [awaits EXCEPT ![s] = None]
  /\ UNCHANGED <<busVars, loop, view, pushed, callVars, digested, dropped, moves>>

\* Mutant of LoopEnds: a loop cancelled while it backed off stays registered.
LoopLingers(s) == loop[s] = "cancelled" /\ awaits[s] = None /\ UNCHANGED vars

\* A loop that was cancelled while it backed off ends at its next turn.
LoopEnds(s) ==
  /\ loop[s] = "cancelled"
  /\ awaits[s] = None
  /\ loop' = [loop EXCEPT ![s] = "off"]
  /\ UNCHANGED <<busVars, awaits, view, pushed, callVars, historyVars>>

\* refreshSubscriptions asks for the rooms ...
AskRooms ==
  /\ view = None
  /\ view' = member
  /\ UNCHANGED <<busVars, loop, awaits, pushed, callVars, historyVars>>

RefreshTo(s, left) ==
  IF s \in view /\ loop[s] = "off" THEN "on"
  ELSE IF s \in Rooms \ view /\ loop[s] = "on" THEN left
  ELSE loop[s]

\* Mutants of Refresh: a loop is unregistered at once; it is not cancelled.
RefreshForgets ==
  /\ view # None
  /\ loop' = [s \in Sources |-> RefreshTo(s, "off")]
  /\ view' = None
  /\ UNCHANGED <<busVars, awaits, pushed, callVars, historyVars>>
RefreshOnlyStarts ==
  /\ view # None
  /\ loop' = [s \in Sources |-> RefreshTo(s, "on")]
  /\ view' = None
  /\ UNCHANGED <<busVars, awaits, pushed, callVars, historyVars>>

\* ... starts a loop where there is none, and cancels those of other rooms.
Refresh ==
  /\ view # None
  /\ loop' = [s \in Sources |-> RefreshTo(s, "cancelled")]
  /\ view' = None
  /\ UNCHANGED <<busVars, awaits, pushed, callVars, historyVars>>

-----------------------------------------------------------------------------
Serve(c) ==
  \/ Measure(c) \/ Notice(c) \/ Expire(c)
  \/ Read(c) \/ ReadFails(c) \/ StashThrows(c) \/ ReplyToNobody(c)

Loop(s) ==
  \/ \E c \in Calls : CallWait(s, c)
  \/ Receive(s) \/ CallFails(s) \/ LoopEnds(s)

Next ==
  \/ \E s \in Sources, kind \in Traffic : Post(s, kind)
  \/ \E s \in Rooms : Move(s)
  \/ \E c \in Calls : Serve(c)
  \/ \E s \in Sources : Loop(s)
  \/ AskRooms \/ Refresh

Spec == Init /\ [][Next]_vars

\* Every await of the server and of the pusher is answered, every wait has a
\* deadline, and the refresh is periodic.
Fairness ==
  /\ WF_vars(AskRooms) /\ WF_vars(Refresh)
  /\ \A c \in Calls : /\ WF_vars(Measure(c)) /\ WF_vars(Notice(c) \/ Expire(c))
                      /\ WF_vars(Read(c)) /\ WF_vars(ReplyToNobody(c))
  /\ \A s \in Sources : /\ WF_vars(\E c \in Calls : CallWait(s, c))
                        /\ WF_vars(Receive(s)) /\ WF_vars(LoopEnds(s))

FairSpec == Spec /\ Fairness

-----------------------------------------------------------------------------
(* Properties                                                              *)

\* The types of the logs, the loops and the calls.
TypeOK ==
  /\ log \in [Sources -> Seq(Kinds)]
  /\ cursor \in [Sources -> Nat]
  /\ member \subseteq Rooms
  /\ loop \in [Sources -> {"off", "on", "cancelled"}]
  /\ awaits \in [Sources -> Calls \cup {None}]
  /\ view = None \/ view \subseteq Rooms
  /\ wait \in [Calls -> {"free", "measure", "wait", "grown", "reply"}]
  /\ source \in [Calls -> Sources]
  /\ size \in [Calls -> Nat]
  /\ batch \in [Calls -> SUBSET Nat]
  /\ pushed \in [Sources -> Seq(Nat)]
  /\ digested \in [Sources -> SUBSET Nat]
  /\ dropped \in [Sources -> SUBSET Nat]
  /\ moves \in 0..MaxMoves /\ faults \in 0..MaxFaults

PushedSet(s) == {pushed[s][i] : i \in DOMAIN pushed[s]}

\* However many calls the server serves for one loop, some of them abandoned,
\* a log's messages are queued for the pane in log order and only once.
InOrder ==
  \A s \in Sources : \A i, j \in DOMAIN pushed[s] : i < j => pushed[s][i] < pushed[s][j]

\* The loops never share a call, and a log never has two loops: the call a
\* loop waits for is about its log.
OneCallEach ==
  \A s \in Sources : awaits[s] # None =>
    /\ wait[awaits[s]] # "free" /\ source[awaits[s]] = s
    /\ loop[s] # "off"

\* The cursor moves on the server before the pusher has the messages, and past
\* messages it never gets.  Whatever fails: a message the pane should see that
\* the cursor has passed is queued, or a call has it, or it was in a digest of
\* messages older than the newest Window, or was lost with a call or a read.
\* Nothing is lost as long as no connection and no stash fails and the agent
\* leaves no room: each call is then one that a loop waits for.
NothingLost ==
  /\ \A s \in Sources : \A i \in 1..cursor[s] : log[s][i] = "peer" =>
       \/ i \in PushedSet(s) \cup digested[s] \cup dropped[s]
       \/ \E c \in Calls : source[c] = s /\ i \in batch[c]
  /\ \A s \in Sources : \A i \in digested[s] : s # Inbox /\ i + Window <= cursor[s]
  /\ faults = 0 /\ moves <= Cardinality(member) =>
       /\ \A s \in Sources : dropped[s] = {}
       /\ \A c \in Calls : wait[c] # "free" => awaits[source[c]] = c

\* A room the agent stays in is waited on again and again, whatever loops
\* were started, cancelled and abandoned before.
JoinedIsTailed ==
  \A s \in Rooms :
    <>[](s \in member) => []<>(loop[s] = "on" /\ awaits[s] # None)

\* scripts/coord-pusher.mjs:224: channels the agent left "stop tailing on
\* their own": their loops end and stay away.
LeftIsSilent == \A s \in Rooms : <>[](s \notin member) => <>[](loop[s] = "off")

\* However the rooms the agent is in change, the loops follow in the end.
FollowsRooms == JoinedIsTailed /\ LeftIsSilent

\* scripts/coord-pusher.mjs:275: a join "shows up on the next refresh".
RefreshTails ==
  [][view # None /\ view' = None => \A s \in view : loop'[s] = "on"]_vars

\* README.md:380: the remote pusher "consumes the bus over MCP and pastes
\* incoming peer messages" into the pane: a message to the inbox, which is
\* always waited on, is queued for the pane in the end.
Noticed ==
  \A i \in 1..MaxLog : i <= Len(log[Inbox]) ~> i \in PushedSet(Inbox)
=============================================================================
