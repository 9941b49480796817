------------------------------- MODULE Stacks -------------------------------
(***************************************************************************)
(* The hook stack of one invited agent: the process that listens for its   *)
(* mail and wakes its model, and who starts and stops it                   *)
(* (scripts/coord-agent-spawn.mjs, .cursor/hooks/coord-pid-lib.mjs).       *)
(*                                                                         *)
(* coord-chat keeps the stacks it spawned in a map and hears when they     *)
(* exit; the admin CLI starts with an empty map every time and hears       *)
(* nothing.  What they share is on disk: two pid files and a manifest      *)
(* the stack writes, and the transport marker the supervisor writes.  A    *)
(* sweep kills the processes those files name.  A stack that finds a       *)
(* living one in a pid file kills it, or steps aside if nobody invited it. *)
(*                                                                         *)
(* A step is what a process does between two waits: an await, or the       *)
(* 300 ms a sweep spins for its victims to die.  A claim waits between     *)
(* the look at the pid file and the write.  SIGTERM kills at once and      *)
(* runs no exit handler.                                                   *)
(***************************************************************************)
EXTENDS Integers, FiniteSets

CONSTANTS
  Pids,           \* pids of stacks that are invited; each is used once
  Tasks,          \* pids of stacks an editor task starts
  Chats, Admins,  \* coord-chat processes; slots for runs of the admin CLI
  Faults,         \* whether stacks and chats crash and locks are not got
  MaxCommands,    \* bound: commands ever given
  None

Stacks == Pids \cup Tasks
Supervisors == Chats \cup Admins
Files == {"daemon", "listener"}

ASSUME CommandAssumption == MaxCommands \in Nat
ASSUME FaultAssumption == Faults \in BOOLEAN
ASSUME StackAssumption == Pids \cap Tasks = {} /\ None \notin Stacks
ASSUME SupervisorAssumption == Chats \cap Admins = {} /\ None \notin Supervisors

VARIABLES
  proc,           \* where a stack is in its life
  parent,         \* the supervisor that spawned it, or None
  pidfile,        \* coord-wake-daemon-<id>.pid and coord-listener-<id>.pid
  manifest,       \* coord-hook-manifest-<id>.json
  marker,         \* transports/<id>.json
  presence,       \* "registered": in agents.json; "mail": inbox and cursor files
  pc, op,         \* where a supervisor is, and in which command
  held,           \* the stack of the agent in its map; a CLI's map ends with its run
  had,            \* whether it found something to stop
  exits,          \* exit events it has not handled yet
  made,           \* commands given
  marked,         \* history: stacks whose invitation was completed
  raced,          \* history: two stacks claimed a pid file at a time
  clash           \* history: supervisors got in each other's way

stackVars == <<proc, parent, exits>>
diskVars == <<pidfile, manifest, marker, presence>>
callVars == <<pc, op, held, had, made>>
vars == <<stackVars, diskVars, callVars, marked, raced, clash>>

Stages == {"new", "spawned", "daemon claim", "listener claim", "up", "gone"}
Living(p) == p \in Stacks /\ proc[p] \notin {"new", "gone"}
Off(s) == pc[s] \in {"quit", "died"}

\* The manifest and the pid files are what is known of a stack on disk.
Known == {manifest, pidfile["daemon"], pidfile["listener"]} \ {None}

TypeOK ==
  /\ proc \in [Stacks -> Stages]
  /\ parent \in [Stacks -> Supervisors \cup {None}]
  /\ pidfile \in [Files -> Stacks \cup {None}]
  /\ {manifest, marker} \subseteq Stacks \cup {None}
  /\ presence \subseteq {"registered", "mail"}
  /\ pc \in [Supervisors -> {"idle", "stopping", "sweeping", "registering", "seating",
                             "striking", "quit", "died"}]
  /\ op \in [Supervisors -> {"none", "invite", "uninvite", "kick", "quit"}]
  /\ held \in [Supervisors -> Pids \cup {None}]
  /\ had \in [Supervisors -> BOOLEAN]
  /\ exits \in [Chats -> SUBSET Pids]
  /\ made \in 0..MaxCommands
  /\ marked \subseteq Pids
  /\ {raced, clash} \subseteq BOOLEAN

Init ==
  /\ proc = [p \in Stacks |-> "new"]
  /\ parent = [p \in Stacks |-> None]
  /\ pidfile = [f \in Files |-> None]
  /\ manifest = None /\ marker = None
  /\ presence = {"mail"}
  /\ pc = [s \in Supervisors |-> "idle"]
  /\ op = [s \in Supervisors |-> "none"]
  /\ held = [s \in Supervisors |-> None]
  /\ had = [s \in Supervisors |-> FALSE]
  /\ exits = [s \in Chats |-> {}]
  /\ made = 0
  /\ marked = {}
  /\ raced = FALSE /\ clash = FALSE

\* Every one of ps that lives is dead, and the chat that spawned it will hear.
Kill(ps) ==
  /\ proc' = [p \in Stacks |-> IF p \in ps /\ Living(p) THEN "gone" ELSE proc[p]]
  /\ exits' = [s \in Chats |->
                 exits[s] \cup {p \in ps \cap Pids : Living(p) /\ parent[p] = s}]

-----------------------------------------------------------------------------
(* A stack                                                                 *)

StartTask(t) ==
  /\ t \in Tasks
  /\ proc[t] = "new"
  /\ proc' = [proc EXCEPT ![t] = "spawned"]
  /\ UNCHANGED <<parent, exits, diskVars, callVars, marked, raced, clash>>

Other(f, p) == IF pidfile[f] # p /\ Living(pidfile[f]) THEN {pidfile[f]} ELSE {}

\* Mutant of Preempted: the holder of the pid file is left alone.
PreemptedNone(f, p) == {}

\* An invited stack kills the living holder of the pid file it is about to write.
Preempted(f, p) == Other(f, p)

\* The next stage of a stack that looks at a pid file: the holder gives way.
Claim(p, f, stage) ==
  /\ p \in Pids \/ Other(f, p) = {}
  /\ proc' = [q \in Stacks |-> CASE q = p -> stage
                                 [] q \in Preempted(f, p) -> "gone"
                                 [] OTHER -> proc[q]]
  /\ exits' = [s \in Chats |->
                 exits[s] \cup {q \in Preempted(f, p) \cap Pids : parent[q] = s}]
  /\ raced' = (raced \/ \E q \in Stacks \ Preempted(f, p) : proc[q] = stage)
  /\ UNCHANGED <<parent, marker, presence, callVars, marked, clash>>

ClaimDaemon(p) ==
  /\ proc[p] = "spawned"
  /\ Claim(p, "daemon", "daemon claim")
  /\ UNCHANGED <<pidfile, manifest>>

\* The daemon's pid file and manifest are written, and the listener's turn begins.
HoldDaemon(p) ==
  /\ proc[p] = "daemon claim"
  /\ pidfile' = [pidfile EXCEPT !["daemon"] = p]
  /\ manifest' = p
  /\ Claim(p, "listener", "listener claim")

HoldListener(p) ==
  /\ proc[p] = "listener claim"
  /\ pidfile' = [pidfile EXCEPT !["listener"] = p]
  /\ manifest' = p
  /\ proc' = [proc EXCEPT ![p] = "up"]
  /\ UNCHANGED <<parent, exits, marker, presence, callVars, marked, raced, clash>>

\* The exit handlers of p: any manifest goes, and the pid files that name p.
Unlisted(p) ==
  /\ manifest' = None
  /\ pidfile' = [f \in Files |-> IF pidfile[f] = p THEN None ELSE pidfile[f]]

\* A task that finds a living stack ends.  At the listener's turn the daemon's file
\* is its own by then, and its exit handler is in place.
StepAside(t) ==
  /\ t \in Tasks
  /\ \/ /\ proc[t] = "spawned" /\ Other("daemon", t) # {}
        /\ UNCHANGED <<manifest, pidfile>>
     \/ /\ proc[t] = "daemon claim" /\ Other("listener", t) # {}
        /\ manifest' = None
        /\ pidfile' = [pidfile EXCEPT !["daemon"] = None]
  /\ Kill({t})
  /\ UNCHANGED <<parent, marker, presence, callVars, marked, raced, clash>>

Exit(p) ==
  /\ proc[p] = "up"
  /\ Kill({p})
  /\ Unlisted(p)
  /\ UNCHANGED <<parent, marker, presence, callVars, marked, raced, clash>>

\* Killed from outside, or never up for want of an API key: no handler runs.
Crash(p) ==
  /\ Faults
  /\ Living(p)
  /\ Kill({p})
  /\ UNCHANGED <<parent, diskVars, callVars, marked, raced, clash>>

-----------------------------------------------------------------------------
(* A supervisor                                                            *)

\* Another supervisor is in a command, or a stack not its own is still starting:
\* what is not yet on disk is not stopped.
Clash(s) ==
  \/ clash
  \/ \E t \in Supervisors \ {s} : pc[t] # "idle" /\ ~Off(t)
  \/ \E p \in Stacks \ Known : Living(p) /\ (s \in Chats => parent[p] # s)

Begin(s, o) ==
  /\ pc[s] = "idle"
  /\ made < MaxCommands
  /\ made' = made + 1
  /\ op' = [op EXCEPT ![s] = o]
  /\ clash' = Clash(s)

Return(s) ==
  /\ pc' = [pc EXCEPT ![s] = "idle"]
  /\ op' = [op EXCEPT ![s] = "none"]
  /\ had' = [had EXCEPT ![s] = FALSE]
  /\ held' = IF s \in Admins THEN [held EXCEPT ![s] = None] ELSE held

\* killStaleHookProcesses, up to its wait.
Sweep(s) ==
  /\ Kill(Known \cup {held[s]})
  /\ pidfile' = [f \in Files |-> None]

\* Mutant of StopAgent: only the stacks the disk names are killed.
StopAgentSweeps(s) ==
  /\ Kill(Known)
  /\ pidfile' = [f \in Files |-> None]
  /\ held' = [held EXCEPT ![s] = None]

\* stopAgent kills the child in the map, forgets it, and sweeps.
StopAgent(s) ==
  /\ Sweep(s)
  /\ held' = [held EXCEPT ![s] = None]

\* The first sweep is stopAgent's, of a stack in the map; the second is inviteAgent's.
Invite(s) ==
  /\ Begin(s, "invite")
  /\ StopAgent(s)
  /\ pc' = [pc EXCEPT ![s] = IF held[s] = None THEN "sweeping" ELSE "stopping"]
  /\ UNCHANGED <<parent, manifest, marker, presence, had, marked, raced>>

InviteSweeps(s) ==
  /\ pc[s] = "stopping" /\ op[s] = "invite"
  /\ Kill({pidfile[f] : f \in Files})
  /\ pidfile' = [f \in Files |-> None]
  /\ manifest' = None
  /\ pc' = [pc EXCEPT ![s] = "sweeping"]
  /\ UNCHANGED <<parent, marker, presence, op, held, had, made, marked, raced, clash>>

\* Mutant of Entered: a chat does not remember what it spawned.
EnteredByCli(s, p) == IF s \in Admins THEN [held EXCEPT ![s] = p] ELSE held

\* The map of stacks has the child before anything is awaited.
Entered(s, p) == [held EXCEPT ![s] = p]

Spawn(s, p) ==
  /\ pc[s] = "sweeping"
  /\ proc[p] = "new"
  /\ manifest' = None
  /\ proc' = [proc EXCEPT ![p] = "spawned"]
  /\ parent' = [parent EXCEPT ![p] = s]
  /\ held' = Entered(s, p)
  /\ pc' = [pc EXCEPT ![s] = "registering"]
  /\ clash' = Clash(s)
  /\ UNCHANGED <<exits, pidfile, marker, presence, op, had, made, marked, raced>>

\* The lock takes several turns of the loop: exits from before it have been heard.
Register(s) ==
  /\ pc[s] = "registering"
  /\ s \in Chats => exits[s] = {}
  /\ presence' = presence \cup {"registered"}
  /\ pc' = [pc EXCEPT ![s] = "seating"]
  /\ UNCHANGED <<stackVars, pidfile, manifest, marker, op, held, had, made,
                 marked, raced, clash>>

\* A seat in the default room, under the lock of rooms.json; then the marker.
Mark(s) ==
  /\ pc[s] = "seating"
  /\ marker' = held[s]
  /\ marked' = marked \cup {held[s]}
  /\ Return(s)
  /\ UNCHANGED <<stackVars, pidfile, manifest, presence, made, raced, clash>>

\* A lock that is not got ends the invitation: the stack runs without a marker.
InviteFails(s) ==
  /\ Faults
  /\ pc[s] \in {"registering", "seating"}
  /\ Return(s)
  /\ UNCHANGED <<stackVars, diskVars, made, marked, raced, clash>>

\* A chat looks in its map, the CLI at the pid files.
Present(s) ==
  IF s \in Chats THEN held[s] # None ELSE \E f \in Files : pidfile[f] # None

Stop(s, o) ==
  /\ Begin(s, o)
  /\ StopAgent(s)
  /\ had' = [had EXCEPT ![s] = Present(s)]
  /\ pc' = [pc EXCEPT ![s] = "stopping"]
  /\ UNCHANGED <<parent, manifest, marker, presence, marked, raced>>

Uninvite(s) == Stop(s, "uninvite")
Kick(s) == Stop(s, "kick")

\* A stack the chat does not know is stopped, and its marker is left.
Uninvited(s) ==
  /\ pc[s] = "stopping" /\ op[s] = "uninvite"
  /\ manifest' = None
  /\ marker' = IF had[s] THEN None ELSE marker
  /\ Return(s)
  /\ UNCHANGED <<stackVars, pidfile, presence, made, marked, raced, clash>>

KickStopped(s) ==
  /\ pc[s] = "stopping" /\ op[s] = "kick"
  /\ manifest' = None
  /\ marker' = None
  /\ pc' = [pc EXCEPT ![s] = "striking"]
  /\ UNCHANGED <<stackVars, pidfile, presence, op, held, had, made, marked, raced,
                 clash>>

\* Out of the registry, under its lock; the files go only if it was there.
Kicked(s) ==
  /\ pc[s] = "striking"
  /\ IF "registered" \in presence
     THEN presence' = {} /\ marker' = None
     ELSE UNCHANGED <<presence, marker>>
  /\ Return(s)
  /\ UNCHANGED <<stackVars, pidfile, manifest, made, marked, raced, clash>>

\* A chat hears of an exit whenever it waits, and unlinks the marker there is.
ChildExit(s, p) ==
  /\ p \in exits[s]
  /\ pc[s] \in {"idle", "registering", "seating", "striking"}
  /\ exits' = [exits EXCEPT ![s] = @ \ {p}]
  /\ marker' = None
  /\ clash' = (clash \/ (marker # None /\ Living(marker)))
  /\ UNCHANGED <<proc, parent, pidfile, manifest, presence, callVars, marked, raced>>

\* /quit, or a signal in the middle of a command's wait.
Quit(s) ==
  /\ s \in Chats
  /\ pc[s] \in {"idle", "registering", "seating", "striking"}
  /\ op' = [op EXCEPT ![s] = "quit"]
  /\ IF held[s] = None
     THEN /\ pc' = [pc EXCEPT ![s] = "quit"]
          /\ exits' = [exits EXCEPT ![s] = {}]
          /\ UNCHANGED <<proc, pidfile, held>>
     ELSE /\ pc' = [pc EXCEPT ![s] = "stopping"]
          /\ StopAgent(s)
  /\ clash' = Clash(s)
  /\ UNCHANGED <<parent, manifest, marker, presence, had, made, marked, raced>>

QuitDone(s) ==
  /\ pc[s] = "stopping" /\ op[s] = "quit"
  /\ manifest' = None
  /\ pc' = [pc EXCEPT ![s] = "quit"]
  /\ exits' = [exits EXCEPT ![s] = {}]
  /\ UNCHANGED <<proc, parent, pidfile, marker, presence, op, held, had, made,
                 marked, raced, clash>>

\* A supervisor is killed: its map is lost and its stacks run on.
Die(s) ==
  /\ Faults
  /\ pc[s] # "idle" \/ held[s] # None
  /\ ~Off(s)
  /\ pc' = [pc EXCEPT ![s] = "died"]
  /\ held' = [held EXCEPT ![s] = None]
  /\ exits' = [c \in Chats |-> IF c = s THEN {} ELSE exits[c]]
  /\ parent' = [p \in Stacks |-> IF parent[p] = s THEN None ELSE parent[p]]
  /\ UNCHANGED <<proc, diskVars, op, had, made, marked, raced, clash>>

Restart(s) ==
  /\ Off(s)
  /\ Return(s)
  /\ parent' = [p \in Stacks |-> IF parent[p] = s THEN None ELSE parent[p]]
  /\ UNCHANGED <<proc, exits, diskVars, made, marked, raced, clash>>

-----------------------------------------------------------------------------
Boot(p) == ClaimDaemon(p) \/ HoldDaemon(p) \/ HoldListener(p)

Next ==
  \/ \E t \in Tasks : StartTask(t) \/ StepAside(t)
  \/ \E p \in Stacks : Boot(p) \/ Exit(p) \/ Crash(p)
  \/ \E s \in Supervisors :
       \/ Invite(s) \/ InviteSweeps(s) \/ Register(s) \/ Mark(s) \/ InviteFails(s)
       \/ Uninvite(s) \/ Uninvited(s) \/ Kick(s) \/ KickStopped(s) \/ Kicked(s)
       \/ Quit(s) \/ QuitDone(s) \/ Die(s) \/ Restart(s)
       \/ \E p \in Pids : Spawn(s, p)
  \/ \E s \in Chats, p \in Pids : ChildExit(s, p)

Spec == Init /\ [][Next]_vars

-----------------------------------------------------------------------------
(* A stack that is up owns both pid files, so at most one is up and every  *)
(* sweep reaches it, whoever started it and whichever files crashes,       *)
(* exits and other sweeps left, unless two stacks claimed a pid file at a  *)
(* time (claimManagedHookPid, killStaleHookProcesses).                     *)
OneStack ==
  raced \/ \A p \in Stacks : proc[p] = "up" => \A f \in Files : pidfile[f] = p

(* While a stack whose invitation was completed is up, the agent is        *)
(* registered and the marker names that stack: no exit of an earlier one   *)
(* has unlinked it, unless supervisors were at work on the agent at a time *)
(* or an exit was heard late (doInviteAgent, onInviteChildExit).  Stacks   *)
(* that raced for a pid file do no harm to it.                             *)
Marked ==
  clash \/
  \A p \in marked : proc[p] = "up" => marker = p /\ "registered" \in presence

(* A chat that ends in good order leaves no stack of its own running, even *)
(* if it ends in the middle of an invitation or after one that failed      *)
(* (shutdown, stopAll, the map of stacks).                                 *)
QuitLeavesNone ==
  [][\A s \in Chats : pc[s] # "quit" /\ pc'[s] = "quit" =>
       \A p \in Pids : parent[p] = s => ~Living(p)']_vars
=============================================================================
