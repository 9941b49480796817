------------------------------ MODULE Transport ------------------------------
(***************************************************************************)
(* The transport marker of one agent: the file that says which pusher      *)
(* types the agent's mail into its pane (src/tools.ts, hooks/              *)
(* tmux-pusher.mjs, scripts/coord-pusher.mjs).                             *)
(*                                                                         *)
(* attach_agent looks at the marker, spawns a local pusher and writes the  *)
(* marker; the pusher publishes it too, and unlinks it when it ends.       *)
(* detach_agent kills the pusher the marker names and unlinks the marker.  *)
(* A remote pusher reports and clears the marker through the server.       *)
(* list_agents unlinks the marker of a pusher it holds for dead: a local   *)
(* one by its pid, a remote one by the age of the agent's heartbeat.       *)
(*                                                                         *)
(* Each of them reads the marker first and writes or unlinks it later,     *)
(* whatever it is by then.                                                 *)
(***************************************************************************)
EXTENDS Integers, FiniteSets

CONSTANTS
  Locals,         \* pids of local pushers; each is used once
  Remotes,        \* remote pusher processes
  Attachers,      \* concurrent attach_agent calls
  Detachers,      \* concurrent detach_agent calls
  Listers,        \* concurrent list_agents calls
  Crashes,        \* whether a pusher may die without a word
  StaleAge,       \* STALE_MS, in heartbeat periods
  None, Torn      \* no marker file; a marker file opened and not yet written

Pushers == Locals \cup Remotes

ASSUME AgeAssumption == StaleAge \in Nat \ {0, 1}
ASSUME CrashAssumption == Crashes \in BOOLEAN
ASSUME MarkerAssumption == None # Torn /\ {None, Torn} \cap Pushers = {}
ASSUME PusherAssumption == Locals \cap Remotes = {}

VARIABLES
  marker,         \* the transport marker file
  proc,           \* a pusher: new, starting, writing, running, dying or gone
  age,            \* how old the agent's heartbeat is
  apc, aseen, apid,  \* an attach: where it is, the marker it read, its pusher
  dpc, dseen,     \* a detach: where it is, the marker it read
  lpc, lseen, lfresh,\* a list: where it is, the marker and heartbeat it read
  foul            \* history: a marker was unlinked or replaced by mistake

attachVars == <<apc, aseen, apid>>
detachVars == <<dpc, dseen>>
listVars == <<lpc, lseen, lfresh>>
vars == <<marker, proc, age, attachVars, detachVars, listVars, foul>>

Alive(p) == proc[p] \in {"starting", "writing", "running", "dying"}
Serves(p) == proc[p] \in {"starting", "writing", "running"}

Init ==
  /\ marker = None
  /\ proc = [p \in Pushers |-> "new"]
  /\ age = 0
  /\ apc = [c \in Attachers |-> "idle"]
  /\ aseen = [c \in Attachers |-> None]
  /\ apid = [c \in Attachers |-> None]
  /\ dpc = [d \in Detachers |-> "idle"]
  /\ dseen = [d \in Detachers |-> None]
  /\ lpc = [l \in Listers |-> "idle"]
  /\ lseen = [l \in Listers |-> None]
  /\ lfresh = [l \in Listers |-> TRUE]
  /\ foul = FALSE

\* A marker that is still of use to a pusher other than m.
InUse(m) == marker = Torn \/ (marker \in Pushers \ {m} /\ Alive(marker))

\* Unlinking is meant for the marker m, and replacing for the pusher p's own.
\* A remote pusher whose marker is dismissed serves on: nobody can kill it.
Unlink(m) ==
  /\ marker' = None
  /\ foul' = (foul \/ InUse(m))
Dismiss(m) ==
  /\ marker' = None
  /\ foul' = (foul \/ InUse(m) \/ (marker = m /\ m \in Remotes /\ Alive(m)))
Replace(m, p) ==
  /\ marker' = m
  /\ foul' = (foul \/ InUse(p))

\* The end of a write to a file that was opened: in vain if another file was
\* renamed over it, or it was unlinked, in between.
Written(p) == marker' = IF marker = Torn THEN p ELSE marker

-----------------------------------------------------------------------------
(* attach_agent                                                            *)

Attaching == {c \in Attachers : apc[c] # "idle"}

\* Mutant of AttachCheck: the pid of the marker is not looked at.
AttachUnchecked(c) ==
  /\ apc[c] = "idle"
  /\ apc' = [apc EXCEPT ![c] = IF marker = None THEN "spawn" ELSE "clean"]
  /\ aseen' = [aseen EXCEPT ![c] = marker]
  /\ foul' = (foul \/ Attaching # {})
  /\ UNCHANGED <<marker, proc, age, apid, detachVars, listVars>>

\* It is refused while the marker's pid is alive; a remote marker's pid is 0.
AttachCheck(c) ==
  /\ apc[c] = "idle"
  /\ ~(marker \in Locals /\ Alive(marker))
  /\ apc' = [apc EXCEPT ![c] = IF marker \in Pushers THEN "clean" ELSE "spawn"]
  /\ aseen' = [aseen EXCEPT ![c] = marker]
  /\ foul' = (foul \/ Attaching # {})
  /\ UNCHANGED <<marker, proc, age, apid, detachVars, listVars>>

AttachClean(c) ==
  /\ apc[c] = "clean"
  /\ Dismiss(aseen[c])
  /\ apc' = [apc EXCEPT ![c] = "spawn"]
  /\ UNCHANGED <<proc, age, aseen, apid, detachVars, listVars>>

\* Mutant of AttachSpawn: that the process has no pid goes unnoticed.
AttachSpawnFails(c, p) ==
  /\ apc[c] = "spawn"
  /\ proc[p] = "new"
  /\ apc' = [apc EXCEPT ![c] = "open"]
  /\ UNCHANGED <<marker, proc, age, aseen, apid, detachVars, listVars, foul>>

AttachSpawn(c, p) ==
  /\ apc[c] = "spawn"
  /\ proc[p] = "new"
  /\ proc' = [proc EXCEPT ![p] = "starting"]
  /\ apid' = [apid EXCEPT ![c] = p]
  /\ apc' = [apc EXCEPT ![c] = "open"]
  /\ UNCHANGED <<marker, age, aseen, detachVars, listVars, foul>>

\* updateJson opens the marker file for writing ...
AttachOpen(c) ==
  /\ apc[c] = "open"
  /\ Replace(Torn, apid[c])
  /\ apc' = [apc EXCEPT ![c] = "store"]
  /\ UNCHANGED <<proc, age, aseen, apid, detachVars, listVars>>

AttachEnds(c) ==
  /\ apc' = [apc EXCEPT ![c] = "idle"]
  /\ aseen' = [aseen EXCEPT ![c] = None]
  /\ apid' = [apid EXCEPT ![c] = None]

\* ... and writes it.
AttachStore(c) ==
  /\ apc[c] = "store"
  /\ Written(apid[c])
  /\ AttachEnds(c)
  /\ UNCHANGED <<proc, age, detachVars, listVars, foul>>

-----------------------------------------------------------------------------
(* The pushers                                                             *)

\* A local pusher renames its own marker into place when it is up.
Publish(p) ==
  /\ p \in Locals /\ proc[p] = "starting"
  /\ Replace(p, p)
  /\ proc' = [proc EXCEPT ![p] = "running"]
  /\ UNCHANGED <<age, attachVars, detachVars, listVars>>

\* A remote pusher registers, and reports its marker in two steps (updateJson).
RegisterRemote(p) ==
  /\ p \in Remotes /\ proc[p] = "new"
  /\ proc' = [proc EXCEPT ![p] = "starting"]
  /\ age' = 0
  /\ UNCHANGED <<marker, attachVars, detachVars, listVars, foul>>
Report(p) ==
  /\ p \in Remotes /\ proc[p] = "starting"
  /\ Replace(Torn, p)
  /\ proc' = [proc EXCEPT ![p] = "writing"]
  /\ UNCHANGED <<age, attachVars, detachVars, listVars>>
Reported(p) ==
  /\ p \in Remotes /\ proc[p] = "writing"
  /\ Written(p)
  /\ proc' = [proc EXCEPT ![p] = "running"]
  /\ UNCHANGED <<age, attachVars, detachVars, listVars, foul>>

Heartbeat(p) ==
  /\ p \in Remotes /\ proc[p] = "running"
  /\ age' = 0
  /\ UNCHANGED <<marker, proc, attachVars, detachVars, listVars, foul>>

\* The signal handler of a killed pusher; its pane is gone; a remote one ends.
Cleanup(p) ==
  /\ proc[p] \in {"dying", "running"}
  /\ proc' = [proc EXCEPT ![p] = "gone"]
  /\ Unlink(p)
  /\ UNCHANGED <<age, attachVars, detachVars, listVars>>

\* kill -9, a crash, a reboot.
Crash(p) ==
  /\ Crashes
  /\ proc[p] \in {"starting", "running", "dying"}
  /\ proc' = [proc EXCEPT ![p] = "gone"]
  /\ UNCHANGED <<marker, age, attachVars, detachVars, listVars, foul>>

-----------------------------------------------------------------------------
(* detach_agent                                                            *)

DetachRead(d) ==
  /\ dpc[d] = "idle"
  /\ dpc' = [dpc EXCEPT ![d] = "kill"]
  /\ dseen' = [dseen EXCEPT ![d] = marker]
  /\ UNCHANGED <<marker, proc, age, attachVars, listVars, foul>>

\* Before its handlers are installed SIGTERM ends a pusher at once.
Signalled(p) ==
  CASE proc[p] = "starting" -> "gone"
    [] proc[p] = "running"  -> "dying"
    [] OTHER                -> proc[p]

\* Mutant of DetachKill: nothing is killed.
DetachSpares(d) ==
  /\ dpc[d] = "kill"
  /\ dpc' = [dpc EXCEPT ![d] = "unlink"]
  /\ UNCHANGED <<marker, proc, age, attachVars, dseen, listVars, foul>>

\* Only a local pusher has a pid to kill.
DetachKill(d) ==
  LET p == dseen[d] IN
  /\ dpc[d] = "kill"
  /\ proc' = IF p \in Locals THEN [proc EXCEPT ![p] = Signalled(p)] ELSE proc
  /\ dpc' = [dpc EXCEPT ![d] = "unlink"]
  /\ UNCHANGED <<marker, age, attachVars, dseen, listVars, foul>>

DetachUnlink(d) ==
  /\ dpc[d] = "unlink"
  /\ Dismiss(dseen[d])
  /\ dpc' = [dpc EXCEPT ![d] = "idle"]
  /\ dseen' = [dseen EXCEPT ![d] = None]
  /\ UNCHANGED <<proc, age, attachVars, listVars>>

-----------------------------------------------------------------------------
(* list_agents                                                             *)

\* loadLiveTransports reads the registry, and then the marker, if there is one.
ListRead(l) ==
  /\ lpc[l] = "idle"
  /\ marker # None
  /\ lpc' = [lpc EXCEPT ![l] = "sweep"]
  /\ lseen' = [lseen EXCEPT ![l] = marker]
  /\ lfresh' = [lfresh EXCEPT ![l] = age < StaleAge]
  /\ UNCHANGED <<marker, proc, age, attachVars, detachVars, foul>>

\* Mutant of IsMarkerLive: none is believed but a local one.
IsMarkerProbed(l) == lseen[l] \in Locals /\ Alive(lseen[l])

IsMarkerLive(l) ==
  \/ lseen[l] \in Remotes /\ lfresh[l]
  \/ lseen[l] \in Locals /\ Alive(lseen[l])

ListEnds(l) ==
  /\ lseen' = [lseen EXCEPT ![l] = None]
  /\ lfresh' = [lfresh EXCEPT ![l] = TRUE]

\* The marker of a dead pusher, or one that does not parse, is unlinked.
ListSweep(l) ==
  /\ lpc[l] = "sweep"
  /\ IF IsMarkerLive(l)
     THEN /\ lpc' = [lpc EXCEPT ![l] = "refresh"]
          /\ UNCHANGED <<marker, lseen, lfresh, foul>>
     ELSE /\ lpc' = [lpc EXCEPT ![l] = "idle"]
          /\ Unlink(lseen[l])
          /\ ListEnds(l)
  /\ UNCHANGED <<proc, age, attachVars, detachVars>>

\* A live marker counts as a heartbeat of its agent.
ListRefresh(l) ==
  /\ lpc[l] = "refresh"
  /\ age' = 0
  /\ lpc' = [lpc EXCEPT ![l] = "idle"]
  /\ ListEnds(l)
  /\ UNCHANGED <<marker, proc, attachVars, detachVars, foul>>

\* A heartbeat period passes; a remote pusher beats in each of them.
Tick ==
  /\ age < StaleAge
  /\ \A p \in Remotes : Serves(p) => age = 0
  /\ age' = age + 1
  /\ UNCHANGED <<marker, proc, attachVars, detachVars, listVars, foul>>

-----------------------------------------------------------------------------
Attach(c) ==
  \/ AttachCheck(c) \/ AttachClean(c) \/ AttachOpen(c) \/ AttachStore(c)
  \/ \E p \in Locals : AttachSpawn(c, p)
Detach(d) == DetachRead(d) \/ DetachKill(d) \/ DetachUnlink(d)
ListAgents(l) == ListRead(l) \/ ListSweep(l) \/ ListRefresh(l)
Run(p) == Publish(p) \/ RegisterRemote(p) \/ Report(p) \/ Reported(p) \/ Heartbeat(p)

Next ==
  \/ \E c \in Attachers : Attach(c)
  \/ \E d \in Detachers : Detach(d)
  \/ \E l \in Listers : ListAgents(l)
  \/ \E p \in Pushers : Run(p) \/ Cleanup(p) \/ Crash(p)
  \/ Tick

Spec == Init /\ [][Next]_vars

\* Calls that were made go on, pushers that were started come up and those
\* that were killed go down; time passes, and somebody lists the agents.
Fairness ==
  /\ \A c \in Attachers : WF_vars(apc[c] # "idle" /\ Attach(c))
  /\ \A d \in Detachers : WF_vars(dpc[d] # "idle" /\ Detach(d))
  /\ \A l \in Listers : WF_vars(ListAgents(l))
  /\ \A p \in Pushers : /\ WF_vars(Publish(p) \/ Report(p) \/ Reported(p))
                        /\ WF_vars(proc[p] = "dying" /\ Cleanup(p))
                        /\ WF_vars(Heartbeat(p))
  /\ WF_vars(Tick)

FairSpec == Spec /\ Fairness

-----------------------------------------------------------------------------
(* Properties                                                              *)

\* The types of the marker, the processes and the calls.
TypeOK ==
  /\ marker \in Pushers \cup {None, Torn}
  /\ proc \in [Pushers -> {"new", "starting", "writing", "running", "dying", "gone"}]
  /\ age \in 0..StaleAge
  /\ apc \in [Attachers -> {"idle", "clean", "spawn", "open", "store"}]
  /\ aseen \in [Attachers -> Pushers \cup {None, Torn}]
  /\ apid \in [Attachers -> Locals \cup {None}]
  /\ \A c \in Attachers : apc[c] \in {"open", "store"} => apid[c] \in Locals
  /\ dpc \in [Detachers -> {"idle", "kill", "unlink"}]
  /\ dseen \in [Detachers -> Pushers \cup {None, Torn}]
  /\ lpc \in [Listers -> {"idle", "sweep", "refresh"}]
  /\ lseen \in [Listers -> Pushers \cup {None, Torn}]
  /\ lfresh \in [Listers -> BOOLEAN]
  /\ foul \in BOOLEAN

\* Two pushers type the same mail into the same pane only if two attaches ran
\* at once, or somebody unlinked or replaced a marker that was not the one it
\* had looked at: short of that an attach finds every local pusher there is.
OnePusher == ~foul => Cardinality({p \in Locals : Serves(p)}) <= 1

\* Under the same condition a local pusher that is up can be found by its
\* marker, by list_agents, send_command and detach_agent, once its attach is
\* done; so can a remote one that beats, whoever lists the agents meanwhile.
Findable ==
  ~foul =>
    /\ Attaching = {} => \A p \in Locals : Serves(p) => marker = p
    /\ \A p \in Remotes : proc[p] = "running" => marker = p

\* And when a detach returns nothing is left that serves the agent, unless an
\* attach is at work.
DetachSilences ==
  [][\A d \in Detachers :
       dpc[d] = "unlink" /\ dpc'[d] = "idle" /\ ~foul' /\ Attaching = {} =>
         \A p \in Locals : ~Serves(p)]_vars

\* src/tools.ts:1131: "if something's already attached, refuse rather than
\* spawn a second pusher".
RefusesSecond ==
  [][\A c \in Attachers : apc[c] = "idle" /\ apc'[c] # "idle" /\ marker \in Pushers
       => ~Alive(marker)]_vars

\* src/tools.ts:319: the marker of a remote pusher is trusted only as long as
\* the pusher refreshes the heartbeat: when the pusher is gone it goes.
GhostGoes == \A p \in Remotes : marker = p /\ proc[p] = "gone" ~> marker # p
=============================================================================
