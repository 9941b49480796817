---------------------------- MODULE Stacks_proofs ----------------------------
(***************************************************************************)
(* What holds of the hook stacks of an agent for any number of stacks,     *)
(* chats, runs of the admin CLI and commands.                              *)
(***************************************************************************)
EXTENDS Stacks, TLAPS

-----------------------------------------------------------------------------
(* The inductive invariant                                                 *)

Engaged(p) == proc[p] \in {"daemon claim", "listener claim", "up"}

\* Unless two looked at a pid file at a time, one stack at most has claimed one,
\* and it owns what it has written.
Exclusive ==
  raced \/
  /\ \A p, q \in Stacks : Engaged(p) /\ Engaged(q) => p = q
  /\ \A p \in Stacks :
       /\ proc[p] \in {"listener claim", "up"} => pidfile["daemon"] = p
       /\ proc[p] = "up" => pidfile["listener"] = p

\* A living stack of a chat is the one in its map, and none is left where the
\* chat has stopped what it had.
Held ==
  \A s \in Chats, p \in Pids :
    parent[p] = s /\ Living(p) =>
      held[s] = p /\ pc[s] \notin {"stopping", "sweeping", "quit", "died"}

Busy(s) == pc[s] # "idle" /\ ~Off(s)

\* While supervisors keep out of each other's way, one at most is at work; after
\* a stop no invited stack lives, and in an invitation only the new one.
OneAtWork == \A s, t \in Supervisors : Busy(s) /\ Busy(t) => s = t

Quiet ==
  \A s \in Supervisors, p \in Pids : Living(p) =>
    /\ pc[s] \notin {"stopping", "sweeping", "striking"}
    /\ pc[s] \in {"registering", "seating"} => held[s] = p

Seated == \A s \in Supervisors : pc[s] = "seating" => "registered" \in presence

Marks == \A p \in marked : Living(p) => marker = p /\ "registered" \in presence

Orderly == clash \/ (OneAtWork /\ Quiet /\ Seated /\ Marks)

\* What is in a map or has been marked has been spawned.
Spawned ==
  /\ \A s \in Supervisors : held[s] # None => proc[held[s]] # "new"
  /\ \A p \in marked : proc[p] # "new"

\* An invitation that waits for a lock has its stack in the map.
Entering ==
  \A s \in Supervisors : pc[s] \in {"registering", "seating"} => held[s] \in Pids

IInv == TypeOK /\ Entering /\ Exclusive /\ Held /\ Spawned /\ Orderly

LEMMA IInvInit == Init => IInv
<1> SUFFICES ASSUME Init PROVE IInv
  OBVIOUS
<1> USE DEF Init
<1>1. TypeOK
  <2>1. /\ proc \in [Stacks -> Stages] /\ parent \in [Stacks -> Supervisors \cup {None}]
        /\ pidfile \in [Files -> Stacks \cup {None}]
    BY DEF Stages
  <2>2. /\ pc \in [Supervisors -> {"idle", "stopping", "sweeping", "registering", "seating",
                                   "striking", "quit", "died"}]
        /\ op \in [Supervisors -> {"none", "invite", "uninvite", "kick", "quit"}]
        /\ held \in [Supervisors -> Pids \cup {None}] /\ had \in [Supervisors -> BOOLEAN]
        /\ exits \in [Chats -> SUBSET Pids]
    OBVIOUS
  <2>3. made \in 0..MaxCommands
    BY CommandAssumption
  <2> QED
    BY <2>1, <2>2, <2>3 DEF TypeOK
<1>2. Exclusive
  BY DEF Exclusive, Engaged
<1>3. Held
  BY StackAssumption DEF Held, Living, Stacks
<1>4. Orderly
  BY DEF Orderly, OneAtWork, Quiet, Seated, Marks, Busy
<1>5. Entering /\ Spawned
  BY DEF Entering, Spawned
<1> QED
  BY <1>1, <1>2, <1>3, <1>4, <1>5 DEF IInv

-----------------------------------------------------------------------------
(* The types                                                               *)

LEMMA FileType == {"daemon", "listener"} = Files
BY DEF Files

LEMMA KillType ==
  ASSUME TypeOK, NEW ps, Kill(ps)
  PROVE  proc' \in [Stacks -> Stages] /\ exits' \in [Chats -> SUBSET Pids]
BY DEF TypeOK, Kill, Stages

LEMMA TypeNext == TypeOK /\ Entering /\ [Next]_vars => TypeOK'
<1> SUFFICES ASSUME TypeOK, Entering, [Next]_vars PROVE TypeOK'
  OBVIOUS
<1>1. ASSUME NEW t \in Tasks, StartTask(t) \/ StepAside(t) PROVE TypeOK'
  <2>1. t \in Stacks /\ t \notin Pids
    BY StackAssumption DEF Stacks
  <2>2. CASE StartTask(t)
    BY <2>1, <2>2 DEF StartTask, TypeOK, Stages, diskVars, callVars
  <2>3. CASE StepAside(t)
    BY ZenonT(30), <2>1, <2>3, KillType DEF StepAside, TypeOK, callVars, Files
  <2> QED
    BY <1>1, <2>2, <2>3
<1>2. ASSUME NEW p \in Stacks, Boot(p) PROVE TypeOK'
  <2>1. ASSUME NEW f \in Files, NEW st \in {"daemon claim", "listener claim"}, Claim(p, f, st)
        PROVE  /\ proc' \in [Stacks -> Stages] /\ exits' \in [Chats -> SUBSET Pids]
               /\ raced' \in BOOLEAN
               /\ UNCHANGED <<parent, marker, presence, callVars, marked, clash>>
    BY <2>1 DEF Claim, TypeOK, Stages
  <2>2. CASE ClaimDaemon(p)
    BY <2>1, <2>2, FileType DEF ClaimDaemon, TypeOK, callVars
  <2>3. CASE HoldDaemon(p)
    BY <2>1, <2>3, FileType DEF HoldDaemon, TypeOK, callVars
  <2>4. CASE HoldListener(p)
    BY <2>4 DEF HoldListener, TypeOK, callVars, Stages
  <2> QED
    BY <1>2, <2>2, <2>3, <2>4 DEF Boot
<1>3. ASSUME NEW p \in Stacks, Exit(p) \/ Crash(p) PROVE TypeOK'
  BY <1>3, KillType DEF Exit, Crash, Unlisted, TypeOK, callVars, diskVars
<1>4. ASSUME NEW s \in Supervisors,
             \/ Invite(s) \/ InviteSweeps(s) \/ Register(s) \/ Mark(s) \/ InviteFails(s)
             \/ Uninvite(s) \/ Uninvited(s) \/ Kick(s) \/ KickStopped(s) \/ Kicked(s)
             \/ Quit(s) \/ QuitDone(s) \/ Die(s) \/ Restart(s)
             \/ \E p \in Pids : Spawn(s, p)
      PROVE  TypeOK'
  <2>1. ASSUME Sweep(s)
        PROVE  /\ proc' \in [Stacks -> Stages] /\ exits' \in [Chats -> SUBSET Pids]
               /\ pidfile' \in [Files -> Stacks \cup {None}]
    BY <2>1, KillType DEF Sweep
  <2>2. ASSUME Return(s)
        PROVE  /\ pc' \in [Supervisors -> {"idle", "stopping", "sweeping", "registering",
                                           "seating", "striking", "quit", "died"}]
               /\ op' \in [Supervisors -> {"none", "invite", "uninvite", "kick", "quit"}]
               /\ had' \in [Supervisors -> BOOLEAN]
               /\ held' \in [Supervisors -> Pids \cup {None}]
    BY <2>2 DEF Return, TypeOK
  <2>3. ASSUME NEW o \in {"invite", "uninvite", "kick"}, Begin(s, o)
        PROVE  /\ op' \in [Supervisors -> {"none", "invite", "uninvite", "kick", "quit"}]
               /\ made' \in 0..MaxCommands /\ clash' \in BOOLEAN
    BY <2>3, CommandAssumption DEF Begin, TypeOK, Clash
  <2>4. Clash(s) \in BOOLEAN
    BY DEF Clash, TypeOK
  <2>5. CASE Invite(s)
    BY <2>5, <2>1, <2>3 DEF Invite, StopAgent, TypeOK
  <2>6. CASE InviteSweeps(s)
    BY <2>6, KillType DEF InviteSweeps, TypeOK
  <2>7. CASE Register(s)
    BY <2>7 DEF Register, TypeOK, stackVars
  <2>8. CASE Mark(s)
    <3>1. held[s] \in Pids
      BY <2>8 DEF Mark, Entering
    <3> QED
      BY <2>8, <3>1, <2>2 DEF Mark, TypeOK, stackVars, Stacks
  <2>9. CASE InviteFails(s) \/ Uninvited(s) \/ Kicked(s)
    BY ZenonT(30), <2>9, <2>2 DEF InviteFails, Uninvited, Kicked, TypeOK, stackVars, diskVars
  <2>10. ASSUME NEW o \in {"uninvite", "kick"}, Stop(s, o) PROVE TypeOK'
    BY <2>10, <2>1, <2>3 DEF Stop, StopAgent, Present, TypeOK
  <2>11. CASE KickStopped(s)
    BY <2>11 DEF KickStopped, TypeOK, stackVars
  <2>12. CASE Quit(s)
    <3>1. /\ proc' \in [Stacks -> Stages] /\ exits' \in [Chats -> SUBSET Pids]
          /\ pidfile' \in [Files -> Stacks \cup {None}]
          /\ held' \in [Supervisors -> Pids \cup {None}]
      BY <2>12, <2>1 DEF Quit, StopAgent, TypeOK
    <3>2. /\ pc' \in [Supervisors -> {"idle", "stopping", "sweeping", "registering",
                                      "seating", "striking", "quit", "died"}]
          /\ op' \in [Supervisors -> {"none", "invite", "uninvite", "kick", "quit"}]
          /\ clash' \in BOOLEAN
      BY <2>12, <2>4 DEF Quit, TypeOK
    <3> QED
      BY <2>12, <3>1, <3>2 DEF Quit, TypeOK
  <2>13. CASE QuitDone(s)
    BY <2>13, <2>4 DEF QuitDone, TypeOK
  <2>14. CASE Die(s)
    BY <2>14 DEF Die, TypeOK, diskVars
  <2>15. CASE Restart(s)
    BY <2>15, <2>2 DEF Restart, TypeOK, diskVars
  <2>16. ASSUME NEW p \in Pids, Spawn(s, p) PROVE TypeOK'
    BY <2>16, <2>4 DEF Spawn, Entered, TypeOK, Stages, Stacks
  <2> QED
    BY <1>4, <2>5, <2>6, <2>7, <2>8, <2>9, <2>10, <2>11, <2>12, <2>13, <2>14, <2>15, <2>16
       DEF Uninvite, Kick
<1>5. ASSUME NEW s \in Chats, NEW p \in Pids, ChildExit(s, p) PROVE TypeOK'
  BY <1>5 DEF ChildExit, TypeOK, callVars, Living
<1>6. CASE UNCHANGED vars
  BY <1>6 DEF vars, stackVars, diskVars, callVars, TypeOK
<1> QED
  BY <1>1, <1>2, <1>3, <1>4, <1>5, <1>6 DEF Next

LEMMA EnteringNext == TypeOK /\ Entering /\ [Next]_vars => Entering'
<1> SUFFICES ASSUME TypeOK, Entering, [Next]_vars,
                    NEW x \in Supervisors, pc'[x] \in {"registering", "seating"}
             PROVE  held'[x] \in Pids
  BY DEF Entering
<1>1. CASE UNCHANGED callVars
  BY <1>1 DEF callVars, Entering
<1>2. ASSUME NEW s \in Supervisors,
             \/ Invite(s) \/ InviteSweeps(s) \/ Register(s) \/ Mark(s) \/ InviteFails(s)
             \/ Uninvite(s) \/ Uninvited(s) \/ Kick(s) \/ KickStopped(s) \/ Kicked(s)
             \/ Quit(s) \/ QuitDone(s) \/ Die(s) \/ Restart(s)
      PROVE  held'[x] \in Pids
  <2>1. CASE x = s
    BY <1>2, <2>1 DEF Invite, InviteSweeps, Register, Mark, InviteFails, Uninvite, Uninvited, Kick,
                      KickStopped, Kicked, Quit, QuitDone, Die, Restart, Stop, Return, TypeOK,
                      Entering
  <2>2. CASE x # s
    BY <1>2, <2>2 DEF Invite, InviteSweeps, Register, Mark, InviteFails, Uninvite, Uninvited, Kick,
                      KickStopped, Kicked, Quit, QuitDone, Die, Restart, Stop, Return, StopAgent,
                      TypeOK, Entering
  <2> QED
    BY <2>1, <2>2
<1>3. ASSUME NEW s \in Supervisors, NEW p \in Pids, Spawn(s, p) PROVE held'[x] \in Pids
  BY <1>3 DEF Spawn, Entered, TypeOK, Entering
<1>4. ASSUME NEW t \in Tasks, StartTask(t) \/ StepAside(t) PROVE UNCHANGED callVars
  BY <1>4 DEF StartTask, StepAside
<1>5. ASSUME NEW p \in Stacks, Boot(p) \/ Exit(p) \/ Crash(p) PROVE UNCHANGED callVars
  BY <1>5 DEF Boot, ClaimDaemon, HoldDaemon, HoldListener, Claim, Exit, Crash
<1>6. ASSUME NEW s \in Chats, NEW p \in Pids, ChildExit(s, p) PROVE UNCHANGED callVars
  BY <1>6 DEF ChildExit
<1>7. CASE UNCHANGED vars
  BY <1>1, <1>7 DEF vars
<1> QED
  BY <1>1, <1>2, <1>3, <1>4, <1>5, <1>6, <1>7 DEF Next

-----------------------------------------------------------------------------
(* One stack                                                               *)

\* A sweep empties the pid files of whom it killed.
LEMMA SweptExclusive ==
  ASSUME TypeOK, Exclusive, NEW ps, {pidfile[f] : f \in Files} \ {None} \subseteq ps, Kill(ps),
         pidfile' = [f \in Files |-> None], raced' = raced
  PROVE  Exclusive'
<1>1. \A p \in Stacks : proc'[p] = IF p \in ps /\ Living(p) THEN "gone" ELSE proc[p]
  BY DEF Kill
<1>2. \A p, q \in Stacks : raced \/ (Engaged(p)' /\ Engaged(q)' => p = q)
  BY <1>1 DEF Exclusive, Engaged
<1>3. ASSUME NEW p \in Stacks, ~raced PROVE proc'[p] \notin {"listener claim", "up"}
  <2>1. SUFFICES ASSUME proc[p] \in {"listener claim", "up"} PROVE p \in ps /\ Living(p)
    BY <1>1
  <2>2. pidfile["daemon"] = p
    BY <1>3, <2>1 DEF Exclusive
  <2>3. p # None
    BY StackAssumption
  <2> QED
    BY <2>1, <2>2, <2>3 DEF Living, Files
<1> QED
  BY <1>2, <1>3 DEF Exclusive

\* The stack that claims goes on, the holder it finds is gone, and the others stay.
LEMMA ClaimEffect ==
  ASSUME NEW p \in Stacks, NEW f \in Files, NEW stage, Claim(p, f, stage)
  PROVE  /\ proc'[p] = stage
         /\ \A q \in Stacks \ {p} : proc'[q] = IF q \in Other(f, p) THEN "gone" ELSE proc[q]
<1>1. p \notin Other(f, p)
  BY DEF Other
<1>2. proc' = [q \in Stacks |-> CASE q = p -> stage
                                 [] q \in Other(f, p) -> "gone"
                                 [] OTHER -> proc[q]]
  BY DEF Claim, Preempted
<1>3. proc'[p] = stage
  BY <1>1, <1>2
<1>4. ASSUME NEW q \in Stacks, q # p
      PROVE  proc'[q] = IF q \in Other(f, p) THEN "gone" ELSE proc[q]
  <2>1. CASE q \in Other(f, p)
    BY <1>2, <1>4, <2>1
  <2>2. CASE q \notin Other(f, p)
    BY <1>2, <1>4, <2>2
  <2> QED
    BY <2>1, <2>2
<1> QED
  BY <1>3, <1>4

\* Whoever finds a living stack in the daemon's pid file kills it, or steps aside.
LEMMA ClaimDaemonExclusive ==
  ASSUME TypeOK, Exclusive, NEW p \in Stacks, ClaimDaemon(p)
  PROVE  Exclusive'
<1>1. proc[p] = "spawned" /\ Claim(p, "daemon", "daemon claim") /\ UNCHANGED pidfile
  BY DEF ClaimDaemon
<1>2. SUFFICES ASSUME ~raced, ~raced' PROVE Exclusive'
  BY <1>1 DEF Exclusive, Claim
<1>3. /\ proc'[p] = "daemon claim"
      /\ \A q \in Stacks \ {p} :
           proc'[q] = IF q \in Other("daemon", p) THEN "gone" ELSE proc[q]
  BY <1>1, ClaimEffect DEF Files
<1>4. \A q \in Stacks : q \notin Other("daemon", p) => proc[q] # "daemon claim"
  BY <1>1, <1>2 DEF Claim, Preempted
<1>5. ASSUME NEW q \in Stacks \ {p}, Engaged(q)' PROVE FALSE
  <2>1. q \notin Other("daemon", p) /\ Engaged(q)
    BY <1>3, <1>5 DEF Engaged
  <2>2. proc[q] \in {"listener claim", "up"}
    BY <1>4, <2>1 DEF Engaged
  <2>3. pidfile["daemon"] = q
    BY <1>2, <2>2 DEF Exclusive
  <2> QED
    BY <2>1, <2>2, <2>3 DEF Other, Living
<1> QED
  BY <1>3, <1>5 DEF Exclusive, Engaged

LEMMA HoldDaemonExclusive ==
  ASSUME TypeOK, Exclusive, NEW p \in Stacks, HoldDaemon(p)
  PROVE  Exclusive'
<1>1. /\ proc[p] = "daemon claim" /\ Claim(p, "listener", "listener claim")
      /\ pidfile' = [pidfile EXCEPT !["daemon"] = p]
  BY DEF HoldDaemon
<1>2. SUFFICES ASSUME ~raced, ~raced' PROVE Exclusive'
  BY <1>1 DEF Exclusive, Claim
<1>3. /\ proc'[p] = "listener claim"
      /\ \A q \in Stacks \ {p} : proc'[q] \in {proc[q], "gone"}
  BY <1>1, ClaimEffect DEF Files
<1>4. \A q \in Stacks \ {p} : ~Engaged(q)
  BY <1>1, <1>2 DEF Exclusive, Engaged
<1>5. \A q \in Stacks \ {p} : ~Engaged(q)'
  BY <1>3, <1>4 DEF Engaged
<1>6. pidfile'["daemon"] = p
  BY <1>1 DEF TypeOK, Files
<1> QED
  BY <1>3, <1>5, <1>6 DEF Exclusive, Engaged

LEMMA HoldListenerExclusive ==
  ASSUME TypeOK, Exclusive, NEW p \in Stacks, HoldListener(p)
  PROVE  Exclusive'
<1>1. /\ proc[p] = "listener claim" /\ proc' = [proc EXCEPT ![p] = "up"]
      /\ pidfile' = [pidfile EXCEPT !["listener"] = p] /\ raced' = raced
  BY DEF HoldListener
<1>2. SUFFICES ASSUME ~raced PROVE Exclusive'
  BY <1>1 DEF Exclusive
<1>3. pidfile["daemon"] = p /\ \A q \in Stacks \ {p} : ~Engaged(q)
  BY <1>1, <1>2 DEF Exclusive, Engaged
<1>4. pidfile'["daemon"] = p /\ pidfile'["listener"] = p
  BY <1>1, <1>3 DEF TypeOK, Files
<1>5. proc'[p] = "up" /\ \A q \in Stacks \ {p} : proc'[q] = proc[q]
  BY <1>1 DEF TypeOK
<1> QED
  BY <1>3, <1>4, <1>5 DEF Exclusive, Engaged

\* A stack that ends takes no pid file with it but its own.
LEMMA EndsExclusive ==
  ASSUME TypeOK, Exclusive, NEW p \in Stacks, Exit(p) \/ Crash(p) \/ StepAside(p)
  PROVE  Exclusive'
<1>1. Kill({p}) /\ raced' = raced
  BY DEF Exit, Crash, StepAside
<1>2. SUFFICES ASSUME ~raced PROVE Exclusive'
  BY <1>1 DEF Exclusive
<1>3. ~Engaged(p)' /\ \A q \in Stacks \ {p} : proc'[q] = proc[q]
  BY <1>1 DEF Kill, Living, Engaged
<1>4. ASSUME NEW q \in Stacks \ {p}, NEW f \in Files, pidfile[f] = q, Engaged(q)
      PROVE  pidfile'[f] = q
  BY <1>2, <1>4 DEF Exit, Crash, StepAside, Unlisted, Exclusive, Engaged, diskVars
<1>5. "daemon" \in Files /\ "listener" \in Files
  BY DEF Files
<1> QED
  BY <1>2, <1>3, <1>4, <1>5 DEF Exclusive, Engaged

LEMMA ExclusiveNext == TypeOK /\ Exclusive /\ [Next]_vars => Exclusive'
<1> SUFFICES ASSUME TypeOK, Exclusive, [Next]_vars PROVE Exclusive'
  OBVIOUS
<1>1. CASE UNCHANGED <<proc, pidfile, raced>>
  BY <1>1 DEF Exclusive, Engaged
<1>2. ASSUME NEW s \in Supervisors, Sweep(s), raced' = raced PROVE Exclusive'
  <2>1. {pidfile[f] : f \in Files} \ {None} \subseteq Known \cup {held[s]}
    BY DEF Known, Files
  <2> QED
    BY <1>2, <2>1, SweptExclusive DEF Sweep
<1>3. ASSUME NEW s \in Supervisors,
             \/ Invite(s) \/ InviteSweeps(s) \/ Register(s) \/ Mark(s) \/ InviteFails(s)
             \/ Uninvite(s) \/ Uninvited(s) \/ Kick(s) \/ KickStopped(s) \/ Kicked(s)
             \/ Quit(s) \/ QuitDone(s) \/ Die(s) \/ Restart(s)
      PROVE  Exclusive'
  <2>1. CASE Invite(s) \/ Uninvite(s) \/ Kick(s)
    BY <2>1, <1>2 DEF Invite, Uninvite, Kick, Stop, StopAgent
  <2>2. CASE InviteSweeps(s)
    BY <2>2, SweptExclusive DEF InviteSweeps
  <2>3. CASE Quit(s)
    BY <2>3, <1>1, <1>2 DEF Quit, StopAgent
  <2>4. CASE \/ Register(s) \/ Mark(s) \/ InviteFails(s) \/ Uninvited(s) \/ KickStopped(s)
             \/ Kicked(s) \/ QuitDone(s) \/ Die(s) \/ Restart(s)
    BY <2>4, <1>1 DEF Register, Mark, InviteFails, Uninvited, KickStopped, Kicked, QuitDone, Die,
                      Restart, stackVars, diskVars
  <2> QED
    BY <1>3, <2>1, <2>2, <2>3, <2>4
<1>4. ASSUME NEW s \in Supervisors, NEW p \in Pids, Spawn(s, p) PROVE Exclusive'
  <2>1. \A q \in Stacks : Engaged(q)' => proc'[q] = proc[q]
    BY <1>4 DEF Spawn, TypeOK, Engaged
  <2> QED
    BY <1>4, <2>1 DEF Spawn, Exclusive, Engaged
<1>5. ASSUME NEW t \in Tasks, StartTask(t) PROVE Exclusive'
  <2>1. \A q \in Stacks : Engaged(q)' => proc'[q] = proc[q]
    BY <1>5 DEF StartTask, TypeOK, Engaged
  <2> QED
    BY <1>5, <2>1 DEF StartTask, Exclusive, Engaged, diskVars
<1>6. ASSUME NEW t \in Tasks, StepAside(t) PROVE Exclusive'
  BY <1>6, EndsExclusive DEF Stacks
<1>7. ASSUME NEW p \in Stacks, Boot(p) \/ Exit(p) \/ Crash(p) PROVE Exclusive'
  BY <1>7, ClaimDaemonExclusive, HoldDaemonExclusive, HoldListenerExclusive, EndsExclusive DEF Boot
<1>8. ASSUME NEW s \in Chats, NEW p \in Pids, ChildExit(s, p) PROVE Exclusive'
  BY <1>8, <1>1 DEF ChildExit
<1>9. CASE UNCHANGED vars
  BY <1>1, <1>9 DEF vars, stackVars, diskVars
<1> QED
  BY <1>3, <1>4, <1>5, <1>6, <1>7, <1>8, <1>9 DEF Next

-----------------------------------------------------------------------------
(* The stacks of a chat                                                    *)

\* Who does not spawn brings no stack to life, and who kills by name kills it.
LEMMA KillLiving ==
  ASSUME NEW ps, Kill(ps)
  PROVE  \A p \in Stacks : Living(p)' => Living(p) /\ p \notin ps
BY DEF Kill, Living

LEMMA BootLiving ==
  ASSUME TypeOK, NEW p \in Stacks, Boot(p)
  PROVE  \A q \in Stacks : Living(q)' => Living(q)
<1>1. CASE ClaimDaemon(p)
  <2>1. proc[p] = "spawned"
    BY <1>1 DEF ClaimDaemon
  <2>2. \A q \in Stacks \ {p} : proc'[q] \in {proc[q], "gone"}
    BY <1>1, ClaimEffect DEF ClaimDaemon, Files
  <2> QED
    BY <2>1, <2>2 DEF Living
<1>2. CASE HoldDaemon(p)
  <2>1. proc[p] = "daemon claim"
    BY <1>2 DEF HoldDaemon
  <2>2. \A q \in Stacks \ {p} : proc'[q] \in {proc[q], "gone"}
    BY <1>2, ClaimEffect DEF HoldDaemon, Files
  <2> QED
    BY <2>1, <2>2 DEF Living
<1>3. CASE HoldListener(p)
  BY <1>3 DEF HoldListener, Living, TypeOK
<1> QED
  BY <1>1, <1>2, <1>3 DEF Boot

LEMMA SpawnEffect ==
  ASSUME TypeOK, NEW s \in Supervisors, NEW p \in Pids, Spawn(s, p)
  PROVE  /\ held'[s] = p /\ parent'[p] = s /\ pc'[s] = "registering"
         /\ \A t \in Supervisors \ {s} : held'[t] = held[t] /\ pc'[t] = pc[t]
         /\ \A q \in Stacks \ {p} : parent'[q] = parent[q] /\ proc'[q] = proc[q]
BY DEF Spawn, Entered, TypeOK, Stacks

LEMMA HeldNext == TypeOK /\ Held /\ [Next]_vars => Held'
<1> SUFFICES ASSUME TypeOK, Held, [Next]_vars,
                    NEW c \in Chats, NEW p \in Pids, parent'[p] = c, Living(p)'
             PROVE  held'[c] = p /\ pc'[c] \notin {"stopping", "sweeping", "quit", "died"}
  BY DEF Held
<1>0. p \in Stacks /\ c \in Supervisors /\ c \notin Admins /\ c # None /\ p # None
  BY StackAssumption, SupervisorAssumption DEF Stacks, Supervisors
<1>1. CASE (Living(p)' => Living(p)) /\ parent' = parent /\ UNCHANGED <<held, pc>>
  BY <1>1 DEF Held
<1>2. ASSUME NEW t \in Tasks, StartTask(t) \/ StepAside(t)
      PROVE  held'[c] = p /\ pc'[c] \notin {"stopping", "sweeping", "quit", "died"}
  <2>1. p # t
    BY StackAssumption, <1>2
  <2>2. CASE StartTask(t)
    BY <1>0, <1>1, <2>1, <2>2 DEF StartTask, TypeOK, Living, callVars
  <2>3. CASE StepAside(t)
    BY <1>0, <1>1, <2>3, KillLiving DEF StepAside, callVars
  <2> QED
    BY <1>2, <2>2, <2>3
<1>3. ASSUME NEW q \in Stacks, Boot(q) \/ Exit(q) \/ Crash(q)
      PROVE  held'[c] = p /\ pc'[c] \notin {"stopping", "sweeping", "quit", "died"}
  <2>1. CASE Boot(q)
    <3>1. parent' = parent /\ UNCHANGED <<held, pc>>
      BY <2>1 DEF Boot, ClaimDaemon, HoldDaemon, HoldListener, Claim, callVars
    <3> QED
      BY <1>0, <1>1, <2>1, <3>1, BootLiving
  <2>2. CASE Exit(q) \/ Crash(q)
    BY <1>0, <1>1, <2>2, KillLiving DEF Exit, Crash, callVars
  <2> QED
    BY <1>3, <2>1, <2>2
<1>4. ASSUME NEW s \in Supervisors, NEW q \in Pids, Spawn(s, q)
      PROVE  held'[c] = p /\ pc'[c] \notin {"stopping", "sweeping", "quit", "died"}
  <2>1. CASE p = q
    BY <1>0, <1>4, <2>1, SpawnEffect
  <2>2. CASE p # q
    <3>1. parent[p] = c /\ Living(p)
      BY <1>0, <1>4, <2>2, SpawnEffect DEF Living
    <3>2. c # s
      BY <1>4, <3>1 DEF Held, Spawn
    <3> QED
      BY <1>0, <1>4, <3>1, <3>2, SpawnEffect DEF Held
  <2> QED
    BY <2>1, <2>2
<1>5. ASSUME NEW s \in Supervisors,
             \/ Invite(s) \/ InviteSweeps(s) \/ Register(s) \/ Mark(s) \/ InviteFails(s)
             \/ Uninvite(s) \/ Uninvited(s) \/ Kick(s) \/ KickStopped(s) \/ Kicked(s)
             \/ Quit(s) \/ QuitDone(s)
      PROVE  held'[c] = p /\ pc'[c] \notin {"stopping", "sweeping", "quit", "died"}
  <2>1. parent' = parent
    BY <1>5 DEF Invite, InviteSweeps, Register, Mark, InviteFails, Uninvite, Uninvited, Kick,
                KickStopped, Kicked, Quit, QuitDone, Stop, stackVars
  <2>2. Living(p)' => Living(p)
    BY <1>0, <1>5, KillLiving
       DEF Invite, InviteSweeps, Register, Mark, InviteFails, Uninvite, Uninvited, Kick,
           KickStopped, Kicked, Quit, QuitDone, Stop, StopAgent, Sweep, stackVars, Living
  <2>3. held[c] = p /\ pc[c] \notin {"stopping", "sweeping", "quit", "died"}
    BY <2>1, <2>2 DEF Held
  <2>4. CASE c # s
    BY <1>0, <1>5, <2>3, <2>4
       DEF Invite, InviteSweeps, Register, Mark, InviteFails, Uninvite, Uninvited, Kick,
           KickStopped, Kicked, Quit, QuitDone, Stop, StopAgent, Return, TypeOK
  <2>5. ASSUME c = s, StopAgent(s) PROVE FALSE
    <3>1. p \in Known \cup {held[s]}
      BY <2>3, <2>5
    <3> QED
      BY <1>0, <2>5, <3>1, KillLiving DEF StopAgent, Sweep
  <2>6. CASE c = s /\ (Invite(s) \/ Uninvite(s) \/ Kick(s) \/ Quit(s))
    BY <1>0, <2>3, <2>5, <2>6 DEF Invite, Uninvite, Kick, Stop, Quit
  <2>7. CASE c = s /\ (InviteSweeps(s) \/ Uninvited(s) \/ KickStopped(s) \/ QuitDone(s))
    BY <2>3, <2>7 DEF InviteSweeps, Uninvited, KickStopped, QuitDone
  <2>8. CASE c = s /\ (Register(s) \/ Mark(s) \/ InviteFails(s) \/ Kicked(s))
    BY <1>0, <2>3, <2>8 DEF Register, Mark, InviteFails, Kicked, Return, TypeOK
  <2> QED
    BY <1>5, <2>4, <2>6, <2>7, <2>8
<1>6. ASSUME NEW s \in Supervisors, Die(s) \/ Restart(s)
      PROVE  held'[c] = p /\ pc'[c] \notin {"stopping", "sweeping", "quit", "died"}
  <2>1. parent' = [q \in Stacks |-> IF parent[q] = s THEN None ELSE parent[q]] /\ proc' = proc
    BY <1>6 DEF Die, Restart
  <2>2. c # s /\ parent[p] = c /\ Living(p)
    BY <1>0, <2>1 DEF Living
  <2>3. held[c] = p /\ pc[c] \notin {"stopping", "sweeping", "quit", "died"}
    BY <2>2 DEF Held
  <2> QED
    BY <1>0, <1>6, <2>2, <2>3 DEF Die, Restart, Return, TypeOK
<1>7. ASSUME NEW s \in Chats, NEW q \in Pids, ChildExit(s, q)
      PROVE  held'[c] = p /\ pc'[c] \notin {"stopping", "sweeping", "quit", "died"}
  BY <1>1, <1>7 DEF ChildExit, callVars, Living
<1>8. CASE UNCHANGED vars
  BY <1>1, <1>8 DEF vars, stackVars, callVars, Living
<1> QED
  BY <1>2, <1>3, <1>4, <1>5, <1>6, <1>7, <1>8 DEF Next

-----------------------------------------------------------------------------
(* The marker                                                              *)

CallStep(s) ==
  \/ Invite(s) \/ InviteSweeps(s) \/ Register(s) \/ Mark(s) \/ InviteFails(s)
  \/ Uninvite(s) \/ Uninvited(s) \/ Kick(s) \/ KickStopped(s) \/ Kicked(s)
  \/ Quit(s) \/ QuitDone(s)

LEMMA NeverNew ==
  ASSUME TypeOK, [Next]_vars, NEW p \in Stacks, proc[p] # "new"
  PROVE  proc'[p] # "new"
<1>1. ASSUME NEW ps, Kill(ps) PROVE proc'[p] # "new"
  BY <1>1 DEF Kill
<1>2. ASSUME NEW q \in Stacks, Boot(q) PROVE proc'[p] # "new"
  <2>1. ASSUME NEW f \in Files, NEW st \in {"daemon claim", "listener claim"}, Claim(q, f, st)
        PROVE  proc'[p] # "new"
    BY <2>1, ClaimEffect
  <2>2. "daemon" \in Files /\ "listener" \in Files
    BY DEF Files
  <2> QED
    BY <1>2, <2>1, <2>2 DEF Boot, ClaimDaemon, HoldDaemon, HoldListener, TypeOK
<1>3. ASSUME NEW s \in Supervisors, CallStep(s) PROVE proc'[p] # "new"
  BY <1>1, <1>3 DEF CallStep, Invite, InviteSweeps, Register, Mark, InviteFails, Uninvite, Uninvited,
                    Kick, KickStopped, Kicked, Quit, QuitDone, Stop, StopAgent, Sweep, stackVars
<1>4. ASSUME NEW s \in Supervisors, NEW q \in Pids, Spawn(s, q) PROVE proc'[p] # "new"
  BY <1>4 DEF Spawn, TypeOK
<1>5. ASSUME NEW t \in Tasks, StartTask(t) \/ StepAside(t) PROVE proc'[p] # "new"
  BY <1>1, <1>5 DEF StartTask, StepAside, TypeOK
<1>6. ASSUME NEW q \in Stacks, Exit(q) \/ Crash(q) PROVE proc'[p] # "new"
  BY <1>1, <1>6 DEF Exit, Crash
<1>7. CASE \/ \E s \in Supervisors : Die(s) \/ Restart(s)
           \/ \E s \in Chats, q \in Pids : ChildExit(s, q)
           \/ UNCHANGED vars
  BY <1>7 DEF Die, Restart, ChildExit, vars, stackVars
<1> QED
  BY <1>2, <1>3, <1>4, <1>5, <1>6, <1>7 DEF Next, CallStep

LEMMA SpawnedNext == TypeOK /\ Entering /\ Spawned /\ [Next]_vars => Spawned'
<1> SUFFICES ASSUME TypeOK, Entering, Spawned, [Next]_vars PROVE Spawned'
  OBVIOUS
<1>1. \A p \in Stacks : proc[p] # "new" => proc'[p] # "new"
  BY NeverNew
<1>2. Pids \subseteq Stacks /\ None \notin Pids
  BY StackAssumption DEF Stacks
<1>3. CASE /\ \A s \in Supervisors : held'[s] \in {held[s], None}
           /\ \A p \in marked' : p \in marked \/ \E s \in Supervisors : p = held[s] /\ p \in Pids
  BY <1>1, <1>2, <1>3 DEF Spawned, TypeOK
<1>4. ASSUME NEW s \in Supervisors, CallStep(s) PROVE Spawned'
  <2>1. \A t \in Supervisors : held'[t] \in {held[t], None}
    BY <1>4 DEF CallStep, Invite, InviteSweeps, Register, Mark, InviteFails, Uninvite, Uninvited,
                Kick, KickStopped, Kicked, Quit, QuitDone, Stop, StopAgent, Return, TypeOK
  <2>2. marked' = marked \/ (marked' = marked \cup {held[s]} /\ held[s] \in Pids)
    BY <1>4 DEF CallStep, Invite, InviteSweeps, Register, Mark, InviteFails, Uninvite, Uninvited,
                Kick, KickStopped, Kicked, Quit, QuitDone, Stop, Entering
  <2> QED
    BY <1>3, <2>1, <2>2
<1>5. ASSUME NEW s \in Supervisors, NEW q \in Pids, Spawn(s, q) PROVE Spawned'
  <2>1. proc'[q] = "spawned" /\ \A t \in Supervisors : held'[t] \in {held[t], q}
    BY <1>2, <1>5 DEF Spawn, Entered, TypeOK
  <2> QED
    BY <1>1, <1>2, <1>5, <2>1 DEF Spawned, Spawn, TypeOK
<1>6. ASSUME NEW s \in Supervisors, Die(s) \/ Restart(s) PROVE Spawned'
  BY <1>3, <1>6 DEF Die, Restart, Return, TypeOK
<1>7. CASE \/ \E t \in Tasks : StartTask(t) \/ StepAside(t)
           \/ \E p \in Stacks : Boot(p) \/ Exit(p) \/ Crash(p)
           \/ \E s \in Chats, p \in Pids : ChildExit(s, p)
           \/ UNCHANGED vars
  <2>1. held' = held /\ marked' = marked
    BY <1>7 DEF StartTask, StepAside, Boot, ClaimDaemon, HoldDaemon, HoldListener, Claim, Exit,
                Crash, ChildExit, vars, callVars
  <2> QED
    BY <1>3, <2>1
<1> QED
  BY <1>4, <1>5, <1>6, <1>7 DEF Next, CallStep

\* A command that begins in nobody's way finds every invited stack and kills it.
LEMMA SweepsAll ==
  ASSUME TypeOK, Held, NEW s \in Supervisors, Sweep(s), ~Clash(s)
  PROVE  \A p \in Pids : ~Living(p)'
<1> SUFFICES ASSUME NEW p \in Pids, Living(p)' PROVE FALSE
  OBVIOUS
<1>1. p \in Stacks /\ Living(p) /\ p \notin Known \cup {held[s]}
  BY KillLiving DEF Sweep, Stacks
<1>2. s \in Chats /\ parent[p] = s
  BY <1>1 DEF Clash
<1> QED
  BY <1>1, <1>2 DEF Held

\* What keeps the marks: fewer lives, and the same supervisors at the same places.
LEMMA SameOrder ==
  ASSUME Orderly, \A p \in Pids : Living(p)' => Living(p), marked \subseteq Pids,
         UNCHANGED <<pc, held, marker, presence, marked, clash>>
  PROVE  Orderly'
BY DEF Orderly, OneAtWork, Quiet, Seated, Marks, Busy, Off

LEMMA CallOrderly ==
  ASSUME TypeOK, Entering, Held, Orderly, NEW s \in Supervisors, CallStep(s)
  PROVE  Orderly'
<1> SUFFICES ASSUME ~clash' PROVE Orderly'
  BY DEF Orderly
<1>1. ~clash
  BY DEF CallStep, Invite, InviteSweeps, Register, Mark, InviteFails, Uninvite, Uninvited, Kick,
         KickStopped, Kicked, Quit, QuitDone, Stop, Begin, Clash
<1>2. OneAtWork /\ Quiet /\ Seated /\ Marks
  BY <1>1 DEF Orderly
<1>3. \A t \in Supervisors \ {s} : ~Busy(t) /\ pc'[t] = pc[t] /\ ~Busy(t)'
  <2>1. \A t \in Supervisors \ {s} : ~Busy(t)
    <3>1. CASE Invite(s) \/ Uninvite(s) \/ Kick(s) \/ Quit(s)
      BY <3>1 DEF Invite, Uninvite, Kick, Stop, Begin, Quit, Clash, Busy
    <3>2. CASE ~(Invite(s) \/ Uninvite(s) \/ Kick(s) \/ Quit(s))
      <4>1. Busy(s)
        BY <3>2 DEF CallStep, InviteSweeps, Register, Mark, InviteFails, Uninvited, KickStopped,
                    Kicked, QuitDone, Busy, Off
      <4> QED
        BY <1>2, <4>1 DEF OneAtWork
    <3> QED
      BY <3>1, <3>2
  <2>2. \A t \in Supervisors \ {s} : pc'[t] = pc[t]
    BY DEF CallStep, Invite, InviteSweeps, Register, Mark, InviteFails, Uninvite, Uninvited, Kick,
           KickStopped, Kicked, Quit, QuitDone, Stop, Return, TypeOK
  <2> QED
    BY <2>1, <2>2 DEF Busy, Off
<1>4. OneAtWork'
  BY <1>3 DEF OneAtWork
<1>5. \A t \in Supervisors \ {s} :
        pc'[t] \notin {"stopping", "sweeping", "registering", "seating", "striking"}
  BY <1>3 DEF Busy, Off
<1>6. ASSUME \A p \in Pids : ~Living(p)', pc'[s] # "seating" PROVE Orderly'
  <2>1. marked' = marked \/ pc[s] = "seating"
    BY DEF CallStep, Invite, InviteSweeps, Register, Mark, InviteFails, Uninvite, Uninvited, Kick,
           KickStopped, Kicked, Quit, QuitDone, Stop
  <2>2. marked' \subseteq Pids
    BY DEF CallStep, Invite, InviteSweeps, Register, Mark, InviteFails, Uninvite, Uninvited, Kick,
           KickStopped, Kicked, Quit, QuitDone, Stop, TypeOK, Entering
  <2> QED
    BY <1>4, <1>5, <1>6, <2>2 DEF Orderly, Quiet, Seated, Marks
<1>7. CASE Invite(s) \/ Uninvite(s) \/ Kick(s) \/ (Quit(s) /\ held[s] # None)
  <2>1. Sweep(s) /\ ~Clash(s) /\ pc'[s] # "seating"
    BY <1>7 DEF Invite, Uninvite, Kick, Stop, StopAgent, Begin, Quit, TypeOK
  <2> QED
    BY <1>6, <2>1, SweepsAll
<1>8. CASE InviteSweeps(s) \/ Uninvited(s) \/ KickStopped(s) \/ Kicked(s) \/ QuitDone(s)
  <2>1. \A p \in Pids : ~Living(p)
    BY <1>2, <1>8 DEF InviteSweeps, Uninvited, KickStopped, Kicked, QuitDone, Quiet
  <2>2. \A p \in Pids : Living(p)' => Living(p)
    BY <1>8, KillLiving DEF InviteSweeps, Uninvited, KickStopped, Kicked, QuitDone, stackVars,
                            Living, Stacks
  <2>3. pc'[s] # "seating"
    BY <1>8 DEF InviteSweeps, Uninvited, KickStopped, Kicked, QuitDone, Return, TypeOK
  <2> QED
    BY <1>6, <2>1, <2>2, <2>3
<1>9. CASE (Quit(s) /\ held[s] = None) \/ InviteFails(s)
  <2>1. UNCHANGED <<proc, marker, presence, marked>>
    BY <1>9 DEF Quit, InviteFails, stackVars, diskVars
  <2>2. pc'[s] \in {"quit", "idle"}
    BY <1>9 DEF Quit, InviteFails, Return, TypeOK
  <2> QED
    BY <1>2, <1>4, <1>5, <2>1, <2>2 DEF Orderly, Quiet, Seated, Marks, Living
<1>10. CASE Register(s)
  <2>1. UNCHANGED <<proc, marker, marked, held>> /\ presence' = presence \cup {"registered"}
    BY <1>10 DEF Register, stackVars
  <2>2. pc[s] = "registering" /\ pc'[s] = "seating"
    BY <1>10 DEF Register, TypeOK
  <2> QED
    BY <1>2, <1>4, <1>5, <2>1, <2>2 DEF Orderly, Quiet, Seated, Marks, Living
<1>11. CASE Mark(s)
  <2>1. /\ pc[s] = "seating" /\ marker' = held[s] /\ UNCHANGED <<proc, presence>>
        /\ marked' = marked \cup {held[s]} /\ marked' \subseteq Pids
    BY <1>11 DEF Mark, stackVars, Entering, TypeOK
  <2>2. pc'[s] = "idle"
    BY <1>11 DEF Mark, Return, TypeOK
  <2>3. \A p \in Pids : Living(p)' => p = held[s] /\ "registered" \in presence
    BY <1>2, <2>1 DEF Quiet, Seated, Living
  <2> QED
    BY <1>4, <1>5, <2>1, <2>2, <2>3 DEF Orderly, Quiet, Seated, Marks
<1> QED
  BY <1>7, <1>8, <1>9, <1>10, <1>11 DEF CallStep

LEMMA OrderlyNext == TypeOK /\ Entering /\ Held /\ Spawned /\ Orderly /\ [Next]_vars => Orderly'
<1> SUFFICES ASSUME TypeOK, Entering, Held, Spawned, Orderly, [Next]_vars PROVE Orderly'
  OBVIOUS
<1>0. Pids \subseteq Stacks /\ marked \subseteq Pids /\ None \notin Pids
  BY StackAssumption DEF Stacks, TypeOK
<1>1. ASSUME NEW s \in Supervisors, NEW q \in Pids, Spawn(s, q) PROVE Orderly'
  <2>1. SUFFICES ASSUME ~Clash(s) PROVE Orderly'
    BY <1>1 DEF Spawn, Orderly
  <2>2. OneAtWork /\ Quiet /\ Seated /\ Marks
    BY <2>1 DEF Clash, Orderly
  <2>3. \A p \in Pids \ {q} : ~Living(p)'
    <3>1. \A p \in Pids : ~Living(p)
      BY <1>1, <2>2 DEF Spawn, Quiet
    <3> QED
      BY <1>0, <1>1, <3>1, SpawnEffect DEF Living
  <2>4. \A t \in Supervisors \ {s} : ~Busy(t) /\ ~Busy(t)' /\ pc'[t] = pc[t]
    BY <1>1, <2>1, SpawnEffect DEF Clash, Busy, Off
  <2>5. \A t \in Supervisors \ {s} :
          pc'[t] \notin {"stopping", "sweeping", "registering", "seating", "striking"}
    BY <2>4 DEF Busy, Off
  <2>6. q \notin marked /\ marked' = marked
    BY <1>1 DEF Spawn, Spawned
  <2> QED
    BY <1>0, <1>1, <2>3, <2>4, <2>5, <2>6, SpawnEffect DEF Orderly, OneAtWork, Quiet, Seated, Marks
<1>2. ASSUME NEW s \in Supervisors, Die(s) \/ Restart(s) PROVE Orderly'
  <2>1. /\ pc'[s] \in {"idle", "died"}
        /\ \A t \in Supervisors \ {s} : pc'[t] = pc[t] /\ held'[t] = held[t]
    BY <1>2 DEF Die, Restart, Return, TypeOK
  <2>2. UNCHANGED <<proc, marker, presence, marked, clash>>
    BY <1>2 DEF Die, Restart, diskVars
  <2> QED
    BY <2>1, <2>2 DEF Orderly, OneAtWork, Quiet, Seated, Marks, Busy, Off, Living
<1>3. ASSUME NEW s \in Chats, NEW q \in Pids, ChildExit(s, q) PROVE Orderly'
  <2>1. SUFFICES ASSUME ~clash, ~(marker # None /\ Living(marker)) PROVE Orderly'
    BY <1>3 DEF ChildExit, Orderly
  <2>2. UNCHANGED <<proc, pc, held, presence, marked>>
    BY <1>3 DEF ChildExit, callVars
  <2>3. \A p \in marked : ~Living(p)
    BY <1>0, <2>1 DEF Orderly, Marks
  <2> QED
    BY <2>1, <2>2, <2>3 DEF Orderly, OneAtWork, Quiet, Seated, Marks, Busy, Off, Living
<1>4. ASSUME NEW t \in Tasks, StartTask(t) PROVE Orderly'
  <2>1. \A p \in Pids : proc'[p] = proc[p]
    BY <1>0, <1>4, StackAssumption DEF StartTask, TypeOK
  <2> QED
    BY <1>0, <1>4, <2>1, SameOrder DEF StartTask, diskVars, callVars, Living
<1>5. ASSUME NEW p \in Stacks, StepAside(p) \/ Exit(p) \/ Crash(p) PROVE Orderly'
  BY <1>0, <1>5, KillLiving, SameOrder DEF StepAside, Exit, Crash, callVars, diskVars
<1>6. ASSUME NEW p \in Stacks, Boot(p) PROVE Orderly'
  <2>1. UNCHANGED <<pc, held, marker, presence, marked, clash>>
    BY <1>6 DEF Boot, ClaimDaemon, HoldDaemon, HoldListener, Claim, callVars
  <2> QED
    BY <1>0, <1>6, <2>1, BootLiving, SameOrder
<1>7. CASE UNCHANGED vars
  BY <1>0, <1>7, SameOrder DEF vars, stackVars, diskVars, callVars, Living
<1>8. ASSUME NEW t \in Tasks, StepAside(t) PROVE Orderly'
  BY <1>5, <1>8 DEF Stacks
<1> QED
  BY <1>1, <1>2, <1>3, <1>4, <1>5, <1>6, <1>7, <1>8, CallOrderly DEF Next, CallStep

-----------------------------------------------------------------------------
(* The theorems                                                            *)

LEMMA IInvAlways == Spec => []IInv
<1>1. IInv /\ [Next]_vars => IInv'
  BY TypeNext, EnteringNext, ExclusiveNext, HeldNext, SpawnedNext, OrderlyNext DEF IInv
<1> QED
  BY <1>1, IInvInit, PTL DEF Spec

(* Whatever stacks are started, invited or by tasks, and whichever end,    *)
(* exit or are swept: one that is up owns both pid files, unless two       *)
(* claimed a pid file at a time (claimManagedHookPid).                     *)
THEOREM OneStackAlways == Spec => []OneStack
<1>1. IInv => OneStack
  BY DEF IInv, Exclusive, OneStack, Files
<1> QED
  BY <1>1, IInvAlways, PTL

(* Whatever runs of the chats and the CLI are at work on the agent: while  *)
(* a stack whose invitation was completed is up, the agent is registered   *)
(* and the marker names it, unless supervisors got in each other's way     *)
(* (doInviteAgent, onInviteChildExit).                                     *)
THEOREM MarkedAlways == Spec => []Marked
<1>1. IInv => Marked
  BY DEF IInv, Orderly, Marks, Marked, Living, TypeOK, Stacks
<1> QED
  BY <1>1, IInvAlways, PTL

LEMMA QuitKeepsParent ==
  ASSUME TypeOK, [Next]_vars, NEW c \in Chats, pc[c] # "quit", pc'[c] = "quit"
  PROVE  parent' = parent
<1>0. c \in Supervisors
  BY DEF Supervisors
<1>1. CASE pc' = pc
  BY <1>1
<1>2. ASSUME NEW s \in Supervisors,
             \/ Invite(s) \/ InviteSweeps(s) \/ Register(s) \/ Mark(s) \/ InviteFails(s)
             \/ Uninvite(s) \/ Uninvited(s) \/ Kick(s) \/ KickStopped(s) \/ Kicked(s)
             \/ Quit(s) \/ QuitDone(s)
      PROVE  parent' = parent
  BY <1>2 DEF Invite, InviteSweeps, Register, Mark, InviteFails, Uninvite, Uninvited, Kick,
              KickStopped, Kicked, Quit, QuitDone, Stop, stackVars
<1>3. ASSUME NEW s \in Supervisors,
             Die(s) \/ Restart(s) \/ \E p \in Pids : Spawn(s, p)
      PROVE  pc'[s] # "quit" /\ \A t \in Supervisors \ {s} : pc'[t] = pc[t]
  BY <1>3 DEF Die, Restart, Return, Spawn, TypeOK
<1>4. CASE \/ \E t \in Tasks : StartTask(t) \/ StepAside(t)
           \/ \E p \in Stacks : Boot(p) \/ Exit(p) \/ Crash(p)
           \/ \E s \in Chats, p \in Pids : ChildExit(s, p)
           \/ UNCHANGED vars
  BY <1>1, <1>4 DEF StartTask, StepAside, Boot, ClaimDaemon, HoldDaemon, HoldListener, Claim, Exit,
                    Crash, ChildExit, vars, callVars
<1> QED
  BY <1>0, <1>2, <1>3, <1>4 DEF Next

(* A chat that ends in good order leaves no stack of its own, whatever was *)
(* under way (shutdown, stopAll).                                          *)
THEOREM QuitLeavesNoneAlways == Spec => QuitLeavesNone
<1>1. IInv /\ IInv' /\ [Next]_vars =>
        [\A s \in Chats : pc[s] # "quit" /\ pc'[s] = "quit" =>
           \A p \in Pids : parent[p] = s => ~Living(p)']_vars
  BY QuitKeepsParent DEF IInv, Held
<1> QED
  BY <1>1, IInvAlways, PTL DEF Spec, QuitLeavesNone
=============================================================================
