---------------------------- MODULE Agents_proofs ----------------------------
(***************************************************************************)
(* What holds of the agents of the bus: of the transport marker of one of  *)
(* them (Transport), for any number of pushers, attaches, detaches and     *)
(* lists, and any age at which a marker is stale; and of the registry, the *)
(* rooms and the mail of all of them (Registry), for any number of ids,    *)
(* rooms and concurrent calls.                                             *)
(***************************************************************************)
EXTENDS Transport, Registry, FiniteSetTheorems, SequenceTheorems, TLAPS

-----------------------------------------------------------------------------
(* Transport: the inductive invariant                                      *)

\* Whatever a call has read or spawned was started once: it never serves again
\* when it is gone.
Started ==
  /\ marker \in Pushers => proc[marker] # "new"
  /\ \A c \in Attachers : aseen[c] \in Pushers => proc[aseen[c]] # "new"
  /\ \A c \in Attachers : apc[c] \in {"open", "store"} => proc[apid[c]] # "new"
  /\ \A d \in Detachers : dseen[d] \in Pushers => proc[dseen[d]] # "new"
  /\ \A l \in Listers : lseen[l] \in Pushers => proc[lseen[l]] # "new"

\* Only a remote pusher writes its marker in two steps.
LocalsRename == \A p \in Locals : proc[p] # "writing"

\* An attach that cleans up and a detach that unlinks a local marker have seen
\* to it that its pusher is down.
SeenDown ==
  /\ \A c \in Attachers : apc[c] = "clean" /\ aseen[c] \in Locals => ~Alive(aseen[c])
  /\ \A d \in Detachers : dpc[d] = "unlink" /\ dseen[d] \in Locals => ~Serves(dseen[d])

\* A remote pusher that is up beats in every period, and a list that has read
\* its marker has found it fresh.
Beats ==
  /\ \A p \in Remotes : Serves(p) => age <= 1
  /\ \A l \in Listers :
       lpc[l] = "sweep" /\ lseen[l] \in Remotes /\ Serves(lseen[l]) => lfresh[l]

\* The marker file is open and empty while one attach or one remote pusher is
\* between its opening and its writing, and never otherwise.
Storing(c) == apc[c] = "store"
Writing(p) == proc[p] = "writing"
OneWriter ==
  /\ marker = Torn <=> (\E c \in Attachers : Storing(c)) \/ (\E p \in Remotes : Writing(p))
  /\ \A c \in Attachers, p \in Remotes : ~(Storing(c) /\ Writing(p))
  /\ \A p, q \in Remotes : Writing(p) /\ Writing(q) => p = q

OneAttach == \A b, c \in Attachers : apc[b] # "idle" /\ apc[c] # "idle" => b = c

\* A local pusher that serves is the marker's, or that of the attach that has
\* yet to write the marker ...
Marked ==
  \A p \in Locals : Serves(p) =>
    \/ marker = p
    \/ \E c \in Attachers : apid[c] = p /\ apc[c] \in {"open", "store"}

\* ... and as long as an attach is at work no other one serves.
AttachAlone ==
  \A c \in Attachers, p \in Locals :
    apc[c] # "idle" /\ Serves(p) => apc[c] \in {"open", "store"} /\ apid[c] = p

\* A remote pusher that is up has the marker it reported.
Reports == \A p \in Remotes : proc[p] = "running" => marker = p

Tidy == OneWriter /\ OneAttach /\ Marked /\ AttachAlone /\ Reports

IInv == TypeOK /\ Started /\ LocalsRename /\ SeenDown /\ Beats /\ (foul \/ Tidy)

LEMMA IInvInit == Init => IInv
<1> SUFFICES ASSUME Init PROVE IInv
  OBVIOUS
<1> USE DEF Init, Pushers, attachVars, detachVars, listVars
<1>1. TypeOK
  <2>1. age \in 0..StaleAge
    BY AgeAssumption
  <2>2. lfresh \in [Listers -> BOOLEAN] /\ foul \in BOOLEAN
    OBVIOUS
  <2> QED
    BY <2>1, <2>2 DEF TypeOK
<1>2. Started /\ LocalsRename /\ SeenDown /\ Beats
  BY MarkerAssumption DEF Started, LocalsRename, SeenDown, Beats, Serves, Alive
<1>3. Tidy
  BY MarkerAssumption
  DEF Tidy, OneWriter, Storing, Writing, OneAttach, Marked, AttachAlone, Reports, Serves
<1> QED
  BY <1>1, <1>2, <1>3 DEF IInv

LEMMA AttachCheckKeeps == ASSUME IInv, NEW c \in Attachers, AttachCheck(c) PROVE IInv'
<1> USE AgeAssumption, MarkerAssumption, PusherAssumption
    DEF IInv, TypeOK, Pushers, AttachCheck, attachVars, detachVars, listVars, Serves, Alive,
        Signalled, Unlink, Dismiss, Replace, Written, InUse, Attaching, AttachEnds,
        ListEnds, IsMarkerLive
<1>1. TypeOK'
  OBVIOUS
<1>2. Started'
  BY DEF Started
<1>3. LocalsRename'
  BY DEF LocalsRename
<1>4. SeenDown'
  BY DEF SeenDown, Started
<1>5. Beats'
  BY DEF Beats, Started
<1>6. ASSUME ~foul' PROVE Tidy'
  <2> USE <1>6 DEF Tidy
  <2>1. OneWriter'
    BY DEF OneWriter, Storing, Writing, OneAttach
  <2>2. OneAttach'
    BY DEF OneAttach
  <2>3. Marked'
    BY DEF Marked, AttachAlone, OneAttach, OneWriter, Storing, Started, LocalsRename, SeenDown
  <2>4. AttachAlone'
    BY ZenonT(30) DEF AttachAlone, Marked, OneAttach, Started, SeenDown
  <2>5. Reports'
    BY DEF Reports, OneWriter, Writing, Started, Beats
  <2> QED
    BY <2>1, <2>2, <2>3, <2>4, <2>5
<1> QED
  BY <1>1, <1>2, <1>3, <1>4, <1>5, <1>6

LEMMA AttachCleanKeeps == ASSUME IInv, NEW c \in Attachers, AttachClean(c) PROVE IInv'
<1> USE AgeAssumption, MarkerAssumption, PusherAssumption
    DEF IInv, TypeOK, Pushers, AttachClean, attachVars, detachVars, listVars, Serves, Alive,
        Signalled, Unlink, Dismiss, Replace, Written, InUse, Attaching, AttachEnds,
        ListEnds, IsMarkerLive
<1>1. TypeOK'
  OBVIOUS
<1>2. Started'
  BY DEF Started
<1>3. LocalsRename'
  BY DEF LocalsRename
<1>4. SeenDown'
  BY DEF SeenDown, Started
<1>5. Beats'
  BY DEF Beats, Started
<1>6. ASSUME ~foul' PROVE Tidy'
  <2> USE <1>6 DEF Tidy
  <2>1. OneWriter'
    BY DEF OneWriter, Storing, Writing, OneAttach
  <2>2. OneAttach'
    BY DEF OneAttach
  <2>3. Marked'
    BY DEF Marked, AttachAlone, OneAttach, OneWriter, Storing, Started, LocalsRename, SeenDown
  <2>4. AttachAlone'
    BY DEF AttachAlone, Marked, OneAttach, Started, SeenDown
  <2>5. Reports'
    BY DEF Reports, OneWriter, Writing, Started, Beats
  <2> QED
    BY <2>1, <2>2, <2>3, <2>4, <2>5
<1> QED
  BY <1>1, <1>2, <1>3, <1>4, <1>5, <1>6

LEMMA AttachSpawnKeeps == ASSUME IInv, NEW c \in Attachers, NEW p \in Locals, AttachSpawn(c, p) PROVE IInv'
<1> USE AgeAssumption, MarkerAssumption, PusherAssumption
    DEF IInv, TypeOK, Pushers, AttachSpawn, attachVars, detachVars, listVars, Serves, Alive,
        Signalled, Unlink, Dismiss, Replace, Written, InUse, Attaching, AttachEnds,
        ListEnds, IsMarkerLive
<1>1. TypeOK'
  OBVIOUS
<1>2. Started'
  BY DEF Started
<1>3. LocalsRename'
  BY DEF LocalsRename
<1>4. SeenDown'
  BY DEF SeenDown, Started
<1>5. Beats'
  BY DEF Beats, Started
<1>6. ASSUME ~foul' PROVE Tidy'
  <2> USE <1>6 DEF Tidy
  <2>1. OneWriter'
    BY DEF OneWriter, Storing, Writing, OneAttach
  <2>2. OneAttach'
    BY DEF OneAttach
  <2>3. Marked'
    BY DEF Marked, AttachAlone, OneAttach, OneWriter, Storing, Started, LocalsRename, SeenDown
  <2>4. AttachAlone'
    BY DEF AttachAlone, Marked, OneAttach, Started, SeenDown
  <2>5. Reports'
    BY DEF Reports, OneWriter, Writing, Started, Beats
  <2> QED
    BY <2>1, <2>2, <2>3, <2>4, <2>5
<1> QED
  BY <1>1, <1>2, <1>3, <1>4, <1>5, <1>6

LEMMA AttachOpenKeeps == ASSUME IInv, NEW c \in Attachers, AttachOpen(c) PROVE IInv'
<1> USE AgeAssumption, MarkerAssumption, PusherAssumption
    DEF IInv, TypeOK, Pushers, AttachOpen, attachVars, detachVars, listVars, Serves, Alive,
        Signalled, Unlink, Dismiss, Replace, Written, InUse, Attaching, AttachEnds,
        ListEnds, IsMarkerLive
<1>1. TypeOK'
  OBVIOUS
<1>2. Started'
  BY DEF Started
<1>3. LocalsRename'
  BY DEF LocalsRename
<1>4. SeenDown'
  BY DEF SeenDown, Started
<1>5. Beats'
  BY DEF Beats, Started
<1>6. ASSUME ~foul' PROVE Tidy'
  <2> USE <1>6 DEF Tidy
  <2>1. OneWriter'
    BY DEF OneWriter, Storing, Writing, OneAttach
  <2>2. OneAttach'
    BY DEF OneAttach
  <2>3. Marked'
    BY DEF Marked, AttachAlone, OneAttach, OneWriter, Storing, Started, LocalsRename, SeenDown
  <2>4. AttachAlone'
    BY DEF AttachAlone, Marked, OneAttach, Started, SeenDown
  <2>5. Reports'
    <3> SUFFICES ASSUME NEW p \in Remotes, proc[p] = "running"  PROVE FALSE
      BY DEF Reports
    <3>1. marker = p
      BY DEF Reports
    <3>2. apid[c] # p
      OBVIOUS
    <3> QED
      BY <3>1, <3>2
  <2> QED
    BY <2>1, <2>2, <2>3, <2>4, <2>5
<1> QED
  BY <1>1, <1>2, <1>3, <1>4, <1>5, <1>6

LEMMA AttachStoreKeeps == ASSUME IInv, NEW c \in Attachers, AttachStore(c) PROVE IInv'
<1> USE AgeAssumption, MarkerAssumption, PusherAssumption
    DEF IInv, TypeOK, Pushers, AttachStore, attachVars, detachVars, listVars, Serves, Alive,
        Signalled, Unlink, Dismiss, Replace, Written, InUse, Attaching, AttachEnds,
        ListEnds, IsMarkerLive
<1>1. TypeOK'
  OBVIOUS
<1>2. Started'
  BY DEF Started
<1>3. LocalsRename'
  BY DEF LocalsRename
<1>4. SeenDown'
  BY DEF SeenDown, Started
<1>5. Beats'
  BY DEF Beats, Started
<1>6. ASSUME ~foul' PROVE Tidy'
  <2> USE <1>6 DEF Tidy
  <2>1. OneWriter'
    BY DEF OneWriter, Storing, Writing, OneAttach
  <2>2. OneAttach'
    BY DEF OneAttach
  <2>3. Marked'
    BY DEF Marked, AttachAlone, OneAttach, OneWriter, Storing, Started, LocalsRename, SeenDown
  <2>4. AttachAlone'
    BY DEF AttachAlone, Marked, OneAttach, Started, SeenDown
  <2>5. Reports'
    BY DEF Reports, OneWriter, Writing, Started, Beats
  <2> QED
    BY <2>1, <2>2, <2>3, <2>4, <2>5
<1> QED
  BY <1>1, <1>2, <1>3, <1>4, <1>5, <1>6

LEMMA PublishKeeps == ASSUME IInv, NEW p \in Pushers, Publish(p) PROVE IInv'
<1> USE AgeAssumption, MarkerAssumption, PusherAssumption
    DEF IInv, TypeOK, Pushers, Publish, attachVars, detachVars, listVars, Serves, Alive,
        Signalled, Unlink, Dismiss, Replace, Written, InUse, Attaching, AttachEnds,
        ListEnds, IsMarkerLive
<1>1. TypeOK'
  OBVIOUS
<1>2. Started'
  BY DEF Started
<1>3. LocalsRename'
  BY DEF LocalsRename
<1>4. SeenDown'
  BY DEF SeenDown, Started
<1>5. Beats'
  BY DEF Beats, Started
<1>6. ASSUME ~foul' PROVE Tidy'
  <2> USE <1>6 DEF Tidy
  <2>1. OneWriter'
    BY DEF OneWriter, Storing, Writing, OneAttach
  <2>2. OneAttach'
    BY DEF OneAttach
  <2>3. Marked'
    BY DEF Marked, AttachAlone, OneAttach, OneWriter, Storing, Started, LocalsRename, SeenDown
  <2>4. AttachAlone'
    BY DEF AttachAlone, Marked, OneAttach, Started, SeenDown
  <2>5. Reports'
    BY DEF Reports, OneWriter, Writing, Started, Beats
  <2> QED
    BY <2>1, <2>2, <2>3, <2>4, <2>5
<1> QED
  BY <1>1, <1>2, <1>3, <1>4, <1>5, <1>6

LEMMA RegisterRemoteKeeps == ASSUME IInv, NEW p \in Pushers, RegisterRemote(p) PROVE IInv'
<1> USE AgeAssumption, MarkerAssumption, PusherAssumption
    DEF IInv, TypeOK, Pushers, RegisterRemote, attachVars, detachVars, listVars, Serves, Alive,
        Signalled, Unlink, Dismiss, Replace, Written, InUse, Attaching, AttachEnds,
        ListEnds, IsMarkerLive
<1>1. TypeOK'
  OBVIOUS
<1>2. Started'
  BY DEF Started
<1>3. LocalsRename'
  BY DEF LocalsRename
<1>4. SeenDown'
  BY DEF SeenDown, Started
<1>5. Beats'
  BY DEF Beats, Started
<1>6. ASSUME ~foul' PROVE Tidy'
  <2> USE <1>6 DEF Tidy
  <2>1. OneWriter'
    BY DEF OneWriter, Storing, Writing, OneAttach
  <2>2. OneAttach'
    BY DEF OneAttach
  <2>3. Marked'
    BY DEF Marked, AttachAlone, OneAttach, OneWriter, Storing, Started, LocalsRename, SeenDown
  <2>4. AttachAlone'
    BY DEF AttachAlone, Marked, OneAttach, Started, SeenDown
  <2>5. Reports'
    BY DEF Reports, OneWriter, Writing, Started, Beats
  <2> QED
    BY <2>1, <2>2, <2>3, <2>4, <2>5
<1> QED
  BY <1>1, <1>2, <1>3, <1>4, <1>5, <1>6

LEMMA ReportKeeps == ASSUME IInv, NEW p \in Pushers, Report(p) PROVE IInv'
<1> USE AgeAssumption, MarkerAssumption, PusherAssumption
    DEF IInv, TypeOK, Pushers, Report, attachVars, detachVars, listVars, Serves, Alive,
        Signalled, Unlink, Dismiss, Replace, Written, InUse, Attaching, AttachEnds,
        ListEnds, IsMarkerLive
<1>1. TypeOK'
  OBVIOUS
<1>2. Started'
  BY DEF Started
<1>3. LocalsRename'
  BY DEF LocalsRename
<1>4. SeenDown'
  BY DEF SeenDown, Started
<1>5. Beats'
  BY DEF Beats, Started
<1>6. ASSUME ~foul' PROVE Tidy'
  <2> USE <1>6 DEF Tidy
  <2>1. OneWriter'
    BY DEF OneWriter, Storing, Writing, OneAttach
  <2>2. OneAttach'
    BY DEF OneAttach
  <2>3. Marked'
    <3> SUFFICES ASSUME NEW q \in Locals, Serves(q)
                 PROVE  \E c \in Attachers : apid[c] = q /\ apc[c] \in {"open", "store"}
      BY DEF Marked
    <3>1. marker # q
      OBVIOUS
    <3> QED
      BY <3>1 DEF Marked
  <2>4. AttachAlone'
    BY DEF AttachAlone, Marked, OneAttach, Started, SeenDown
  <2>5. Reports'
    BY DEF Reports, OneWriter, Writing, Started, Beats
  <2> QED
    BY <2>1, <2>2, <2>3, <2>4, <2>5
<1> QED
  BY <1>1, <1>2, <1>3, <1>4, <1>5, <1>6

LEMMA ReportedKeeps == ASSUME IInv, NEW p \in Pushers, Reported(p) PROVE IInv'
<1> USE AgeAssumption, MarkerAssumption, PusherAssumption
    DEF IInv, TypeOK, Pushers, Reported, attachVars, detachVars, listVars, Serves, Alive,
        Signalled, Unlink, Dismiss, Replace, Written, InUse, Attaching, AttachEnds,
        ListEnds, IsMarkerLive
<1>1. TypeOK'
  OBVIOUS
<1>2. Started'
  BY DEF Started
<1>3. LocalsRename'
  BY DEF LocalsRename
<1>4. SeenDown'
  BY DEF SeenDown, Started
<1>5. Beats'
  BY DEF Beats, Started
<1>6. ASSUME ~foul' PROVE Tidy'
  <2> USE <1>6 DEF Tidy
  <2>1. OneWriter'
    BY DEF OneWriter, Storing, Writing, OneAttach
  <2>2. OneAttach'
    BY DEF OneAttach
  <2>3. Marked'
    BY DEF Marked, AttachAlone, OneAttach, OneWriter, Storing, Started, LocalsRename, SeenDown
  <2>4. AttachAlone'
    BY DEF AttachAlone, Marked, OneAttach, Started, SeenDown
  <2>5. Reports'
    BY DEF Reports, OneWriter, Writing, Started, Beats
  <2> QED
    BY <2>1, <2>2, <2>3, <2>4, <2>5
<1> QED
  BY <1>1, <1>2, <1>3, <1>4, <1>5, <1>6

LEMMA HeartbeatKeeps == ASSUME IInv, NEW p \in Pushers, Heartbeat(p) PROVE IInv'
<1> USE AgeAssumption, MarkerAssumption, PusherAssumption
    DEF IInv, TypeOK, Pushers, Heartbeat, attachVars, detachVars, listVars, Serves, Alive,
        Signalled, Unlink, Dismiss, Replace, Written, InUse, Attaching, AttachEnds,
        ListEnds, IsMarkerLive
<1>1. TypeOK'
  OBVIOUS
<1>2. Started'
  BY DEF Started
<1>3. LocalsRename'
  BY DEF LocalsRename
<1>4. SeenDown'
  BY DEF SeenDown, Started
<1>5. Beats'
  BY DEF Beats, Started
<1>6. ASSUME ~foul' PROVE Tidy'
  <2> USE <1>6 DEF Tidy
  <2>1. OneWriter'
    BY DEF OneWriter, Storing, Writing, OneAttach
  <2>2. OneAttach'
    BY DEF OneAttach
  <2>3. Marked'
    BY DEF Marked, AttachAlone, OneAttach, OneWriter, Storing, Started, LocalsRename, SeenDown
  <2>4. AttachAlone'
    BY DEF AttachAlone, Marked, OneAttach, Started, SeenDown
  <2>5. Reports'
    BY DEF Reports, OneWriter, Writing, Started, Beats
  <2> QED
    BY <2>1, <2>2, <2>3, <2>4, <2>5
<1> QED
  BY <1>1, <1>2, <1>3, <1>4, <1>5, <1>6

LEMMA CleanupKeeps == ASSUME IInv, NEW p \in Pushers, Cleanup(p) PROVE IInv'
<1> USE AgeAssumption, MarkerAssumption, PusherAssumption
    DEF IInv, TypeOK, Pushers, Cleanup, attachVars, detachVars, listVars, Serves, Alive,
        Signalled, Unlink, Dismiss, Replace, Written, InUse, Attaching, AttachEnds,
        ListEnds, IsMarkerLive
<1>1. TypeOK'
  OBVIOUS
<1>2. Started'
  BY DEF Started
<1>3. LocalsRename'
  BY DEF LocalsRename
<1>4. SeenDown'
  BY DEF SeenDown, Started
<1>5. Beats'
  BY DEF Beats, Started
<1>6. ASSUME ~foul' PROVE Tidy'
  <2> USE <1>6 DEF Tidy
  <2>1. OneWriter'
    BY DEF OneWriter, Storing, Writing, OneAttach
  <2>2. OneAttach'
    BY DEF OneAttach
  <2>3. Marked'
    BY ZenonT(30) DEF Marked, AttachAlone, OneAttach, OneWriter, Storing, Started, LocalsRename, SeenDown
  <2>4. AttachAlone'
    BY DEF AttachAlone, Marked, OneAttach, Started, SeenDown
  <2>5. Reports'
    BY DEF Reports, OneWriter, Writing, Started, Beats
  <2> QED
    BY <2>1, <2>2, <2>3, <2>4, <2>5
<1> QED
  BY <1>1, <1>2, <1>3, <1>4, <1>5, <1>6

LEMMA CrashKeeps == ASSUME IInv, NEW p \in Pushers, Crash(p) PROVE IInv'
<1> USE AgeAssumption, MarkerAssumption, PusherAssumption
    DEF IInv, TypeOK, Pushers, Crash, attachVars, detachVars, listVars, Serves, Alive,
        Signalled, Unlink, Dismiss, Replace, Written, InUse, Attaching, AttachEnds,
        ListEnds, IsMarkerLive
<1>1. TypeOK'
  OBVIOUS
<1>2. Started'
  BY DEF Started
<1>3. LocalsRename'
  BY DEF LocalsRename
<1>4. SeenDown'
  BY DEF SeenDown, Started
<1>5. Beats'
  BY DEF Beats, Started
<1>6. ASSUME ~foul' PROVE Tidy'
  <2> USE <1>6 DEF Tidy
  <2>1. OneWriter'
    BY DEF OneWriter, Storing, Writing, OneAttach
  <2>2. OneAttach'
    BY DEF OneAttach
  <2>3. Marked'
    BY DEF Marked, AttachAlone, OneAttach, OneWriter, Storing, Started, LocalsRename, SeenDown
  <2>4. AttachAlone'
    BY DEF AttachAlone, Marked, OneAttach, Started, SeenDown
  <2>5. Reports'
    BY DEF Reports, OneWriter, Writing, Started, Beats
  <2> QED
    BY <2>1, <2>2, <2>3, <2>4, <2>5
<1> QED
  BY <1>1, <1>2, <1>3, <1>4, <1>5, <1>6

LEMMA DetachReadKeeps == ASSUME IInv, NEW d \in Detachers, DetachRead(d) PROVE IInv'
<1> USE AgeAssumption, MarkerAssumption, PusherAssumption
    DEF IInv, TypeOK, Pushers, DetachRead, attachVars, detachVars, listVars, Serves, Alive,
        Signalled, Unlink, Dismiss, Replace, Written, InUse, Attaching, AttachEnds,
        ListEnds, IsMarkerLive
<1>1. TypeOK'
  OBVIOUS
<1>2. Started'
  BY DEF Started
<1>3. LocalsRename'
  BY DEF LocalsRename
<1>4. SeenDown'
  BY DEF SeenDown, Started
<1>5. Beats'
  BY DEF Beats, Started
<1>6. ASSUME ~foul' PROVE Tidy'
  <2> USE <1>6 DEF Tidy
  <2>1. OneWriter'
    BY DEF OneWriter, Storing, Writing, OneAttach
  <2>2. OneAttach'
    BY DEF OneAttach
  <2>3. Marked'
    BY DEF Marked, AttachAlone, OneAttach, OneWriter, Storing, Started, LocalsRename, SeenDown
  <2>4. AttachAlone'
    BY DEF AttachAlone, Marked, OneAttach, Started, SeenDown
  <2>5. Reports'
    BY DEF Reports, OneWriter, Writing, Started, Beats
  <2> QED
    BY <2>1, <2>2, <2>3, <2>4, <2>5
<1> QED
  BY <1>1, <1>2, <1>3, <1>4, <1>5, <1>6

LEMMA DetachKillKeeps == ASSUME IInv, NEW d \in Detachers, DetachKill(d) PROVE IInv'
<1> USE AgeAssumption, MarkerAssumption, PusherAssumption
    DEF IInv, TypeOK, Pushers, DetachKill, attachVars, detachVars, listVars, Serves, Alive,
        Signalled, Unlink, Dismiss, Replace, Written, InUse, Attaching, AttachEnds,
        ListEnds, IsMarkerLive
<1>1. TypeOK'
  OBVIOUS
<1>2. Started'
  BY DEF Started
<1>3. LocalsRename'
  BY DEF LocalsRename
<1>4. SeenDown'
  <2>1. \A c \in Attachers : apc'[c] = "clean" /\ aseen'[c] \in Locals => ~Alive(aseen[c])'
    BY DEF SeenDown
  <2>2. ASSUME dseen[d] \in Locals PROVE ~Serves(dseen[d])'
    <3>1. proc' = [proc EXCEPT ![dseen[d]] = Signalled(dseen[d])]
      BY <2>2
    <3>2. proc'[dseen[d]] = Signalled(dseen[d])
      BY <3>1, <2>2
    <3>3. proc[dseen[d]] \notin {"new", "writing"}
      BY <2>2 DEF Started, LocalsRename
    <3> QED
      BY <3>2, <3>3
  <2>3. \A q \in Pushers : Serves(q)' => Serves(q)
    OBVIOUS
  <2> QED
    BY <2>1, <2>2, <2>3 DEF SeenDown
<1>5. Beats'
  BY DEF Beats, Started
<1>6. ASSUME ~foul' PROVE Tidy'
  <2> USE <1>6 DEF Tidy
  <2>1. OneWriter'
    BY DEF OneWriter, Storing, Writing, OneAttach
  <2>2. OneAttach'
    BY DEF OneAttach
  <2>3. Marked'
    BY DEF Marked, AttachAlone, OneAttach, OneWriter, Storing, Started, LocalsRename, SeenDown
  <2>4. AttachAlone'
    BY DEF AttachAlone, Marked, OneAttach, Started, SeenDown
  <2>5. Reports'
    BY DEF Reports, OneWriter, Writing, Started, Beats
  <2> QED
    BY <2>1, <2>2, <2>3, <2>4, <2>5
<1> QED
  BY <1>1, <1>2, <1>3, <1>4, <1>5, <1>6

LEMMA DetachUnlinkKeeps == ASSUME IInv, NEW d \in Detachers, DetachUnlink(d) PROVE IInv'
<1> USE AgeAssumption, MarkerAssumption, PusherAssumption
    DEF IInv, TypeOK, Pushers, DetachUnlink, attachVars, detachVars, listVars, Serves, Alive,
        Signalled, Unlink, Dismiss, Replace, Written, InUse, Attaching, AttachEnds,
        ListEnds, IsMarkerLive
<1>1. TypeOK'
  OBVIOUS
<1>2. Started'
  BY DEF Started
<1>3. LocalsRename'
  BY DEF LocalsRename
<1>4. SeenDown'
  BY DEF SeenDown, Started
<1>5. Beats'
  BY DEF Beats, Started
<1>6. ASSUME ~foul' PROVE Tidy'
  <2> USE <1>6 DEF Tidy
  <2>1. OneWriter'
    BY DEF OneWriter, Storing, Writing, OneAttach
  <2>2. OneAttach'
    BY DEF OneAttach
  <2>3. Marked'
    <3> SUFFICES ASSUME NEW q \in Locals, Serves(q)
                 PROVE  \E c \in Attachers : apid[c] = q /\ apc[c] \in {"open", "store"}
      BY DEF Marked
    <3>1. dpc[d] = "unlink" /\ dseen[d] # q
      BY DEF SeenDown
    <3>2. marker # q
      BY <3>1
    <3> QED
      BY <3>2 DEF Marked
  <2>4. AttachAlone'
    BY DEF AttachAlone, Marked, OneAttach, Started, SeenDown
  <2>5. Reports'
    BY ZenonT(30) DEF Reports, OneWriter, Writing, Started, Beats
  <2> QED
    BY <2>1, <2>2, <2>3, <2>4, <2>5
<1> QED
  BY <1>1, <1>2, <1>3, <1>4, <1>5, <1>6

LEMMA ListReadKeeps == ASSUME IInv, NEW l \in Listers, ListRead(l) PROVE IInv'
<1> USE AgeAssumption, MarkerAssumption, PusherAssumption
    DEF IInv, TypeOK, Pushers, ListRead, attachVars, detachVars, listVars, Serves, Alive,
        Signalled, Unlink, Dismiss, Replace, Written, InUse, Attaching, AttachEnds,
        ListEnds, IsMarkerLive
<1>1. TypeOK'
  OBVIOUS
<1>2. Started'
  BY DEF Started
<1>3. LocalsRename'
  BY DEF LocalsRename
<1>4. SeenDown'
  BY DEF SeenDown, Started
<1>5. Beats'
  <2>1. \A p \in Remotes : Serves(p)' => age' <= 1
    BY DEF Beats
  <2>2. ASSUME marker \in Remotes, Serves(marker) PROVE lfresh'[l]
    <3>1. age <= 1
      BY <2>2 DEF Beats
    <3>2. age < StaleAge
      BY <3>1
    <3>3. lfresh' = [lfresh EXCEPT ![l] = TRUE]
      BY <3>2
    <3> QED
      BY <3>3
  <2>3. ASSUME NEW k \in Listers, k # l
        PROVE  lpc'[k] = lpc[k] /\ lseen'[k] = lseen[k] /\ lfresh'[k] = lfresh[k]
    BY <2>3
  <2> QED
    BY <2>1, <2>2, <2>3 DEF Beats
<1>6. ASSUME ~foul' PROVE Tidy'
  <2> USE <1>6 DEF Tidy
  <2>1. OneWriter'
    BY DEF OneWriter, Storing, Writing, OneAttach
  <2>2. OneAttach'
    BY DEF OneAttach
  <2>3. Marked'
    BY DEF Marked, AttachAlone, OneAttach, OneWriter, Storing, Started, LocalsRename, SeenDown
  <2>4. AttachAlone'
    BY DEF AttachAlone, Marked, OneAttach, Started, SeenDown
  <2>5. Reports'
    BY DEF Reports, OneWriter, Writing, Started, Beats
  <2> QED
    BY <2>1, <2>2, <2>3, <2>4, <2>5
<1> QED
  BY <1>1, <1>2, <1>3, <1>4, <1>5, <1>6

LEMMA ListSweepKeeps == ASSUME IInv, NEW l \in Listers, ListSweep(l) PROVE IInv'
<1> USE AgeAssumption, MarkerAssumption, PusherAssumption
    DEF IInv, TypeOK, Pushers, ListSweep, attachVars, detachVars, listVars, Serves, Alive,
        Signalled, Unlink, Dismiss, Replace, Written, InUse, Attaching, AttachEnds,
        ListEnds, IsMarkerLive
<1>1. TypeOK'
  <2>1. CASE IsMarkerLive(l)
    BY <2>1
  <2>2. CASE ~IsMarkerLive(l)
    BY ZenonT(30), <2>2
  <2> QED
    BY <2>1, <2>2
<1>2. Started'
  BY DEF Started
<1>3. LocalsRename'
  BY DEF LocalsRename
<1>4. SeenDown'
  BY DEF SeenDown, Started
<1>5. Beats'
  BY DEF Beats, Started
<1>6. ASSUME ~foul' PROVE Tidy'
  <2> USE <1>6 DEF Tidy
  <2>1. OneWriter'
    <3>1. marker' = Torn <=> marker = Torn
      OBVIOUS
    <3> QED
      BY <3>1 DEF OneWriter, Storing, Writing
  <2>2. OneAttach'
    BY DEF OneAttach
  <2>3. Marked'
    <3> SUFFICES ASSUME NEW q \in Locals, Serves(q)
                 PROVE  marker' = q \/ \E c \in Attachers :
                          apid[c] = q /\ apc[c] \in {"open", "store"}
      BY DEF Marked
    <3>1. CASE IsMarkerLive(l)
      BY <3>1 DEF Marked
    <3>2. CASE ~IsMarkerLive(l)
      <4>1. lseen[l] # q
        BY <3>2
      <4>2. marker # q
        BY <3>2, <4>1
      <4> QED
        BY <4>2 DEF Marked
    <3> QED
      BY <3>1, <3>2
  <2>4. AttachAlone'
    BY DEF AttachAlone, Marked, OneAttach, Started, SeenDown
  <2>5. Reports'
    BY DEF Reports, OneWriter, Writing, Started, Beats
  <2> QED
    BY <2>1, <2>2, <2>3, <2>4, <2>5
<1> QED
  BY <1>1, <1>2, <1>3, <1>4, <1>5, <1>6

LEMMA ListRefreshKeeps == ASSUME IInv, NEW l \in Listers, ListRefresh(l) PROVE IInv'
<1> USE AgeAssumption, MarkerAssumption, PusherAssumption
    DEF IInv, TypeOK, Pushers, ListRefresh, attachVars, detachVars, listVars, Serves, Alive,
        Signalled, Unlink, Dismiss, Replace, Written, InUse, Attaching, AttachEnds,
        ListEnds, IsMarkerLive
<1>1. TypeOK'
  OBVIOUS
<1>2. Started'
  BY DEF Started
<1>3. LocalsRename'
  BY DEF LocalsRename
<1>4. SeenDown'
  BY DEF SeenDown, Started
<1>5. Beats'
  BY DEF Beats, Started
<1>6. ASSUME ~foul' PROVE Tidy'
  <2> USE <1>6 DEF Tidy
  <2>1. OneWriter'
    BY DEF OneWriter, Storing, Writing, OneAttach
  <2>2. OneAttach'
    BY DEF OneAttach
  <2>3. Marked'
    BY DEF Marked, AttachAlone, OneAttach, OneWriter, Storing, Started, LocalsRename, SeenDown
  <2>4. AttachAlone'
    BY DEF AttachAlone, Marked, OneAttach, Started, SeenDown
  <2>5. Reports'
    BY DEF Reports, OneWriter, Writing, Started, Beats
  <2> QED
    BY <2>1, <2>2, <2>3, <2>4, <2>5
<1> QED
  BY <1>1, <1>2, <1>3, <1>4, <1>5, <1>6

LEMMA TickKeeps == ASSUME IInv, Tick PROVE IInv'
<1> USE AgeAssumption, MarkerAssumption, PusherAssumption
    DEF IInv, TypeOK, Pushers, Tick, attachVars, detachVars, listVars, Serves, Alive,
        Signalled, Unlink, Dismiss, Replace, Written, InUse, Attaching, AttachEnds,
        ListEnds, IsMarkerLive
<1>1. TypeOK'
  OBVIOUS
<1>2. Started'
  BY DEF Started
<1>3. LocalsRename'
  BY DEF LocalsRename
<1>4. SeenDown'
  BY DEF SeenDown, Started
<1>5. Beats'
  BY DEF Beats, Started
<1>6. ASSUME ~foul' PROVE Tidy'
  <2> USE <1>6 DEF Tidy
  <2>1. OneWriter'
    BY DEF OneWriter, Storing, Writing, OneAttach
  <2>2. OneAttach'
    BY DEF OneAttach
  <2>3. Marked'
    BY DEF Marked, AttachAlone, OneAttach, OneWriter, Storing, Started, LocalsRename, SeenDown
  <2>4. AttachAlone'
    BY DEF AttachAlone, Marked, OneAttach, Started, SeenDown
  <2>5. Reports'
    BY DEF Reports, OneWriter, Writing, Started, Beats
  <2> QED
    BY <2>1, <2>2, <2>3, <2>4, <2>5
<1> QED
  BY <1>1, <1>2, <1>3, <1>4, <1>5, <1>6

LEMMA IInvNext == IInv /\ [Next]_vars => IInv'
<1> SUFFICES ASSUME IInv, [Next]_vars PROVE IInv'
  OBVIOUS
<1>1. ASSUME NEW c \in Attachers, Attach(c) PROVE IInv'
  BY <1>1, AttachCheckKeeps, AttachCleanKeeps, AttachSpawnKeeps, AttachOpenKeeps,
     AttachStoreKeeps
  DEF Attach
<1>2. ASSUME NEW d \in Detachers, Detach(d) PROVE IInv'
  BY <1>2, DetachReadKeeps, DetachKillKeeps, DetachUnlinkKeeps DEF Detach
<1>3. ASSUME NEW l \in Listers, ListAgents(l) PROVE IInv'
  BY <1>3, ListReadKeeps, ListSweepKeeps, ListRefreshKeeps DEF ListAgents
<1>4. ASSUME NEW p \in Pushers, Run(p) \/ Cleanup(p) \/ Crash(p) PROVE IInv'
  BY <1>4, PublishKeeps, RegisterRemoteKeeps, ReportKeeps, ReportedKeeps, HeartbeatKeeps,
     CleanupKeeps, CrashKeeps
  DEF Run
<1>5. CASE UNCHANGED vars
  BY <1>5
  DEF vars, attachVars, detachVars, listVars, IInv, TypeOK, Started, LocalsRename, SeenDown,
      Beats, Tidy, OneWriter, Storing, Writing, OneAttach, Marked, AttachAlone, Reports,
      Serves, Alive
<1> QED
  BY <1>1, <1>2, <1>3, <1>4, <1>5, TickKeeps DEF Next

LEMMA IInvAlways == Spec => []IInv
BY IInvInit, IInvNext, PTL DEF Spec

-----------------------------------------------------------------------------
(* The theorems                                                            *)

\* The marker, the pushers and the calls have the types of their model: an
\* attach writes the marker only of a local pusher that it has spawned.
THEOREM TypeAlways == Spec => []TypeOK
<1>1. IInv => TypeOK
  BY DEF IInv
<1> QED
  BY <1>1, IInvAlways, PTL

LEMMA IInvOne == IInv => OnePusher
<1> SUFFICES ASSUME IInv, ~foul PROVE Cardinality({p \in Locals : Serves(p)}) <= 1
  BY DEF OnePusher
<1> DEFINE Serving == {p \in Locals : Serves(p)}
<1>1. \A p, q \in Serving : p = q
  BY MarkerAssumption DEF IInv, Tidy, Marked, AttachAlone, TypeOK
<1>2. CASE Serving = {}
  BY <1>2, FS_EmptySet
<1>3. CASE \E p : Serving = {p}
  BY <1>3, FS_Singleton
<1> QED
  BY <1>1, <1>2, <1>3

\* attach_agent refuses a second pusher (src/tools.ts): as long as no two of its
\* calls overlap and nobody unlinks or replaces a marker other than the one it
\* has looked at, one local pusher at most types into the pane, however many
\* attaches, detaches, sweeps and deaths have gone before.
THEOREM OnePusherAlways == Spec => []OnePusher
BY IInvOne, IInvAlways, PTL

LEMMA IInvFindable == IInv => Findable
BY DEF IInv, Tidy, Marked, Reports, Attaching, Findable, TypeOK

\* Under the same condition a pusher that serves and whose attach is done has
\* its marker, which is all that list_agents, send_command and detach_agent know
\* of it; a remote one keeps its marker whoever sweeps, for it beats in time.
THEOREM FindableAlways == Spec => []Findable
BY IInvFindable, IInvAlways, PTL

\* A detach_agent that returns while no attach is at work leaves no local pusher
\* that serves: it has killed the one its marker named, and a marker of another
\* one it would have unlinked by mistake.
THEOREM DetachSilencesAlways == Spec => DetachSilences
<1> DEFINE Silences ==
      \A d \in Detachers :
        dpc[d] = "unlink" /\ dpc'[d] = "idle" /\ ~foul' /\ Attaching = {} =>
          \A p \in Locals : ~Serves(p)
<1>1. IInv /\ [Next]_vars => [Silences]_vars
  <2> SUFFICES ASSUME IInv, Next, NEW d \in Detachers,
                      dpc[d] = "unlink", dpc'[d] = "idle", ~foul', Attaching = {},
                      NEW p \in Locals, Serves(p)
               PROVE  FALSE
    OBVIOUS
  <2>1. DetachUnlink(d)
    <3> USE DEF attachVars, detachVars, listVars, IInv, TypeOK
    <3>1. ASSUME dpc' = dpc PROVE FALSE
      BY <3>1
    <3>2. ~\E c \in Attachers : Attach(c)
      BY <3>1 DEF Attach, AttachCheck, AttachClean, AttachSpawn, AttachOpen, AttachStore
    <3>3. ~\E l \in Listers : ListAgents(l)
      BY <3>1 DEF ListAgents, ListRead, ListSweep, ListRefresh
    <3>4. ~\E q \in Pushers : Run(q) \/ Cleanup(q) \/ Crash(q)
      BY <3>1 DEF Run, Publish, RegisterRemote, Report, Reported, Heartbeat, Cleanup, Crash
    <3>5. ~Tick
      BY <3>1 DEF Tick
    <3>6. \A e \in Detachers : Detach(e) => e = d /\ DetachUnlink(e)
      BY DEF Detach, DetachRead, DetachKill, DetachUnlink
    <3> QED
      BY <3>2, <3>3, <3>4, <3>5, <3>6 DEF Next
  <2>2. ~foul /\ (marker \in Pushers \ {dseen[d]} => ~Alive(marker))
    BY <2>1 DEF DetachUnlink, Dismiss, InUse, IInv, TypeOK
  <2>3. marker = p
    BY <2>2 DEF IInv, Tidy, Marked, Attaching, TypeOK
  <2>4. dseen[d] # p
    BY DEF IInv, SeenDown
  <2> QED
    BY <2>2, <2>3, <2>4 DEF Serves, Alive, Pushers
<1> QED
  BY <1>1, IInvAlways, PTL DEF Spec, DetachSilences

-----------------------------------------------------------------------------
(* Registry: the inductive invariant                                       *)

\* A rename is between two ids.
Renames == \A c \in Calls :
  pc[c] \in {"registry", "members", "inbox", "cursor"} => id[c] # new[c]

\* There is one entry for each agent that registered and has not left.
Counted == IsFiniteSet(registered) /\ (~clash => Cardinality(registered) = heads)

\* Who is in a room is registered or a stranger, or is about to be taken out of
\* the rooms, by a departure or a rename ...
Leaving(i) == \E c \in Calls : pc[c] = "leave" /\ id[c] = i
Renaming(i) == \E c \in Calls : pc[c] = "members" /\ id[c] = i
Accounted(i) == i \in registered \cup strangers \/ Leaving(i) \/ Renaming(i)

\* ... and so is whoever a rename is about to put into them.
Members ==
  /\ \A r \in Rooms : \A i \in members[r] : Accounted(i)
  /\ \A c \in Calls : pc[c] = "members" => Accounted(new[c])

\* Two renames that are between inbox and cursor are about different ids.
Apart == \A c, d \in Calls :
  pc[c] = "cursor" /\ pc[d] = "cursor" /\ c # d => {id[c], new[c]} \cap {id[d], new[d]} = {}

\* A message is at one place, and what is at a place or was read was sent.
OneMailPlace == \A i, j \in Ids : \A n \in DOMAIN Mail(i), l \in DOMAIN Mail(j) :
  Mail(i)[n] = Mail(j)[l] => i = j /\ n = l
WasSent ==
  /\ \A i \in Ids : \A n \in DOMAIN Mail(i) : Mail(i)[n] \in 1..sent
  /\ delivered \subseteq 1..sent

\* With the offset o on the mail of i, exactly what is before it was read.
ReadUpTo(i, o) ==
  /\ o <= Len(Mail(i))
  /\ \A n \in DOMAIN Mail(i) : Mail(i)[n] \in delivered <=> n <= o

\* So it is for an id that no rename has half moved.  For one that has, the new
\* id's inbox is read up to the old id's offset; the old id's mail is new.
AtRest == \A i \in Ids : ~HalfMoved(i) => ReadUpTo(i, Offset(i))
UnderWay == \A c \in Calls : pc[c] = "cursor" =>
  /\ cursor[new[c]] = NoFile
  /\ ReadUpTo(new[c], Offset(id[c]))
  /\ ReadUpTo(id[c], 0)

\* A message that was sent was read or deleted, or has its place.
Placed(m) == \E i \in Ids : \E n \in DOMAIN Mail(i) : Mail(i)[n] = m
AllPlaced == \A m \in 1..sent : m \in delivered \cup orphaned \/ Placed(m)

MailInv == Apart /\ OneMailPlace /\ WasSent /\ AtRest /\ UnderWay /\ AllPlaced /\ again = {}

RegistryInv ==
  /\ RegistryTypeOK /\ sent \in 0..MaxMail
  /\ Renames /\ Counted
  /\ clash \/ (Members /\ MailInv)
-----------------------------------------------------------------------------
(* Registry: its operators and types                                       *)

LEMMA FileTypes ==
  ASSUME RegistryTypeOK, NEW i \in Ids
  PROVE  /\ Mail(i) \in Seq(1..MaxMail)
         /\ Len(Mail(i)) \in Nat /\ DOMAIN Mail(i) = 1..Len(Mail(i))
         /\ Offset(i) \in Nat
<1>1. Offset(i) \in Nat
  BY DEF RegistryTypeOK, Offset
<1>2. Mail(i) \in Seq(1..MaxMail)
  <2>1. <<>> \in Seq(1..MaxMail)
    BY EmptySeq
  <2>2. inbox[i] \in Seq(1..MaxMail) \/ inbox[i] = NoFile
    BY DEF RegistryTypeOK
  <2> QED
    BY <2>1, <2>2, Zenon DEF Mail
<1> QED
  BY <1>1, <1>2

\* What a sequence has behind an offset.
LEMMA IdsBehind ==
  ASSUME NEW S, NEW s \in Seq(S), NEW o \in Nat
  PROVE  \A m : m \in Ids_(SubSeq(s, o + 1, Len(s)))
                  <=> \E n \in DOMAIN s : n > o /\ s[n] = m
<1> DEFINE u == SubSeq(s, o + 1, Len(s))
<1>1. Len(s) \in Nat /\ DOMAIN s = 1..Len(s)
  OBVIOUS
<1>2. \A k \in (o + 1)..Len(s) : s[k] \in S
  BY <1>1, ElementOfSeq
<1>3. /\ u \in Seq(S)
      /\ Len(u) = IF o + 1 <= Len(s) THEN Len(s) - (o + 1) + 1 ELSE 0
      /\ \A k \in 1..(Len(s) - (o + 1) + 1) : u[k] = s[o + 1 + k - 1]
  BY <1>1, <1>2, SubSeqProperties
<1>4. DOMAIN u = 1..Len(u)
  BY <1>3
<1> HIDE DEF u
<1>5. ASSUME NEW n \in DOMAIN s, n > o  PROVE \E k \in DOMAIN u : u[k] = s[n]
  <2> DEFINE l == Len(s)
             k == n - o
  <2>1. l \in Nat /\ n \in 1..l /\ n > o
    BY <1>1, <1>5
  <2>2. o + 1 <= l /\ k \in 1..(l - (o + 1) + 1) /\ o + 1 + k - 1 = n
    <3> HIDE DEF l
    <3> QED
      BY <2>1
  <2>3. DOMAIN u = 1..(l - (o + 1) + 1)
    BY <1>3, <1>4, <2>2
  <2> QED
    BY <1>3, <2>2, <2>3
<1>6. ASSUME NEW k \in DOMAIN u  PROVE \E n \in DOMAIN s : n > o /\ s[n] = u[k]
  <2> DEFINE l == Len(s)
  <2>1. k \in 1..(IF o + 1 <= l THEN l - (o + 1) + 1 ELSE 0) /\ l \in Nat
    BY <1>1, <1>3, <1>4
  <2>2. k \in 1..(l - (o + 1) + 1) /\ o + 1 + k - 1 \in 1..l /\ o + 1 + k - 1 > o
    <3> HIDE DEF l
    <3> QED
      BY <2>1
  <2> QED
    BY <1>1, <1>3, <2>2
<1>7. Ids_(u) = {u[k] : k \in DOMAIN u}
  BY DEF Ids_
<1>8. \A m : m \in Ids_(u) <=> \E n \in DOMAIN s : n > o /\ s[n] = m
  <2> SUFFICES ASSUME NEW m
               PROVE  (\E k \in DOMAIN u : u[k] = m) <=> \E n \in DOMAIN s : n > o /\ s[n] = m
    BY <1>7
  <2> QED
    BY <1>5, <1>6
<1> QED
  BY <1>8 DEF u

\* What is unread stands behind the offset.
LEMMA UnreadIs ==
  ASSUME RegistryTypeOK, NEW i \in Ids
  PROVE  \A m : m \in Unread(i) <=> \E n \in DOMAIN Mail(i) : n > Offset(i) /\ Mail(i)[n] = m
BY FileTypes, IdsBehind DEF Unread

LEMMA RegistryTypeNext ==
  RegistryTypeOK /\ sent \in 0..MaxMail /\ [RegistryNext]_registryVars
    => RegistryTypeOK' /\ sent' \in 0..MaxMail
<1> SUFFICES ASSUME RegistryTypeOK, sent \in 0..MaxMail, [RegistryNext]_registryVars
             PROVE  RegistryTypeOK' /\ sent' \in 0..MaxMail
  OBVIOUS
<1> USE BoundAssumption DEF RegistryTypeOK, fileVars, callVars, mailVars
<1>1. ASSUME NEW i \in Ids, Register(i)  PROVE RegistryTypeOK' /\ sent' \in 0..MaxMail
  BY <1>1 DEF Register
<1>2. ASSUME NEW i \in Ids, Evict(i)  PROVE RegistryTypeOK' /\ sent' \in 0..MaxMail
  BY <1>2 DEF Evict
<1>3. ASSUME NEW i \in Ids, Send(i)  PROVE RegistryTypeOK' /\ sent' \in 0..MaxMail
  <2>1. Append(Mail(i), sent + 1) \in Seq(1..MaxMail)
    BY <1>3, FileTypes DEF Send
  <2> QED
    BY <1>3, <2>1 DEF Send
<1>4. ASSUME NEW i \in Ids, Read(i)  PROVE RegistryTypeOK' /\ sent' \in 0..MaxMail
  BY <1>4, FileTypes DEF Read
<1>5. ASSUME NEW i \in Ids, NEW r \in Rooms, JoinRoom(i, r) \/ LeaveRoom(i, r)
      PROVE RegistryTypeOK' /\ sent' \in 0..MaxMail
  BY <1>5 DEF JoinRoom, LeaveRoom
<1>6. ASSUME NEW c \in Calls, NEW i \in Ids, Unregister(c, i)
      PROVE RegistryTypeOK' /\ sent' \in 0..MaxMail
  BY <1>6 DEF Unregister, Begin
<1>7. ASSUME NEW c \in Calls, NEW i \in Ids, PruneInbox(c, i)
      PROVE RegistryTypeOK' /\ sent' \in 0..MaxMail
  BY <1>7 DEF PruneInbox
<1>8. ASSUME NEW c \in Calls, NEW i \in Ids, NEW n \in Ids, RenameCheck(c, i, n)
      PROVE RegistryTypeOK' /\ sent' \in 0..MaxMail
  BY <1>8 DEF RenameCheck, Begin
<1>9. ASSUME NEW c \in Calls, UnregisterRooms(c) \/ RenameRegistry(c) \/ RenameMembers(c)
      PROVE RegistryTypeOK' /\ sent' \in 0..MaxMail
  <2>1. CASE UnregisterRooms(c)
    BY <2>1 DEF UnregisterRooms, Step
  <2>2. CASE RenameRegistry(c)
    BY <2>2 DEF RenameRegistry, Step
  <2>3. CASE RenameMembers(c)
    BY <2>3 DEF RenameMembers, Step
  <2> QED
    BY <1>9, <2>1, <2>2, <2>3
<1>10. ASSUME NEW c \in Calls, RenameInbox(c) \/ RenameCursor(c)
       PROVE RegistryTypeOK' /\ sent' \in 0..MaxMail
  BY <1>10 DEF RenameInbox, RenameCursor, Step, Moved
<1>11. ASSUME NEW c \in Calls, PruneRead(c) \/ PruneList(c) \/ PruneMembers(c)
       PROVE RegistryTypeOK' /\ sent' \in 0..MaxMail
  <2>1. CASE PruneRead(c)
    BY <2>1 DEF PruneRead, Begin
  <2>2. CASE PruneList(c)
    BY <2>2 DEF PruneList
  <2>3. CASE PruneMembers(c)
    BY <2>3 DEF PruneMembers
  <2> QED
    BY <1>11, <2>1, <2>2, <2>3
<1>12. ASSUME UNCHANGED registryVars  PROVE RegistryTypeOK' /\ sent' \in 0..MaxMail
  BY <1>12 DEF registryVars
<1> QED
  BY <1>1, <1>2, <1>3, <1>4, <1>5, <1>6, <1>7, <1>8, <1>9, <1>10, <1>11, <1>12
  DEF RegistryNext, Handle

-----------------------------------------------------------------------------
(* The mail of the ids                                                     *)

\* A step that leaves the mail, and the renames that have moved an inbox, as
\* they are.
LEMMA MailStays ==
  ASSUME RegistryInv, UNCHANGED <<inbox, cursor, sent, delivered, again, orphaned>>,
         \A c \in Calls : pc'[c] = "cursor" <=> pc[c] = "cursor",
         \A c \in Calls : pc[c] = "cursor" => id'[c] = id[c] /\ new'[c] = new[c],
         ~clash
  PROVE  MailInv'
<1>1. \A i \in Ids : Mail(i)' = Mail(i) /\ Offset(i)' = Offset(i)
  BY DEF Mail, Offset
<1>2. \A i \in Ids : HalfMoved(i)' <=> HalfMoved(i)
  BY DEF HalfMoved
<1>3. MailInv
  BY DEF RegistryInv
<1>4. \A c \in Calls : id[c] \in Ids /\ new[c] \in Ids
  BY DEF RegistryInv, RegistryTypeOK
<1>5. Apart'
  BY <1>3 DEF MailInv, Apart
<1>6. OneMailPlace'
  BY <1>1, <1>3 DEF MailInv, OneMailPlace
<1>7. WasSent'
  BY <1>1, <1>3 DEF MailInv, WasSent
<1>8. AtRest'
  BY <1>1, <1>2, <1>3 DEF MailInv, AtRest, ReadUpTo
<1>9. UnderWay'
  BY <1>1, <1>3, <1>4 DEF MailInv, UnderWay, ReadUpTo
<1>10. AllPlaced' /\ again' = {}
  BY <1>1, <1>3 DEF MailInv, AllPlaced, Placed
<1> QED
  BY <1>5, <1>6, <1>7, <1>8, <1>9, <1>10 DEF MailInv

\* A message that is sent is new and stands at the end of an inbox.
LEMMA SendKeepsMail == ASSUME RegistryInv, NEW i \in Ids, Send(i), ~clash  PROVE MailInv'
<1>1. RegistryTypeOK /\ MailInv /\ sent \in Nat /\ sent' = sent + 1
  BY BoundAssumption DEF RegistryInv, Send
<1>2. /\ \A j \in Ids : Offset(j)' = Offset(j) /\ (HalfMoved(j)' <=> HalfMoved(j))
      /\ \A j \in Ids \ {i} : Mail(j)' = Mail(j)
      /\ UNCHANGED <<pc, id, new, cursor, delivered, again, orphaned>>
  BY DEF Send, callVars, Offset, Mail, HalfMoved
<1>3. Mail(i)' = Append(Mail(i), sent + 1)
  <2>1. inbox'[i] = Append(Mail(i), sent + 1)
    BY <1>1 DEF Send, RegistryTypeOK
  <2>2. inbox'[i] # NoFile
    <3>1. sent + 1 \in 1..MaxMail
      BY <1>1, BoundAssumption DEF Send
    <3>2. inbox'[i] \in Seq(1..MaxMail)
      BY <1>1, <2>1, <3>1, FileTypes, AppendProperties
    <3> QED
      BY <3>2, NoFileAssumption
  <2> QED
    BY <2>1, <2>2, Zenon DEF Mail
<1>4. \A j \in Ids : Len(Mail(j)) \in Nat /\ DOMAIN Mail(j) = 1..Len(Mail(j))
  BY <1>1, FileTypes
<1>5. /\ Len(Mail(i))' = Len(Mail(i)) + 1
      /\ DOMAIN Mail(i)' = 1..(Len(Mail(i)) + 1)
      /\ \A n \in DOMAIN Mail(i) : Mail(i)'[n] = Mail(i)[n]
      /\ Mail(i)'[Len(Mail(i)) + 1] = sent + 1
  BY <1>1, <1>3, FileTypes, AppendProperties
<1>6. ASSUME NEW j \in Ids, NEW n \in DOMAIN Mail(j)'
      PROVE  \/ n \in DOMAIN Mail(j) /\ Mail(j)'[n] = Mail(j)[n]
             \/ j = i /\ n = Len(Mail(i)) + 1 /\ Mail(j)'[n] = sent + 1
  <2>1. CASE j = i
    BY <1>4, <1>5, <1>6, <2>1
  <2>2. CASE j # i
    BY <1>2, <1>6, <2>2
  <2> QED
    BY <2>1, <2>2
<1>7. \A j \in Ids : \A n \in DOMAIN Mail(j) : Mail(j)[n] \in Nat /\ Mail(j)[n] <= sent
  BY <1>1 DEF MailInv, WasSent
<1>8. sent + 1 \notin delivered
  BY <1>1 DEF MailInv, WasSent
<1>9. ASSUME NEW j \in Ids, NEW o \in Nat, ReadUpTo(j, o)
      PROVE  /\ o <= Len(Mail(j)')
             /\ \A n \in DOMAIN Mail(j)' : Mail(j)'[n] \in delivered' <=> n <= o
  <2>1. o <= Len(Mail(j)) /\ \A n \in DOMAIN Mail(j) : Mail(j)[n] \in delivered <=> n <= o
    BY <1>9 DEF ReadUpTo
  <2>2. o <= Len(Mail(j)')
    BY <1>2, <1>4, <1>5, <2>1
  <2>3. ASSUME NEW n \in DOMAIN Mail(j)'  PROVE Mail(j)'[n] \in delivered' <=> n <= o
    <3>1. CASE n \in DOMAIN Mail(j) /\ Mail(j)'[n] = Mail(j)[n]
      BY <1>2, <2>1, <3>1
    <3>2. CASE j = i /\ n = Len(Mail(i)) + 1 /\ Mail(j)'[n] = sent + 1
      BY <1>2, <1>4, <1>8, <2>1, <3>2
    <3> QED
      BY <1>6, <3>1, <3>2
  <2> QED
    BY <2>2, <2>3
<1>10. \A c \in Calls : id[c] \in Ids /\ new[c] \in Ids
  BY <1>1 DEF RegistryTypeOK
<1>11. Apart'
  BY <1>1, <1>2 DEF MailInv, Apart
<1>12. OneMailPlace'
  <2> SUFFICES ASSUME NEW j \in Ids, NEW k \in Ids, NEW n \in DOMAIN Mail(j)',
                      NEW l \in DOMAIN Mail(k)', Mail(j)'[n] = Mail(k)'[l]
               PROVE  j = k /\ n = l
    BY DEF OneMailPlace
  <2>1. CASE n \in DOMAIN Mail(j) /\ Mail(j)'[n] = Mail(j)[n]
    <3>1. Mail(j)[n] \in Nat /\ Mail(j)[n] <= sent
      BY <1>7, <2>1
    <3>2. Mail(k)'[l] # sent + 1
      BY <1>1, <2>1, <3>1
    <3>3. l \in DOMAIN Mail(k) /\ Mail(k)'[l] = Mail(k)[l]
      BY <1>6, <3>2
    <3>4. Mail(j)[n] = Mail(k)[l]
      BY <2>1, <3>3
    <3>5. n \in DOMAIN Mail(j) /\ OneMailPlace
      BY <1>1, <2>1 DEF MailInv
    <3> QED
      BY <3>3, <3>4, <3>5 DEF OneMailPlace
  <2>2. CASE j = i /\ n = Len(Mail(i)) + 1 /\ Mail(j)'[n] = sent + 1
    <3>1. k = i /\ l = Len(Mail(i)) + 1
      BY <1>1, <1>6, <1>7, <2>2
    <3> QED
      BY <2>2, <3>1
  <2> QED
    BY <1>6, <2>1, <2>2
<1>13. WasSent'
  <2>1. \A j \in Ids : \A n \in DOMAIN Mail(j)' : Mail(j)'[n] \in 1..sent'
    BY <1>1, <1>6 DEF MailInv, WasSent
  <2>2. delivered' \subseteq 1..sent'
    BY <1>1, <1>2 DEF MailInv, WasSent
  <2> QED
    BY <2>1, <2>2 DEF WasSent
<1>14. AtRest'
  BY <1>1, <1>2, <1>9, FileTypes DEF MailInv, AtRest, ReadUpTo
<1>15. UnderWay'
  <2> SUFFICES ASSUME NEW c \in Calls, pc[c] = "cursor"
               PROVE  /\ cursor'[new'[c]] = NoFile
                      /\ ReadUpTo(new[c], Offset(id[c]))'
                      /\ ReadUpTo(id[c], 0)'
    BY <1>2 DEF UnderWay
  <2>1. cursor[new[c]] = NoFile /\ ReadUpTo(new[c], Offset(id[c])) /\ ReadUpTo(id[c], 0)
    BY <1>1 DEF MailInv, UnderWay
  <2>2. Offset(id[c]) \in Nat
    BY <1>1, <1>10, FileTypes
  <2> QED
    BY <1>2, <1>9, <1>10, <2>1, <2>2 DEF ReadUpTo
<1>16. AllPlaced'
  <2> SUFFICES ASSUME NEW m \in 1..sent'  PROVE m \in delivered' \cup orphaned' \/ Placed(m)'
    BY DEF AllPlaced
  <2>1. CASE m = sent + 1
    BY <1>4, <1>5, <2>1 DEF Placed
  <2>2. CASE m \in 1..sent
    <3>1. CASE m \in delivered \cup orphaned
      BY <1>2, <3>1
    <3>2. CASE Placed(m)
      BY <1>2, <1>4, <1>5, <3>2 DEF Placed
    <3> QED
      BY <1>1, <2>2, <3>1, <3>2 DEF MailInv, AllPlaced
  <2> QED
    BY <1>1, <2>1, <2>2
<1> QED
  BY <1>1, <1>2, <1>11, <1>12, <1>13, <1>14, <1>15, <1>16 DEF MailInv

\* A read takes what is unread of an id that no rename has half moved.
LEMMA ReadKeepsMail == ASSUME RegistryInv, NEW i \in Ids, Read(i), ~clash'  PROVE MailInv'
<1>1. RegistryTypeOK /\ MailInv /\ ~clash /\ ~Moving(i)
  BY DEF RegistryInv, Read
<1>2. ~HalfMoved(i) /\ \A c \in Calls : pc[c] = "cursor" => id[c] # i /\ new[c] # i
  BY <1>1 DEF Moving, HalfMoved
<1>3. ReadUpTo(i, Offset(i))
  BY <1>1, <1>2 DEF MailInv, AtRest
<1>4. /\ UNCHANGED <<pc, id, new, inbox, sent, orphaned>>
      /\ delivered' = delivered \cup Unread(i)
      /\ again' = again \cup (delivered \cap Unread(i))
  BY DEF Read, callVars
<1>5. /\ \A j \in Ids : Mail(j)' = Mail(j) /\ (HalfMoved(j)' <=> HalfMoved(j))
      /\ \A j \in Ids \ {i} : Offset(j)' = Offset(j) /\ cursor'[j] = cursor[j]
  BY <1>4 DEF Mail, HalfMoved, Read, Offset
<1>6. \A j \in Ids : /\ Len(Mail(j)) \in Nat /\ DOMAIN Mail(j) = 1..Len(Mail(j))
                     /\ Offset(j) \in Nat
  BY <1>1, FileTypes
<1>7. Offset(i)' = Len(Mail(i))
  <2>1. cursor'[i] = Len(Mail(i))
    <3>1. cursor'[i] = IF Offset(i) < Len(Mail(i)) THEN Len(Mail(i)) ELSE Offset(i)
      BY <1>1 DEF Read, RegistryTypeOK
    <3>2. Offset(i) <= Len(Mail(i))
      BY <1>3 DEF ReadUpTo
    <3> QED
      BY <1>6, <3>1, <3>2
  <2>2. cursor'[i] # NoFile
    BY <1>6, <2>1, NoFileAssumption
  <2> QED
    BY <2>1, <2>2, Zenon DEF Offset
<1>8. \A m : m \in Unread(i) <=> \E n \in DOMAIN Mail(i) : n > Offset(i) /\ Mail(i)[n] = m
  BY <1>1, UnreadIs
<1>9. \A n \in DOMAIN Mail(i) : Mail(i)[n] \in delivered'
  <2> SUFFICES ASSUME NEW n \in DOMAIN Mail(i), ~(n > Offset(i))
               PROVE  Mail(i)[n] \in delivered
    BY <1>4, <1>8
  <2> QED
    BY <1>3, <1>6 DEF ReadUpTo
<1>10. ASSUME NEW j \in Ids \ {i}, NEW n \in DOMAIN Mail(j)
       PROVE  Mail(j)[n] \in delivered' <=> Mail(j)[n] \in delivered
  <2>1. Mail(j)[n] \notin Unread(i)
    BY <1>1, <1>8 DEF MailInv, OneMailPlace
  <2> QED
    BY <1>4, <2>1
<1>11. \A c \in Calls : id[c] \in Ids /\ new[c] \in Ids
  BY <1>1 DEF RegistryTypeOK
<1>12. Apart'
  BY <1>1, <1>4 DEF MailInv, Apart
<1>13. OneMailPlace'
  BY <1>1, <1>5 DEF MailInv, OneMailPlace
<1>14. WasSent'
  <2>1. Unread(i) \subseteq 1..sent
    BY <1>1, <1>8 DEF MailInv, WasSent
  <2> QED
    BY <1>1, <1>4, <1>5, <2>1 DEF MailInv, WasSent
<1>15. AtRest'
  <2> SUFFICES ASSUME NEW j \in Ids, ~HalfMoved(j)  PROVE ReadUpTo(j, Offset(j))'
    BY <1>5 DEF AtRest
  <2>1. CASE j = i
    BY <1>5, <1>6, <1>7, <1>9, <2>1 DEF ReadUpTo
  <2>2. CASE j # i
    <3>1. ReadUpTo(j, Offset(j))
      BY <1>1 DEF MailInv, AtRest
    <3> QED
      BY <1>5, <1>10, <2>2, <3>1 DEF ReadUpTo
  <2> QED
    BY <2>1, <2>2
<1>16. UnderWay'
  <2> SUFFICES ASSUME NEW c \in Calls, pc[c] = "cursor"
               PROVE  /\ cursor'[new[c]] = NoFile
                      /\ ReadUpTo(new[c], Offset(id[c]))'
                      /\ ReadUpTo(id[c], 0)'
    BY <1>4 DEF UnderWay
  <2>1. cursor[new[c]] = NoFile /\ ReadUpTo(new[c], Offset(id[c])) /\ ReadUpTo(id[c], 0)
    BY <1>1 DEF MailInv, UnderWay
  <2>2. id[c] \in Ids \ {i} /\ new[c] \in Ids \ {i}
    BY <1>2, <1>11
  <2> QED
    BY <1>4, <1>5, <1>10, <2>1, <2>2 DEF ReadUpTo
<1>17. AllPlaced'
  BY <1>1, <1>4, <1>5 DEF MailInv, AllPlaced, Placed
<1>18. again' = {}
  <2> SUFFICES ASSUME NEW n \in DOMAIN Mail(i), n > Offset(i)
               PROVE  Mail(i)[n] \notin delivered
    BY <1>1, <1>4, <1>8 DEF MailInv
  <2> QED
    BY <1>3, <1>6 DEF ReadUpTo
<1> QED
  BY <1>12, <1>13, <1>14, <1>15, <1>16, <1>17, <1>18 DEF MailInv

\* A prune that deletes the inbox of an id nobody owns and nobody has read.
LEMMA PruneInboxKeepsMail ==
  ASSUME RegistryInv, NEW c \in Calls, NEW i \in Ids, PruneInbox(c, i), ~clash'
  PROVE  MailInv'
<1>1. RegistryTypeOK /\ MailInv /\ i \notin registered /\ ~Moving(i) /\ ~(Offset(i) > 0)
  BY DEF RegistryInv, PruneInbox
<1>2. ~HalfMoved(i) /\ \A d \in Calls : pc[d] = "cursor" => id[d] # i /\ new[d] # i
  BY <1>1 DEF Moving, HalfMoved
<1>3. /\ UNCHANGED <<pc, id, new, cursor, sent, delivered, again>>
      /\ orphaned' = orphaned \cup Unread(i)
  BY <1>1 DEF PruneInbox
<1>4. /\ \A j \in Ids : Offset(j)' = Offset(j) /\ (HalfMoved(j)' <=> HalfMoved(j))
      /\ \A j \in Ids \ {i} : Mail(j)' = Mail(j)
      /\ Mail(i)' = <<>>
  BY <1>1, <1>3 DEF Offset, HalfMoved, PruneInbox, Mail, RegistryTypeOK
<1>5. \A j \in Ids : /\ Len(Mail(j)) \in Nat /\ DOMAIN Mail(j) = 1..Len(Mail(j))
                     /\ Offset(j) \in Nat
  BY <1>1, FileTypes
<1>6. Len(Mail(i)') = 0 /\ DOMAIN Mail(i)' = {} /\ Offset(i) = 0
  BY <1>1, <1>4, <1>5, EmptySeq
<1>7. \A n \in DOMAIN Mail(i) : Mail(i)[n] \in orphaned'
  <2>1. \A n \in DOMAIN Mail(i) : n > Offset(i)
    BY <1>5, <1>6
  <2> QED
    BY <1>1, <1>3, <2>1, UnreadIs
<1>8. \A d \in Calls : id[d] \in Ids /\ new[d] \in Ids
  BY <1>1 DEF RegistryTypeOK
<1>9. Apart'
  BY <1>1, <1>3 DEF MailInv, Apart
<1>10. OneMailPlace'
  BY <1>1, <1>4, <1>6 DEF MailInv, OneMailPlace
<1>11. WasSent'
  BY <1>1, <1>3, <1>4, <1>6 DEF MailInv, WasSent
<1>12. AtRest'
  <2> SUFFICES ASSUME NEW j \in Ids, ~HalfMoved(j)  PROVE ReadUpTo(j, Offset(j))'
    BY <1>4 DEF AtRest
  <2>1. CASE j = i
    BY <1>4, <1>6, <2>1 DEF ReadUpTo
  <2>2. CASE j # i
    BY <1>1, <1>3, <1>4, <2>2 DEF MailInv, AtRest, ReadUpTo
  <2> QED
    BY <2>1, <2>2
<1>13. UnderWay'
  BY <1>1, <1>2, <1>3, <1>4, <1>8 DEF MailInv, UnderWay, ReadUpTo
<1>14. AllPlaced'
  <2> SUFFICES ASSUME NEW m \in 1..sent  PROVE m \in delivered \cup orphaned' \/ Placed(m)'
    BY <1>3 DEF AllPlaced
  <2>1. CASE m \in delivered \cup orphaned
    BY <1>3, <2>1
  <2>2. CASE Placed(m)
    <3>1. PICK j \in Ids : \E n \in DOMAIN Mail(j) : Mail(j)[n] = m
      BY <2>2 DEF Placed
    <3>2. CASE j = i
      BY <1>7, <3>1, <3>2
    <3>3. CASE j # i
      BY <1>4, <3>1, <3>3 DEF Placed
    <3> QED
      BY <3>2, <3>3
  <2> QED
    BY <1>1, <2>1, <2>2 DEF MailInv, AllPlaced
<1> QED
  BY <1>1, <1>3, <1>9, <1>10, <1>11, <1>12, <1>13, <1>14 DEF MailInv

\* A rename moves the inbox, to an id with no files.
LEMMA RenameInboxKeepsMail ==
  ASSUME RegistryInv, NEW c \in Calls, RenameInbox(c), ~clash'  PROVE MailInv'
<1>0. PICK a \in Ids, b \in Ids : a = id[c] /\ b = new[c]
  BY DEF RegistryInv, RegistryTypeOK
<1>1. /\ RegistryTypeOK /\ MailInv
      /\ inbox[b] = NoFile /\ cursor[b] = NoFile /\ ~HalfMoved(a) /\ ~HalfMoved(b)
      /\ a # b
  BY <1>0 DEF RegistryInv, RenameInbox, RegistryTypeOK, Renames
<1>2. UNCHANGED <<id, new, cursor, sent, delivered, again, orphaned>>
  BY DEF RenameInbox, Step, mailVars
<1>3. /\ pc'[c] = "cursor"
      /\ \A d \in Calls \ {c} : pc'[d] = pc[d]
  BY <1>1 DEF RenameInbox, Step, RegistryTypeOK
<1>4. /\ Mail(b)' = Mail(a) /\ Mail(a)' = <<>> /\ Mail(b) = <<>>
      /\ \A i \in Ids \ {a, b} : Mail(i)' = Mail(i)
  <2>1. Mail(b) = <<>>
    BY <1>1 DEF Mail
  <2>2. CASE inbox[a] = NoFile
    BY <1>0, <1>1, <2>2 DEF RenameInbox, Moved, Mail
  <2>3. CASE inbox[a] # NoFile
    <3>1. /\ inbox'[b] = inbox[a] /\ inbox'[a] = NoFile
          /\ \A i \in Ids \ {a, b} : inbox'[i] = inbox[i]
      BY <1>0, <1>1, <2>3 DEF RenameInbox, Moved, RegistryTypeOK
    <3> QED
      BY <2>1, <2>3, <3>1 DEF Mail
  <2> QED
    BY <2>1, <2>2, <2>3
<1>5. \A i \in Ids : /\ Len(Mail(i)) \in Nat /\ DOMAIN Mail(i) = 1..Len(Mail(i))
                     /\ Offset(i) \in Nat /\ Offset(i)' = Offset(i)
  BY <1>1, <1>2, FileTypes DEF Offset
<1>6. Len(Mail(a)') = 0 /\ DOMAIN Mail(a)' = {} /\ DOMAIN Mail(b) = {}
  BY <1>4, EmptySeq
<1>7. \A d \in Calls \ {c} : pc[d] = "cursor" =>
         id[d] \in Ids \ {a, b} /\ new[d] \in Ids \ {a, b}
  BY <1>0, <1>1 DEF HalfMoved, RegistryTypeOK
<1>8. \A i \in Ids \ {a, b} : HalfMoved(i)' <=> HalfMoved(i)
  BY <1>0, <1>2, <1>3 DEF HalfMoved, RenameInbox
<1>9. HalfMoved(a)' /\ HalfMoved(b)'
  BY <1>0, <1>2, <1>3 DEF HalfMoved
<1>10. Apart'
  BY <1>0, <1>1, <1>2, <1>3, <1>7 DEF MailInv, Apart
<1>11. ASSUME NEW i \in Ids, NEW n \in DOMAIN Mail(i)'
       PROVE  \/ i \in Ids \ {a, b} /\ n \in DOMAIN Mail(i) /\ Mail(i)'[n] = Mail(i)[n]
              \/ i = b /\ n \in DOMAIN Mail(a) /\ Mail(i)'[n] = Mail(a)[n]
  BY <1>4, <1>6, <1>11
<1>12. OneMailPlace'
  <2> SUFFICES ASSUME NEW i \in Ids, NEW j \in Ids, NEW n \in DOMAIN Mail(i)',
                      NEW l \in DOMAIN Mail(j)', Mail(i)'[n] = Mail(j)'[l]
               PROVE  i = j /\ n = l
    BY DEF OneMailPlace
  <2>1. PICK p \in Ids : /\ p = IF i = b THEN a ELSE i
                         /\ n \in DOMAIN Mail(p) /\ Mail(i)'[n] = Mail(p)[n]
    BY <1>1, <1>11
  <2>2. PICK q \in Ids : /\ q = IF j = b THEN a ELSE j
                         /\ l \in DOMAIN Mail(q) /\ Mail(j)'[l] = Mail(q)[l]
    BY <1>1, <1>11
  <2>3. p = q /\ n = l
    <3>1. OneMailPlace /\ Mail(p)[n] = Mail(q)[l]
      BY <1>1, <2>1, <2>2 DEF MailInv
    <3> QED
      BY <2>1, <2>2, <3>1 DEF OneMailPlace
  <2>4. i # a /\ j # a
    BY <1>6
  <2> QED
    BY <2>1, <2>2, <2>3, <2>4
<1>13. WasSent'
  BY <1>1, <1>2, <1>11 DEF MailInv, WasSent
<1>14. AtRest'
  <2> SUFFICES ASSUME NEW i \in Ids, ~HalfMoved(i)'  PROVE ReadUpTo(i, Offset(i))'
    BY DEF AtRest
  <2>1. i \in Ids \ {a, b} /\ ~HalfMoved(i)
    BY <1>8, <1>9
  <2> QED
    BY <1>1, <1>2, <1>4, <1>5, <2>1 DEF MailInv, AtRest, ReadUpTo
<1>15. UnderWay'
  <2> SUFFICES ASSUME NEW d \in Calls, pc'[d] = "cursor"
               PROVE  /\ cursor[new[d]] = NoFile
                      /\ ReadUpTo(new[d], Offset(id[d]))'
                      /\ ReadUpTo(id[d], 0)'
    BY <1>2 DEF UnderWay
  <2>1. CASE d = c
    <3>1. ReadUpTo(a, Offset(a))
      BY <1>1 DEF MailInv, AtRest
    <3> QED
      BY <1>0, <1>1, <1>2, <1>4, <1>5, <1>6, <2>1, <3>1 DEF ReadUpTo
  <2>2. CASE d # c
    <3>1. /\ pc[d] = "cursor" /\ id[d] \in Ids \ {a, b} /\ new[d] \in Ids \ {a, b}
      BY <1>3, <1>7, <2>2
    <3>2. cursor[new[d]] = NoFile /\ ReadUpTo(new[d], Offset(id[d])) /\ ReadUpTo(id[d], 0)
      BY <1>1, <3>1 DEF MailInv, UnderWay
    <3> QED
      BY <1>2, <1>4, <1>5, <3>1, <3>2 DEF ReadUpTo
  <2> QED
    BY <2>1, <2>2
<1>16. \A m : Placed(m) => Placed(m)'
  <2> SUFFICES ASSUME NEW i \in Ids, NEW n \in DOMAIN Mail(i)
               PROVE  \E j \in Ids : \E l \in DOMAIN Mail(j)' : Mail(j)'[l] = Mail(i)[n]
    BY DEF Placed
  <2>1. CASE i = a
    BY <1>1, <1>4, <2>1
  <2>2. CASE i \in Ids \ {a, b}
    BY <1>4, <2>2
  <2> QED
    BY <1>6, <2>1, <2>2
<1>17. AllPlaced'
  BY <1>1, <1>2, <1>16 DEF MailInv, AllPlaced
<1> QED
  BY <1>1, <1>2, <1>10, <1>12, <1>13, <1>14, <1>15, <1>17 DEF MailInv

\* ... and then the cursor, behind which the inbox stands.
LEMMA RenameCursorKeepsMail ==
  ASSUME RegistryInv, NEW c \in Calls, RenameCursor(c), ~clash'  PROVE MailInv'
<1>0. PICK a \in Ids, b \in Ids : a = id[c] /\ b = new[c]
  BY DEF RegistryInv, RegistryTypeOK
<1>1. /\ RegistryTypeOK /\ MailInv /\ pc[c] = "cursor"
      /\ a # b
  BY <1>0 DEF RegistryInv, RenameCursor, RegistryTypeOK, Renames
<1>2. UNCHANGED <<id, new, inbox, sent, delivered, again, orphaned>>
  BY DEF RenameCursor, Step, mailVars
<1>3. /\ pc'[c] = "idle"
      /\ \A d \in Calls \ {c} : pc'[d] = pc[d]
  BY <1>1 DEF RenameCursor, Step, RegistryTypeOK
<1>4. cursor[b] = NoFile /\ ReadUpTo(b, Offset(a)) /\ ReadUpTo(a, 0)
  BY <1>0, <1>1 DEF MailInv, UnderWay
<1>5. /\ Offset(b)' = Offset(a) /\ Offset(a)' = 0
      /\ \A i \in Ids \ {a, b} : cursor'[i] = cursor[i] /\ Offset(i)' = Offset(i)
  <2>1. CASE cursor[a] = NoFile
    BY <1>0, <1>1, <1>4, <2>1 DEF RenameCursor, Moved, Offset
  <2>2. CASE cursor[a] # NoFile
    <3>1. /\ cursor'[b] = cursor[a] /\ cursor'[a] = NoFile
          /\ \A i \in Ids \ {a, b} : cursor'[i] = cursor[i]
      BY <1>0, <1>1, <2>2 DEF RenameCursor, Moved, RegistryTypeOK
    <3> QED
      BY <2>2, <3>1 DEF Offset
  <2> QED
    BY <2>1, <2>2
<1>6. \A i \in Ids : Mail(i)' = Mail(i)
  BY <1>2 DEF Mail
<1>7. \A d \in Calls \ {c} : pc[d] = "cursor" =>
         id[d] \in Ids \ {a, b} /\ new[d] \in Ids \ {a, b}
  BY <1>0, <1>1 DEF MailInv, Apart, RegistryTypeOK
<1>8. \A i \in Ids \ {a, b} : HalfMoved(i)' <=> HalfMoved(i)
  BY <1>0, <1>2, <1>3 DEF HalfMoved
<1>9. Apart'
  BY <1>1, <1>2, <1>3 DEF MailInv, Apart
<1>10. OneMailPlace' /\ WasSent' /\ AllPlaced' /\ again' = {}
  BY <1>1, <1>2, <1>6 DEF MailInv, OneMailPlace, WasSent, AllPlaced, Placed
<1>11. AtRest'
  <2> SUFFICES ASSUME NEW i \in Ids, ~HalfMoved(i)'  PROVE ReadUpTo(i, Offset(i))'
    BY DEF AtRest
  <2>1. CASE i \in {a, b}
    BY <1>2, <1>4, <1>5, <1>6, <2>1 DEF ReadUpTo
  <2>2. CASE i \notin {a, b}
    BY <1>1, <1>2, <1>5, <1>6, <1>8, <2>2 DEF MailInv, AtRest, ReadUpTo
  <2> QED
    BY <2>1, <2>2
<1>12. UnderWay'
  <2> SUFFICES ASSUME NEW d \in Calls, pc'[d] = "cursor"
               PROVE  /\ cursor'[new[d]] = NoFile
                      /\ ReadUpTo(new[d], Offset(id[d]))'
                      /\ ReadUpTo(id[d], 0)'
    BY <1>2 DEF UnderWay
  <2>1. /\ pc[d] = "cursor" /\ id[d] \in Ids \ {a, b} /\ new[d] \in Ids \ {a, b}
    BY <1>3, <1>7
  <2>2. cursor[new[d]] = NoFile /\ ReadUpTo(new[d], Offset(id[d])) /\ ReadUpTo(id[d], 0)
    BY <1>1, <2>1 DEF MailInv, UnderWay
  <2> QED
    BY <1>2, <1>5, <1>6, <2>1, <2>2 DEF ReadUpTo
<1> QED
  BY <1>9, <1>10, <1>11, <1>12 DEF MailInv

LEMMA MailNext ==
  ASSUME RegistryInv, [RegistryNext]_registryVars, ~clash'  PROVE MailInv'
<1> USE DEF fileVars, callVars, mailVars
<1>1. ASSUME NEW i \in Ids, Register(i) \/ Evict(i)  PROVE MailInv'
  BY <1>1, MailStays DEF Register, Evict
<1>2. ASSUME NEW i \in Ids, Send(i)  PROVE MailInv'
  BY <1>2, SendKeepsMail DEF Send
<1>3. ASSUME NEW i \in Ids, Read(i)  PROVE MailInv'
  BY <1>3, ReadKeepsMail
<1>4. ASSUME NEW i \in Ids, NEW r \in Rooms, JoinRoom(i, r) \/ LeaveRoom(i, r)  PROVE MailInv'
  BY <1>4, MailStays DEF JoinRoom, LeaveRoom
<1>5. ASSUME NEW c \in Calls, NEW i \in Ids, NEW n \in Ids, NEW s \in {"leave", "registry"},
             Begin(c, i, n, s), UNCHANGED <<inbox, cursor, mailVars, clash>>
      PROVE  MailInv'
  BY <1>5, MailStays DEF Begin, RegistryInv, RegistryTypeOK
<1>6. ASSUME NEW c \in Calls, NEW i \in Ids, Unregister(c, i)  PROVE MailInv'
  BY <1>5, <1>6 DEF Unregister
<1>7. ASSUME NEW c \in Calls, NEW i \in Ids, PruneInbox(c, i)  PROVE MailInv'
  BY <1>7, PruneInboxKeepsMail
<1>8. ASSUME NEW c \in Calls, NEW i \in Ids, NEW n \in Ids, RenameCheck(c, i, n)
      PROVE  MailInv'
  BY <1>5, <1>8 DEF RenameCheck
<1>9. ASSUME NEW c \in Calls, NEW s \in {"idle", "members", "inbox"},
             pc[c] # "cursor", Step(c, s), UNCHANGED <<inbox, cursor, mailVars>>, ~clash
      PROVE  MailInv'
  BY <1>9, MailStays DEF Step, RegistryInv, RegistryTypeOK
<1>10. ASSUME NEW c \in Calls, UnregisterRooms(c)  PROVE MailInv'
  BY <1>9, <1>10 DEF UnregisterRooms
<1>11. ASSUME NEW c \in Calls, RenameRegistry(c)  PROVE MailInv'
  BY <1>9, <1>11 DEF RenameRegistry
<1>12. ASSUME NEW c \in Calls, RenameMembers(c)  PROVE MailInv'
  BY <1>9, <1>12 DEF RenameMembers
<1>13. ASSUME NEW c \in Calls, RenameInbox(c) \/ RenameCursor(c)  PROVE MailInv'
  BY <1>13, RenameInboxKeepsMail, RenameCursorKeepsMail
<1>14. ASSUME NEW c \in Calls, PruneRead(c)  PROVE MailInv'
  BY <1>14, MailStays DEF PruneRead, Begin, RegistryInv, RegistryTypeOK
<1>15. ASSUME NEW c \in Calls, PruneList(c) \/ PruneMembers(c)  PROVE MailInv'
  BY <1>15, MailStays DEF PruneList, PruneMembers, RegistryInv, RegistryTypeOK
<1>16. ASSUME UNCHANGED registryVars  PROVE MailInv'
  BY <1>16, MailStays DEF registryVars
<1> QED
  BY <1>1, <1>2, <1>3, <1>4, <1>6, <1>7, <1>8, <1>10, <1>11, <1>12, <1>13, <1>14, <1>15, <1>16
  DEF RegistryNext, Handle

-----------------------------------------------------------------------------
(* The rooms and the registry                                              *)

\* Whoever was accounted for still is, and nobody else comes in.
LEMMA MembersStay ==
  ASSUME RegistryInv, ~clash, \A i \in Ids : Accounted(i) => Accounted(i)',
         \A r \in Rooms : \A i \in members'[r] : i \in members[r] \/ Accounted(i)',
         \A c \in Calls : pc'[c] = "members" => \E i \in Ids :
            i = new'[c] /\ (Accounted(i)' \/ (pc[c] = "members" /\ new'[c] = new[c]))
  PROVE  Members'
<1>1. Members /\ \A r \in Rooms : members[r] \subseteq Ids
  BY DEF RegistryInv, RegistryTypeOK
<1>2. \A r \in Rooms : \A i \in members'[r] : Accounted(i)'
  BY <1>1 DEF Members
<1>3. ASSUME NEW c \in Calls, pc'[c] = "members"  PROVE Accounted(new[c])'
  <2>1. PICK i \in Ids : i = new'[c] /\ Accounted(i)'
    BY <1>1, <1>3 DEF Members
  <2> QED
    BY <2>1 DEF Accounted, Leaving, Renaming
<1> QED
  BY <1>2, <1>3 DEF Members

LEMMA RenameMembersKeeps ==
  ASSUME RegistryInv, NEW c \in Calls, RenameMembers(c), ~clash'  PROVE Members'
<1>0. PICK a \in Ids, b \in Ids : a = id[c] /\ b = new[c]
  BY DEF RegistryInv, RegistryTypeOK
<1>1. /\ RegistryTypeOK /\ Members /\ pc[c] = "members" /\ a # b
      /\ \A d \in Calls \ {c} : pc[d] = "members" => {id[d], new[d]} \cap {a, b} = {}
  BY <1>0 DEF RegistryInv, RenameMembers, Renames
<1>2. /\ UNCHANGED <<registered, strangers, id, new>>
      /\ pc'[c] = "inbox" /\ \A d \in Calls \ {c} : pc'[d] = pc[d]
  BY <1>1 DEF RenameMembers, Step, mailVars, RegistryTypeOK
<1>3. ASSUME NEW i \in Ids \ {a}, Accounted(i)  PROVE Accounted(i)'
  BY <1>0, <1>1, <1>2, <1>3 DEF Accounted, Leaving, Renaming
<1>4. Accounted(b)
  BY <1>0, <1>1 DEF Members
<1>5. ASSUME NEW r \in Rooms, NEW i \in members'[r]  PROVE Accounted(i)'
  <2>1. i = b \/ (i \in members[r] /\ i # a /\ i \in Ids)
    BY <1>0, <1>1, <1>5 DEF RenameMembers, RegistryTypeOK
  <2> QED
    BY <1>1, <1>3, <1>4, <2>1 DEF Members
<1>6. ASSUME NEW d \in Calls, pc'[d] = "members"  PROVE Accounted(new[d])'
  <2>1. PICK i \in Ids \ {a} : i = new[d] /\ Accounted(i)
    BY <1>1, <1>2, <1>6 DEF Members, RegistryTypeOK
  <2>2. Accounted(i)'
    BY <1>3, <2>1
  <2> QED
    BY <1>2, <2>1, <2>2 DEF Accounted, Leaving, Renaming
<1> QED
  BY <1>5, <1>6 DEF Members

LEMMA UnregisterRoomsKeeps ==
  ASSUME RegistryInv, NEW c \in Calls, UnregisterRooms(c), ~clash'  PROVE Members'
<1>0. PICK a \in Ids : a = id[c]
  BY DEF RegistryInv, RegistryTypeOK
<1>1. /\ RegistryTypeOK /\ Members /\ pc[c] = "leave" /\ ~Moving(a)
  BY <1>0 DEF RegistryInv, UnregisterRooms
<1>2. /\ UNCHANGED <<registered, strangers, id, new>>
      /\ pc'[c] = "idle" /\ \A d \in Calls \ {c} : pc'[d] = pc[d]
      /\ \A r \in Rooms : members'[r] = members[r] \ {a}
  BY <1>0, <1>1 DEF UnregisterRooms, Step, mailVars, RegistryTypeOK
<1>3. ASSUME NEW i \in Ids \ {a}, Accounted(i)  PROVE Accounted(i)'
  BY <1>0, <1>1, <1>2, <1>3 DEF Accounted, Leaving, Renaming
<1>4. ASSUME NEW r \in Rooms, NEW i \in members'[r]  PROVE Accounted(i)'
  BY <1>1, <1>2, <1>3, <1>4 DEF Members, RegistryTypeOK
<1>5. ASSUME NEW d \in Calls, pc'[d] = "members"  PROVE Accounted(new[d])'
  <2>1. PICK i \in Ids \ {a} : i = new[d] /\ Accounted(i)
    BY <1>1, <1>2, <1>5 DEF Members, RegistryTypeOK, Moving
  <2>2. Accounted(i)'
    BY <1>3, <2>1
  <2> QED
    BY <1>2, <2>1, <2>2 DEF Accounted, Leaving, Renaming
<1> QED
  BY <1>4, <1>5 DEF Members

LEMMA MembersNext ==
  ASSUME RegistryInv, [RegistryNext]_registryVars, ~clash'  PROVE Members'
<1> USE DEF fileVars, callVars, mailVars, Accounted, Leaving, Renaming
<1>0. RegistryTypeOK /\ \A c \in Calls : new[c] \in Ids
  BY DEF RegistryInv, RegistryTypeOK
<1>1. ASSUME ~clash, members' = members, UNCHANGED <<pc, id, new>>,
             registered \cup strangers \subseteq registered' \cup strangers'
      PROVE  Members'
  BY <1>0, <1>1, MembersStay
<1>2. ASSUME NEW i \in Ids, Register(i) \/ Evict(i) \/ Send(i) \/ Read(i)  PROVE Members'
  BY <1>1, <1>2 DEF Register, Evict, Send, Read
<1>3. ASSUME NEW i \in Ids, NEW r \in Rooms, JoinRoom(i, r)  PROVE Members'
  BY <1>0, <1>3, MembersStay DEF JoinRoom, RegistryTypeOK
<1>4. ASSUME NEW i \in Ids, NEW r \in Rooms, LeaveRoom(i, r)  PROVE Members'
  BY <1>0, <1>4, MembersStay DEF LeaveRoom, RegistryTypeOK
<1>5. ASSUME NEW c \in Calls, NEW i \in Ids, Unregister(c, i)  PROVE Members'
  BY <1>0, <1>5, MembersStay DEF Unregister, Begin, RegistryTypeOK
<1>6. ASSUME NEW c \in Calls, NEW i \in Ids, NEW n \in Ids, RenameCheck(c, i, n)
      PROVE  Members'
  BY <1>0, <1>6, MembersStay DEF RenameCheck, Begin, RegistryTypeOK
<1>7. ASSUME NEW c \in Calls, RenameRegistry(c)  PROVE Members'
  BY <1>0, <1>7, MembersStay DEF RenameRegistry, Step, RegistryTypeOK
<1>8. ASSUME NEW c \in Calls, RenameInbox(c) \/ RenameCursor(c)  PROVE Members'
  BY <1>0, <1>8, MembersStay DEF RenameInbox, RenameCursor, Step, RegistryTypeOK
<1>9. ASSUME NEW c \in Calls, PruneRead(c) \/ PruneList(c) \/ PruneMembers(c)  PROVE Members'
  BY <1>0, <1>9, MembersStay DEF PruneRead, PruneList, PruneMembers, Begin, RegistryTypeOK
<1>10. ASSUME NEW c \in Calls, NEW i \in Ids, PruneInbox(c, i)  PROVE Members'
  BY <1>1, <1>10 DEF PruneInbox
<1>11. ASSUME UNCHANGED registryVars  PROVE Members'
  BY <1>1, <1>11 DEF registryVars
<1>12. ASSUME NEW c \in Calls, UnregisterRooms(c) \/ RenameMembers(c)  PROVE Members'
  BY <1>12, UnregisterRoomsKeeps, RenameMembersKeeps
<1> QED
  BY <1>2, <1>3, <1>4, <1>5, <1>6, <1>7, <1>8, <1>9, <1>10, <1>11, <1>12
  DEF RegistryNext, Handle

LEMMA CountedNext ==
  ASSUME RegistryInv, [RegistryNext]_registryVars  PROVE Counted'
<1> USE DEF fileVars, callVars, mailVars
<1>0. /\ IsFiniteSet(registered) /\ (~clash => Cardinality(registered) = heads)
      /\ RegistryTypeOK /\ Cardinality(registered) \in Nat
  BY FS_CardinalityType DEF RegistryInv, Counted
<1>1. ASSUME UNCHANGED <<registered, heads>>, clash => clash'  PROVE Counted'
  BY <1>0, <1>1 DEF Counted
<1>2. ASSUME NEW i \in Ids, Register(i)  PROVE Counted'
  BY <1>0, <1>2, FS_AddElement DEF Counted, Register
<1>3. ASSUME NEW i \in Ids, Evict(i)  PROVE Counted'
  BY <1>0, <1>3, FS_RemoveElement DEF Counted, Evict
<1>4. ASSUME NEW c \in Calls, NEW i \in Ids, Unregister(c, i)  PROVE Counted'
  BY <1>0, <1>4, FS_RemoveElement DEF Counted, Unregister
<1>5. ASSUME NEW c \in Calls, RenameRegistry(c)  PROVE Counted'
  <2>1. CASE id[c] \in registered
    <3> DEFINE rest == registered \ {id[c]}
    <3>1. IsFiniteSet(rest) /\ Cardinality(rest) = Cardinality(registered) - 1
      BY <1>0, <2>1, FS_RemoveElement
    <3>2. /\ IsFiniteSet(rest \cup {new[c]})
          /\ Cardinality(rest \cup {new[c]}) =
               IF new[c] \in rest THEN Cardinality(rest) ELSE Cardinality(rest) + 1
      BY <3>1, FS_AddElement
    <3>3. registered' = rest \cup {new[c]} /\ heads' = heads
      BY <1>5, <2>1 DEF RenameRegistry
    <3>4. ~clash' => ~clash /\ new[c] \notin rest
      BY <1>5 DEF RenameRegistry
    <3> HIDE DEF rest
    <3> QED
      BY <1>0, <3>1, <3>2, <3>3, <3>4 DEF Counted
  <2>2. CASE id[c] \notin registered
    BY <1>0, <1>5, <2>2 DEF Counted, RenameRegistry
  <2> QED
    BY <2>1, <2>2
<1>6. ASSUME NEW i \in Ids, Send(i) \/ Read(i)  PROVE Counted'
  BY <1>1, <1>6 DEF Send, Read
<1>7. ASSUME NEW i \in Ids, NEW r \in Rooms, JoinRoom(i, r) \/ LeaveRoom(i, r)  PROVE Counted'
  BY <1>1, <1>7 DEF JoinRoom, LeaveRoom
<1>8. ASSUME NEW c \in Calls, NEW i \in Ids, NEW n \in Ids,
             RenameCheck(c, i, n) \/ PruneInbox(c, i)
      PROVE  Counted'
  BY <1>1, <1>8 DEF RenameCheck, PruneInbox
<1>9. ASSUME NEW c \in Calls, UnregisterRooms(c) \/ RenameMembers(c) \/ RenameInbox(c)
             \/ RenameCursor(c) \/ PruneRead(c) \/ PruneList(c) \/ PruneMembers(c)
      PROVE  Counted'
  BY <1>1, <1>9 DEF UnregisterRooms, RenameMembers, RenameInbox, RenameCursor, PruneRead,
                    PruneList, PruneMembers
<1>10. ASSUME UNCHANGED registryVars  PROVE Counted'
  BY <1>1, <1>10 DEF registryVars
<1> QED
  BY <1>2, <1>3, <1>4, <1>5, <1>6, <1>7, <1>8, <1>9, <1>10 DEF RegistryNext, Handle

LEMMA RenamesNext ==
  ASSUME RegistryInv, [RegistryNext]_registryVars  PROVE Renames'
<1> USE DEF fileVars, callVars, mailVars, Renames, RegistryInv, RegistryTypeOK
<1>1. ASSUME UNCHANGED <<pc, id, new>>  PROVE Renames'
  BY <1>1
<1>2. ASSUME NEW i \in Ids, Register(i) \/ Evict(i) \/ Send(i) \/ Read(i)  PROVE Renames'
  BY <1>1, <1>2 DEF Register, Evict, Send, Read
<1>3. ASSUME NEW i \in Ids, NEW r \in Rooms, JoinRoom(i, r) \/ LeaveRoom(i, r)  PROVE Renames'
  BY <1>1, <1>3 DEF JoinRoom, LeaveRoom
<1>4. ASSUME NEW c \in Calls, NEW i \in Ids, NEW n \in Ids, NEW s \in {"leave", "list", "registry"},
             Begin(c, i, n, s), s = "registry" => i # n
      PROVE  Renames'
  BY <1>4 DEF Begin
<1>5. ASSUME NEW c \in Calls, NEW i \in Ids, NEW n \in Ids,
             Unregister(c, i) \/ RenameCheck(c, i, n) \/ PruneRead(c)
      PROVE  Renames'
  BY <1>4, <1>5 DEF Unregister, RenameCheck, PruneRead
<1>6. ASSUME NEW c \in Calls, NEW i \in Ids, PruneInbox(c, i)  PROVE Renames'
  BY <1>1, <1>6 DEF PruneInbox
<1>7. ASSUME NEW c \in Calls, NEW s \in {"idle", "members", "inbox", "cursor"},
             pc[c] \notin {"idle", "leave", "list", "sweep"} \/ s = "idle", Step(c, s)
      PROVE  Renames'
  BY <1>7 DEF Step
<1>8. ASSUME NEW c \in Calls, UnregisterRooms(c) \/ RenameRegistry(c) \/ RenameMembers(c)
             \/ RenameInbox(c) \/ RenameCursor(c)
      PROVE  Renames'
  BY <1>7, <1>8 DEF UnregisterRooms, RenameRegistry, RenameMembers, RenameInbox, RenameCursor
<1>9. ASSUME NEW c \in Calls, PruneList(c) \/ PruneMembers(c)  PROVE Renames'
  BY <1>9 DEF PruneList, PruneMembers
<1>10. ASSUME UNCHANGED registryVars  PROVE Renames'
  BY <1>1, <1>10 DEF registryVars
<1> QED
  BY <1>2, <1>3, <1>5, <1>6, <1>8, <1>9, <1>10 DEF RegistryNext, Handle

LEMMA RegistryInvInit == RegistryInit => RegistryInv
<1> SUFFICES ASSUME RegistryInit  PROVE RegistryInv
  OBVIOUS
<1> USE DEF RegistryInit
<1>1. RegistryTypeOK /\ sent \in 0..MaxMail
  BY BoundAssumption DEF RegistryTypeOK
<1>2. Renames /\ Members /\ Apart
  BY DEF Renames, Members, Apart
<1>3. Counted
  BY FS_EmptySet DEF Counted
<1>4. \A i \in Ids : Mail(i) = <<>> /\ Offset(i) = 0
  BY DEF Mail, Offset
<1>5. \A i \in Ids : Len(Mail(i)) = 0 /\ DOMAIN Mail(i) = {}
  BY <1>4
<1>6. OneMailPlace /\ WasSent
  BY <1>5 DEF OneMailPlace, WasSent
<1>7. AtRest /\ UnderWay
  BY <1>4, <1>5 DEF AtRest, UnderWay, ReadUpTo
<1>8. AllPlaced
  BY DEF AllPlaced
<1> QED
  BY <1>1, <1>2, <1>3, <1>6, <1>7, <1>8 DEF RegistryInv, MailInv

LEMMA RegistryInvNext == RegistryInv /\ [RegistryNext]_registryVars => RegistryInv'
<1> SUFFICES ASSUME RegistryInv, [RegistryNext]_registryVars  PROVE RegistryInv'
  OBVIOUS
<1>1. RegistryTypeOK' /\ sent' \in 0..MaxMail
  BY RegistryTypeNext DEF RegistryInv
<1>2. Renames' /\ Counted'
  BY RenamesNext, CountedNext
<1>3. clash' \/ (Members' /\ MailInv')
  BY MembersNext, MailNext
<1> QED
  BY <1>1, <1>2, <1>3 DEF RegistryInv

LEMMA RegistryInvAlways == RegistrySpec => []RegistryInv
<1>1. RegistryInit => RegistryInv
  BY RegistryInvInit
<1>2. RegistryInv /\ [RegistryNext]_registryVars => RegistryInv'
  BY RegistryInvNext
<1> QED
  BY <1>1, <1>2, PTL DEF RegistrySpec

\* The files and the calls of the registry keep their types, for any ids, rooms
\* and calls.
THEOREM RegistryTypeAlways == RegistrySpec => []RegistryTypeOK
<1>1. RegistryInv => RegistryTypeOK
  BY DEF RegistryInv
<1> QED
  BY <1>1, RegistryInvAlways, PTL

\* A message that is nowhere yet read or deleted is unread at an id that no
\* rename has half moved, or stands at one of the two that one has.
LEMMA InvMailKept == RegistryInv => MailKeptOnce
<1> SUFFICES ASSUME RegistryInv, ~clash  PROVE MailKeptOnce
  BY DEF MailKeptOnce, MailKept, ReadOnce
<1>1. MailInv /\ RegistryTypeOK
  BY DEF RegistryInv
<1>2. ReadOnce
  BY <1>1 DEF MailInv, ReadOnce
<1>3. ASSUME NEW m \in 1..sent, m \notin delivered \cup orphaned
      PROVE  \/ \E i \in Ids : m \in Unread(i)
             \/ \E c \in Calls : pc[c] = "cursor" /\ m \in Ids_(Mail(id[c]))
  <2>0. PICK i \in Ids : \E n \in DOMAIN Mail(i) : Mail(i)[n] = m
    BY <1>1, <1>3 DEF MailInv, AllPlaced, Placed
  <2>1. PICK n \in DOMAIN Mail(i) : Mail(i)[n] = m
    BY <2>0
  <2>2. DOMAIN Mail(i) = 1..Len(Mail(i)) /\ Len(Mail(i)) \in Nat /\ Offset(i) \in Nat
    BY <1>1, FileTypes
  <2>3. CASE ~HalfMoved(i)
    <3>1. n > Offset(i)
      BY <1>1, <1>3, <2>1, <2>2, <2>3 DEF MailInv, AtRest, ReadUpTo
    <3> QED
      BY <1>1, <2>1, <3>1, UnreadIs
  <2>4. ASSUME NEW c \in Calls, pc[c] = "cursor", i = new[c]
        PROVE  m \in Unread(i)
    <3>1. Offset(i) = 0
      BY <1>1, <2>4 DEF MailInv, UnderWay, Offset
    <3> QED
      BY <1>1, <2>1, <2>2, <3>1, UnreadIs
  <2>5. ASSUME NEW c \in Calls, pc[c] = "cursor", i = id[c]
        PROVE  m \in Ids_(Mail(id[c]))
    BY <2>1, <2>5 DEF Ids_
  <2> QED
    BY <2>3, <2>4, <2>5 DEF HalfMoved
<1> QED
  BY <1>2, <1>3 DEF MailKeptOnce, MailKept

\* For any number of ids, rooms and calls, and however renames, prunes,
\* departures, returns, evictions, sends and reads interleave: unless two of them
\* clash, mail is read once or still to be read, or went with an inbox that
\* nobody owned.
THEOREM MailKeptAlways == RegistrySpec => []MailKeptOnce
BY InvMailKept, RegistryInvAlways, PTL

\* ... and the registry has one entry for each agent that is there, and once no
\* call is under way the rooms hold nobody who has left.
THEOREM ConsistentAlways == RegistrySpec => []Consistent
<1>1. RegistryInv => Consistent
  <2> SUFFICES ASSUME RegistryInv, ~clash  PROVE Consistent
    BY DEF Consistent, OneEntryEach, NoGhost
  <2>1. OneEntryEach
    BY DEF OneEntryEach, RegistryInv, Counted
  <2>2. NoGhost
    BY DEF NoGhost, Settled, RegistryInv, Members, Accounted, Leaving, Renaming
  <2> QED
    BY <2>1, <2>2 DEF Consistent
<1> QED
  BY <1>1, RegistryInvAlways, PTL
=============================================================================
