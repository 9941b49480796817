------------------------------ MODULE Identity ------------------------------
(***************************************************************************)
(* Who a session of the HTTP server may act as (src/server.ts).            *)
(*                                                                         *)
(* tokens.json maps ids to bearer tokens.  The server reads it when it     *)
(* starts and on SIGHUP; every request must carry a token of the map it    *)
(* has in memory, and a session is bound, when it is made, to the id the   *)
(* map has then.  Without tokens.json a session is bound by the first id   *)
(* it claims.  rename_agent moves the registry entry and then the token in *)
(* the file, in two updates, and rebinds the session it came from; the map *)
(* in memory, and other sessions of the same client, stay as they are.     *)
(*                                                                         *)
(* A token is represented by the client that holds it.  A session has one  *)
(* call under way at a time.                                               *)
(***************************************************************************)
EXTENDS Integers, FiniteSets

CONSTANTS
  Ids,            \* the ids agents go by
  Tokens,         \* the clients' tokens
  Sessions,       \* the sessions a server may have at a time
  Provisions,     \* the contents tokens.json may have at the start
  MaxRenames,     \* bound: calls of rename_agent
  MaxStops,       \* bound: how often the server ends
  None

Maps == [Tokens -> Ids \cup {None}]
ASSUME ProvisionAssumption == Provisions \subseteq [Tokens -> Ids] \cup {None}
ASSUME IdentityBounds == MaxRenames \in Nat /\ MaxStops \in Nat
ASSUME NoneAssumption ==
  None \notin Ids \cup Maps \cup [token : Tokens, bound : Ids \cup {None}]

VARIABLES
  tokens, torn,   \* tokens.json, None if there is none; it is emptied and
                  \* not yet written again
  up, map,        \* the server runs; its map from tokens to ids, or None
  registered,     \* the ids in agents.json
  session,        \* the sessions: token and bound id, or None
  rename,         \* each session's rename_agent: where it is, and the new id
  renames, stops, \* history: how many there were
  outdated,       \* history: sessions that were bound by an old map, or whose
                  \* entry was moved by a rename in another session
  displaced       \* history: tokens whose id another client took as its name,
                  \* and all of them when the server ended with the file empty

serverVars == <<up, map, session, rename>>
identityVars == <<tokens, torn, serverVars, registered, renames, stops, outdated, displaced>>

NoRename == [at |-> "idle", old |-> None, new |-> None]

IdentityInit ==
  /\ tokens \in Provisions /\ torn = FALSE
  /\ up = TRUE /\ map = tokens
  /\ registered = {}
  /\ session = [s \in Sessions |-> None]
  /\ rename = [s \in Sessions |-> NoRename]
  /\ renames = 0 /\ stops = 0
  /\ outdated = {} /\ displaced = {}

Live == {s \in Sessions : session[s] # None}
Bound(s) == session[s].bound

-----------------------------------------------------------------------------
(* The server and its map                                                  *)

\* A file that does not parse is fatal at the start.
ServerStarts ==
  /\ ~up /\ ~torn
  /\ up' = TRUE /\ map' = tokens
  /\ UNCHANGED <<tokens, torn, session, rename, registered, renames, stops, outdated, displaced>>

\* On SIGHUP it is reported, and the old map stays.
Sighup ==
  /\ up
  /\ map' = IF torn THEN map ELSE tokens
  /\ UNCHANGED <<tokens, torn, up, session, rename, registered, renames, stops, outdated,
                 displaced>>

\* Every session ends with the process, and a rename stays half done.
ServerEnds ==
  /\ up /\ stops < MaxStops
  /\ up' = FALSE /\ stops' = stops + 1 /\ map' = None
  /\ session' = [s \in Sessions |-> None]
  /\ rename' = [s \in Sessions |-> NoRename]
  /\ outdated' = {}
  /\ displaced' = IF \E s \in Sessions : rename[s].at = "write" THEN Tokens ELSE displaced
  /\ UNCHANGED <<tokens, torn, registered, renames>>

-----------------------------------------------------------------------------
(* Sessions                                                                *)

\* The token of a request must be in the map, if there is one.
Admitted(t) == map # None => map[t] # None

Connect(s, t) ==
  /\ up /\ session[s] = None /\ Admitted(t)
  /\ session' = [session EXCEPT ![s] =
       [token |-> t, bound |-> IF map = None THEN None ELSE map[t]]]
  /\ outdated' = IF map # tokens THEN outdated \cup {s} ELSE outdated \ {s}
  /\ UNCHANGED <<tokens, torn, up, map, rename, registered, renames, stops, displaced>>

Disconnect(s) ==
  /\ s \in Live /\ rename[s] = NoRename
  /\ session' = [session EXCEPT ![s] = None]
  /\ outdated' = outdated \ {s}
  /\ UNCHANGED <<tokens, torn, up, map, rename, registered, renames, stops, displaced>>

\* A call in the name of id: an unbound session is bound to it for good, and
\* a bound one is refused another name.
Gate(s, id) ==
  /\ s \in Live /\ rename[s] = NoRename /\ Admitted(session[s].token)
  /\ Bound(s) \in {None, id}
  /\ session' = [session EXCEPT ![s].bound = id]

Register(s, id) ==
  /\ Gate(s, id)
  /\ registered' = registered \cup {id}
  /\ UNCHANGED <<tokens, torn, up, map, rename, renames, stops, outdated, displaced>>

\* quit unregisters the agent and has the process exit a moment later, with
\* all its sessions: ServerEnds.
Quit(s, id) ==
  /\ Gate(s, id)
  /\ id \in registered /\ stops < MaxStops
  /\ registered' = registered \ {id}
  /\ UNCHANGED <<tokens, torn, up, map, rename, renames, stops, outdated, displaced>>

-----------------------------------------------------------------------------
(* rename_agent, step by step                                              *)

RenameBegins(s, id, new) ==
  /\ renames < MaxRenames
  /\ Gate(s, id)
  /\ id # new /\ id \in registered /\ new \notin registered
  /\ rename' = [rename EXCEPT ![s] = [at |-> "registry", old |-> id, new |-> new]]
  /\ renames' = renames + 1
  /\ UNCHANGED <<tokens, torn, up, map, registered, stops, outdated, displaced>>

\* Whether the old id is still there is not reported.
RenameRegistry(s) ==
  /\ rename[s].at = "registry"
  /\ registered' = IF rename[s].old \in registered
                   THEN (registered \ {rename[s].old}) \cup {rename[s].new} ELSE registered
  /\ rename' = [rename EXCEPT ![s].at = IF tokens = None THEN "reply" ELSE "rotate"]
  /\ UNCHANGED <<tokens, torn, up, map, session, renames, stops, outdated, displaced>>

\* updateJson empties the file under the lock ...
RotateBegins(s) ==
  /\ rename[s].at = "rotate" /\ ~torn
  /\ torn' = TRUE
  /\ rename' = [rename EXCEPT ![s].at = "write"]
  /\ UNCHANGED <<tokens, up, map, session, registered, renames, stops, outdated, displaced>>

Holders(id) == {t \in Tokens : tokens[t] = id}
Moves(old, new) == IF Holders(old) = {} THEN {} ELSE Holders(old) \cup Holders(new)

\* A token that had the new id is overwritten; without one for the old id
\* nothing changes.
Rotated(old, new) ==
  [t \in Tokens |-> IF Holders(old) = {} THEN tokens[t]
                    ELSE IF tokens[t] = old THEN new
                    ELSE IF tokens[t] = new THEN None ELSE tokens[t]]

\* Mutant of RotateWrites: the entry is deleted before it is copied.
RotateWritesLate(s) ==
  /\ rename[s].at = "write"
  /\ tokens' = [t \in Tokens |-> IF tokens[t] = rename[s].old THEN None ELSE tokens[t]]
  /\ torn' = FALSE
  /\ rename' = [rename EXCEPT ![s].at = "reply"]
  /\ UNCHANGED <<up, map, session, registered, renames, stops, outdated, displaced>>

\* ... and writes it.
RotateWrites(s) ==
  LET old == rename[s].old
      new == rename[s].new IN
  /\ rename[s].at = "write"
  /\ tokens' = Rotated(old, new)
  /\ torn' = FALSE
  /\ displaced' = displaced \cup (Moves(old, new) \ Holders(old))
  /\ outdated' = outdated \cup {x \in Live \ {s} : session[x].token \in Moves(old, new)}
  /\ rename' = [rename EXCEPT ![s].at = "reply"]
  /\ UNCHANGED <<up, map, session, registered, renames, stops>>

\* Mutant of RenameReplies: the session keeps its name.
RenameRepliesOnly(s) ==
  /\ rename[s].at = "reply"
  /\ rename' = [rename EXCEPT ![s] = NoRename]
  /\ UNCHANGED <<tokens, torn, up, map, session, registered, renames, stops, outdated, displaced>>

\* The reply is ok in any case, and the session goes by the new name.
RenameReplies(s) ==
  /\ rename[s].at = "reply"
  /\ session' = [session EXCEPT ![s].bound = rename[s].new]
  /\ rename' = [rename EXCEPT ![s] = NoRename]
  /\ UNCHANGED <<tokens, torn, up, map, registered, renames, stops, outdated, displaced>>

-----------------------------------------------------------------------------

IdentityNext ==
  \/ ServerStarts \/ Sighup \/ ServerEnds
  \/ \E s \in Sessions :
       \/ \E t \in Tokens : Connect(s, t)
       \/ Disconnect(s)
       \/ \E id \in Ids : Register(s, id) \/ Quit(s, id)
       \/ \E id, new \in Ids : RenameBegins(s, id, new)
       \/ RenameRegistry(s) \/ RotateBegins(s) \/ RotateWrites(s) \/ RenameReplies(s)

IdentityTypeOK ==
  /\ tokens \in Maps \cup {None} /\ torn \in BOOLEAN
  /\ up \in BOOLEAN /\ map \in Maps \cup {None}
  /\ registered \subseteq Ids
  /\ session \in [Sessions -> [token : Tokens, bound : Ids \cup {None}] \cup {None}]
  /\ rename \in [Sessions -> [at : {"idle", "registry", "rotate", "write", "reply"},
                              old : Ids \cup {None}, new : Ids \cup {None}]]
  /\ renames \in 0..MaxRenames /\ stops \in 0..MaxStops
  /\ outdated \subseteq Sessions /\ displaced \subseteq Tokens

\* A session goes by the id the file has for its token: renaming rebinds the
\* session and rotates the token, so the same bearer keeps authenticating the
\* renamed id.  Not covered are sessions bound by a map older than the file,
\* sessions whose entry another one moved, and renames that are under way.
SessionMatchesFile ==
  tokens # None =>
    \A s \in Live \ outdated :
      rename[s] = NoRename => Bound(s) = tokens[session[s].token]

\* Nobody is shut out: a client that had a token keeps one, whatever renames
\* and restarts do, unless another client took its id as a name or the server
\* ended between emptying the file and writing it.
NobodyShutOut ==
  tokens # None =>
    \A t \in Tokens \ displaced :
      /\ tokens[t] # None
      /\ torn => \E s \in Sessions : rename[s].at = "write"
=============================================================================
