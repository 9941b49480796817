------------------------------- MODULE Session -------------------------------
(***************************************************************************)
(* The server's sessions together with the history they hand out: a digest *)
(* belongs to the id its session was bound to, and a retrieve is gated by  *)
(* the id the session is bound to by then.                                 *)
(***************************************************************************)
EXTENDS Identity, History

VARIABLES
  moved           \* history: clients whose entry in tokens.json was moved

vars == <<identityVars, historyVars, moved>>

ASSUME OneBus == Owners = Ids /\ Callers = Tokens

Init == IdentityInit /\ HistoryInit /\ moved = {}

\* A room read with an overflow, in the name of id.
Overflow(s, id) ==
  /\ Gate(s, id)
  /\ StashBegins(session[s].token, id)
  /\ UNCHANGED <<tokens, torn, up, map, rename, registered, renames, stops, outdated, displaced>>

\* A retrieve that changes anything is one that finds an expired entry.
Retrieve(s, id, h) ==
  /\ Gate(s, id)
  /\ RetrieveExpired(session[s].token, h)
  /\ UNCHANGED <<tokens, torn, up, map, rename, registered, renames, stops, outdated, displaced>>

HistorySteps ==
  \/ \E c \in Callers :
       \/ StashLocks(c) \/ StashOpens(c) \/ StashWrites(c) \/ StashReplies(c)
       \/ RetrieveDeletes(c) \/ SweepReads(c)
       \/ \E h \in Hashes : SweepUnlinks(c, h)
  \/ \E h \in Hashes : Expire(h) \/ RolloverClears(h)

Next ==
  \/ /\ IdentityNext
     /\ IF up' THEN UNCHANGED historyVars
        ELSE HistoryDies \/ (~up /\ UNCHANGED historyVars)
     /\ moved' = moved \cup {t \in Tokens : tokens # None /\ tokens'[t] # tokens[t]}
  \/ HistorySteps /\ UNCHANGED <<identityVars, moved>>
  \/ (\E s \in Sessions, id \in Ids :
        \/ Overflow(s, id)
        \/ \E h \in Hashes : Retrieve(s, id, h)) /\ UNCHANGED moved

Spec == Init /\ [][Next]_vars

-----------------------------------------------------------------------------

\* A digest opens: what an agent was handed it can expand for thirty minutes,
\* over restarts of the server too, to the batch it stood for or one with the
\* same signature.  Not covered are agents that were renamed since, and entries
\* that a sweep or a retrieve unlinked under a writer or on the strength of what
\* was there before, that a /rollover unlinked, or whose writer died.
DigestOpens ==
  tokens # None =>
    \A s \in Live :
      LET c == session[s].token
          d == handed[c] IN
      (d # Nothing /\ c \notin moved /\ d.hash \notin old \cup hurt /\ Writing(d.hash) = {})
        => \E b \in Batches : /\ Signature[b] = Signature[d.batch]
                              /\ Retrieved(Bound(s), d.hash) = b
=============================================================================
