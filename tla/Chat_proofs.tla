----------------------------- MODULE Chat_proofs -----------------------------
(***************************************************************************)
(* What holds of coord-chat beside the server for any number of posts,     *)
(* commands, reads and deaths of the chat.                                 *)
(***************************************************************************)
EXTENDS Chat, SequenceTheorems, TLAPS

-----------------------------------------------------------------------------
(* The inductive invariant                                                 *)

Rewrites == {"write", "create", "shift", "shifted"}
Readers == {Me, Peer}

\* The types of what a command, the drain and the read of the peer have read.
CommandRecord ==
  [at : Rewrites \cup {"idle", "forward", "notice", "leave"},
   op : {"", "prune", "wipe", "rollover", "join", "part"},
   saw : Seq(Nat), cut : Nat, todo : SUBSET Readers, who : Readers, val : Nat]
DrainRecord == [at : {"idle", "save"}, upto : Nat]
CallRecord ==
  [at : {"idle", "looked", "loaded", "emptied"}, saw : Seq(Nat), base : Nat,
   replaced : BOOLEAN]

Records ==
  cmd \in CommandRecord /\ drain \in DrainRecord /\ call \in CallRecord /\ posted \in Nat

\* What a command does next follows from what it is.
Commanded ==
  /\ cmd.at = "write" =>
       cmd.op = "prune" /\ cmd.cut <= Len(cmd.saw) /\ Ids(cmd.saw) \subseteq 1..posted
  /\ cmd.at = "create" => cmd.op = "rollover"
  /\ cmd.at = "shifted" => cmd.who \notin cmd.todo
  /\ cmd.at \in {"shift", "shifted"} => cmd.op \in {"prune", "wipe", "rollover"}
  /\ ~up => cmd = NoCommand /\ drain = NoDrain

\* What a rewrite is about to overwrite is what it has read, or was posted since.
Overwritten ==
  /\ cmd.at = "write" => Ids(log) \subseteq Ids(cmd.saw) \cup exposed
  /\ cmd.at = "create" => Ids(log) \subseteq exposed

\* An offset o within a log s, all of whose messages up to o are among seen.
Covers(s, o, seen) == o <= Len(s) /\ \A i \in 1..o : s[i] \in seen

\* A rewrite c has yet to shift the offset of x.
Pending(c, x) == x \in c.todo \/ (c.at = "shifted" /\ c.who = x)

\* The offset o of x covers the log s or, while a command c rewrites it, will
\* when the command is through with it.
Keeps(s, c, o, x, seen) ==
  /\ c.at \notin Rewrites => Covers(s, o, seen)
  /\ c.at = "write" => Covers(c.saw, o, seen)
  /\ c.at \in {"shift", "shifted"} =>
       /\ Pending(c, x) /\ c.op = "prune" => Covers(s, Less(o, c.cut), seen)
       /\ ~Pending(c, x) => Covers(s, o, seen)
       /\ c.at = "shifted" /\ c.who = x => c.val = o

\* As long as no rewrite and no read of the peer overlap, the log only grows
\* under a read, which has the offset the peer still has.
PeerKept ==
  ~clash =>
    /\ cmd.at \in Rewrites => call.at = "idle"
    /\ call.at # "idle" =>
         /\ Len(call.saw) <= Len(log) /\ \A i \in 1..Len(call.saw) : call.saw[i] = log[i]
         /\ ~call.replaced
    /\ call.at \in {"loaded", "emptied"} => call.base = off[Peer]
    /\ Keeps(log, cmd, off[Peer], Peer, got)

\* As long as no command goes by a drain, what the drain is about to save
\* covers the log as well as what it has read.
MineKept ==
  up /\ joined /\ cmd.at # "forward" /\ ~lag =>
    /\ cmd.at \in Rewrites => drain.at = "idle"
    /\ drain.at = "save" => Covers(log, drain.upto, printed \cup skipped)
    /\ Keeps(log, cmd, off[Me], Me, printed \cup skipped)

IInv == TypeOK /\ Records /\ Commanded /\ Conserved /\ Overwritten /\ PeerKept /\ MineKept

-----------------------------------------------------------------------------
(* Offsets that cover a log                                                *)

LEMMA AppendIds ==
  ASSUME NEW s \in Seq(Nat), NEW m \in Nat
  PROVE  Append(s, m) \in Seq(Nat) /\ Ids(Append(s, m)) = Ids(s) \cup {m}
<1>1. /\ Append(s, m) \in Seq(Nat) /\ Len(Append(s, m)) = Len(s) + 1
      /\ \A i \in 1..Len(s) : Append(s, m)[i] = s[i]
      /\ Append(s, m)[Len(s) + 1] = m
      /\ DOMAIN s = 1..Len(s) /\ DOMAIN Append(s, m) = 1..(Len(s) + 1) /\ Len(s) \in Nat
  OBVIOUS
<1>2. Ids(Append(s, m)) \subseteq Ids(s) \cup {m}
  BY <1>1 DEF Ids
<1>3. Ids(s) \subseteq Ids(Append(s, m))
  BY <1>1 DEF Ids
<1>4. m \in Ids(Append(s, m))
  BY <1>1 DEF Ids
<1> QED
  BY <1>1, <1>2, <1>3, <1>4

\* What is cut off the front and what is left are all there was.
LEMMA CutIds ==
  ASSUME NEW s \in Seq(Nat), NEW k \in 0..Len(s)
  PROVE  /\ SubSeq(s, k + 1, Len(s)) \in Seq(Nat)
         /\ Len(SubSeq(s, k + 1, Len(s))) = Len(s) - k
         /\ \A i \in 1..(Len(s) - k) : SubSeq(s, k + 1, Len(s))[i] = s[k + i]
         /\ Ids(s) = Ids(SubSeq(s, 1, k)) \cup Ids(SubSeq(s, k + 1, Len(s)))
<1> DEFINE a == SubSeq(s, 1, k)
           b == SubSeq(s, k + 1, Len(s))
<1>1. /\ Len(s) \in Nat /\ k \in Nat /\ k <= Len(s) /\ DOMAIN s = 1..Len(s)
      /\ \A i \in 1..Len(s) : s[i] \in Nat
  OBVIOUS
<1>2. DOMAIN a = 1..k /\ \A i \in 1..k : a[i] = s[i]
  BY <1>1
<1>3. /\ b \in Seq(Nat) /\ Len(b) = Len(s) - k /\ DOMAIN b = 1..(Len(s) - k)
      /\ \A i \in 1..(Len(s) - k) : b[i] = s[k + i]
  <2>1. /\ b \in Seq(Nat)
        /\ Len(b) = IF k + 1 <= Len(s) THEN Len(s) - (k + 1) + 1 ELSE 0
        /\ \A i \in 1..(Len(s) - (k + 1) + 1) : b[i] = s[(k + 1) + i - 1]
    <3>1. \A i \in (k + 1)..Len(s) : s[i] \in Nat
      BY <1>1
    <3>2. k + 1 \in Int /\ Len(s) \in Int
      BY <1>1
    <3> QED
      BY <3>1, <3>2, SubSeqProperties
  <2>2. Len(b) = Len(s) - k /\ Len(s) - (k + 1) + 1 = Len(s) - k
    <3> HIDE DEF b
    <3>1. k \in Int /\ Len(s) \in Int /\ k <= Len(s)
      BY <1>1
    <3> QED
      BY <2>1, <3>1
  <2>3. DOMAIN b = 1..Len(b)
    BY <2>1
  <2>4. \A i \in 1..(Len(s) - k) : (k + 1) + i - 1 = k + i
    BY <1>1
  <2> HIDE DEF b
  <2> QED
    BY <2>1, <2>2, <2>3, <2>4
<1> HIDE DEF a, b
<1>4. ASSUME NEW i \in 1..Len(s) PROVE s[i] \in Ids(a) \cup Ids(b)
  <2>1. CASE i <= k
    BY <1>1, <1>2, <2>1 DEF Ids
  <2>2. CASE i > k
    <3>1. i - k \in 1..(Len(s) - k) /\ b[i - k] = s[i]
      BY <1>1, <1>3, <2>2
    <3> QED
      BY <1>3, <3>1 DEF Ids
  <2> QED
    BY <1>1, <2>1, <2>2
<1>5. Ids(s) \subseteq Ids(a) \cup Ids(b)
  BY <1>1, <1>4 DEF Ids
<1>6. Ids(a) \subseteq Ids(s)
  BY <1>1, <1>2 DEF Ids
<1>7. Ids(b) \subseteq Ids(s)
  <2>1. \A i \in 1..(Len(s) - k) : k + i \in 1..Len(s)
    BY <1>1
  <2> QED
    BY <1>1, <1>3, <2>1 DEF Ids
<1> QED
  BY <1>3, <1>5, <1>6, <1>7 DEF a, b

LEMMA CoversGrows ==
  ASSUME NEW s \in Seq(Nat), NEW o \in Nat, NEW seen, NEW more, seen \subseteq more,
         Covers(s, o, seen)
  PROVE  Covers(s, o, more) /\ \A m \in Nat : Covers(Append(s, m), o, more)
BY DEF Covers

LEMMA CoversNone == ASSUME NEW s \in Seq(Nat), NEW seen PROVE Covers(s, 0, seen)
BY DEF Covers

LEMMA CoversAll == ASSUME NEW s \in Seq(Nat), NEW seen PROVE Covers(s, Len(s), seen \cup Ids(s))
BY DEF Covers, Ids

\* A cursor that is shifted by what is cut off covers what is left.
LEMMA CoversCut ==
  ASSUME NEW s \in Seq(Nat), NEW o \in Nat, NEW k \in 0..Len(s), NEW seen, Covers(s, o, seen)
  PROVE  Covers(SubSeq(s, k + 1, Len(s)), Less(o, k), seen)
<1> DEFINE b == SubSeq(s, k + 1, Len(s))
<1>1. Len(b) = Len(s) - k /\ \A i \in 1..(Len(s) - k) : b[i] = s[k + i]
  BY CutIds
<1>2. o <= Len(s) /\ Len(s) \in Nat /\ k \in Nat /\ k <= Len(s)
  BY DEF Covers
<1>3. CASE o > k
  <2>1. Less(o, k) = o - k
    BY <1>3 DEF Less
  <2>2. ASSUME NEW i \in 1..(o - k) PROVE b[i] \in seen
    <3>1. i \in 1..(Len(s) - k) /\ k + i \in 1..o
      BY <1>2, <1>3
    <3> QED
      BY <1>1, <3>1 DEF Covers
  <2> HIDE DEF b
  <2>3. Covers(b, o - k, seen)
    BY <1>1, <1>2, <1>3, <2>2 DEF Covers
  <2> QED
    BY <2>1, <2>3 DEF b
<1>4. CASE ~(o > k)
  <2>1. Less(o, k) = 0 /\ b \in Seq(Nat)
    BY <1>4, CutIds DEF Less
  <2> QED
    BY <2>1, CoversNone
<1> QED
  BY <1>3, <1>4

\* A read that takes what is beyond its base, from a log that has grown since.
LEMMA CoversRead ==
  ASSUME NEW s \in Seq(Nat), NEW saw \in Seq(Nat), NEW base \in Nat, NEW seen,
         Len(saw) <= Len(s), \A i \in 1..Len(saw) : saw[i] = s[i], Covers(s, base, seen)
  PROVE  Covers(s, IF Len(saw) > base THEN Len(saw) ELSE base,
                seen \cup Ids(SubSeq(saw, base + 1, Len(saw))))
<1>1. CASE Len(saw) > base
  <2> DEFINE new == SubSeq(saw, base + 1, Len(saw))
             n == Len(saw)
  <2>1. base \in 0..Len(saw) /\ n \in Nat
    BY <1>1
  <2>2. /\ DOMAIN new = 1..(n - base)
        /\ \A i \in 1..(n - base) : new[i] = saw[base + i]
    BY <2>1, CutIds
  <2> HIDE DEF new
  <2>3. ASSUME NEW i \in 1..n PROVE s[i] \in seen \cup Ids(new)
    <3>1. CASE i <= base
      BY <2>1, <3>1 DEF Covers
    <3>2. CASE i > base
      <4>1. i - base \in 1..(n - base) /\ base + (i - base) = i
        BY <2>1, <3>2
      <4>2. new[i - base] = s[i]
        BY <2>2, <4>1
      <4> QED
        BY <2>2, <4>1, <4>2 DEF Ids
    <3> QED
      BY <2>1, <3>1, <3>2
  <2> QED
    BY <1>1, <2>3 DEF Covers, new
<1>2. CASE ~(Len(saw) > base)
  BY <1>2, CoversGrows
<1> QED
  BY <1>1, <1>2

\* A log that grows, or more that is seen, disturbs no rewrite.
LEMMA KeepsGrows ==
  ASSUME NEW s \in Seq(Nat), NEW c \in CommandRecord, NEW o \in Nat, NEW x, NEW seen,
         NEW more, seen \subseteq more, Keeps(s, c, o, x, seen)
  PROVE  Keeps(s, c, o, x, more) /\ \A m \in Nat : Keeps(Append(s, m), c, o, x, more)
<1>1. c.saw \in Seq(Nat) /\ c.cut \in Nat /\ Less(o, c.cut) \in Nat
  <2>1. c.saw \in Seq(Nat) /\ c.cut \in Nat
    BY DEF CommandRecord
  <2> QED
    BY <2>1 DEF Less
<1>2. \A t \in Seq(Nat), n \in Nat : Covers(t, n, seen) =>
        Covers(t, n, more) /\ \A m \in Nat : Covers(Append(t, m), n, more)
  BY CoversGrows
<1> QED
  BY <1>1, <1>2 DEF Keeps

LEMMA KeepsIdle ==
  ASSUME NEW s, NEW c, NEW o, NEW x, NEW seen, c.at \notin Rewrites
  PROVE  Keeps(s, c, o, x, seen) <=> Covers(s, o, seen)
BY DEF Keeps, Rewrites

LEMMA NoneRecords ==
  /\ NoCommand \in CommandRecord /\ NoCommand.at = "idle"
  /\ NoDrain \in DrainRecord /\ NoDrain.at = "idle"
  /\ NoCall \in CallRecord /\ NoCall.at = "idle"
<1>1. <<>> \in Seq(Nat) /\ FALSE \in BOOLEAN /\ 0 \in Nat
  OBVIOUS
<1>2. NoCommand \in CommandRecord
  BY <1>1 DEF CommandRecord, NoCommand, Readers, Rewrites
<1>3. NoDrain \in DrainRecord
  BY <1>1 DEF DrainRecord, NoDrain
<1>4. NoCall \in CallRecord
  BY <1>1 DEF CallRecord, NoCall
<1> QED
  BY <1>2, <1>3, <1>4 DEF NoCommand, NoDrain, NoCall

\* What the steps use of the types.
LEMMA Typing ==
  ASSUME TypeOK, Records
  PROVE  /\ log \in Seq(Nat) /\ Len(log) \in Nat /\ posted \in Nat
         /\ off[Me] \in Nat /\ off[Peer] \in Nat
         /\ cmd.saw \in Seq(Nat) /\ cmd.cut \in Nat /\ cmd.val \in Nat
         /\ cmd.todo \subseteq {Me, Peer} /\ cmd.who \in {Me, Peer}
         /\ cmd.at \in Rewrites \cup {"idle", "forward", "notice", "leave"}
         /\ drain.upto \in Nat /\ drain.at \in {"idle", "save"}
         /\ call.saw \in Seq(Nat) /\ Len(call.saw) \in Nat /\ call.base \in Nat
         /\ call.at \in {"idle", "looked", "loaded", "emptied"}
<1>1. /\ cmd.saw \in Seq(Nat) /\ cmd.cut \in Nat /\ cmd.val \in Nat
      /\ cmd.todo \subseteq {Me, Peer} /\ cmd.who \in {Me, Peer}
      /\ cmd.at \in Rewrites \cup {"idle", "forward", "notice", "leave"}
  BY DEF Records, CommandRecord, Readers
<1>2. drain.upto \in Nat /\ drain.at \in {"idle", "save"}
  BY DEF Records, DrainRecord
<1>3. /\ call.saw \in Seq(Nat) /\ call.base \in Nat
      /\ call.at \in {"idle", "looked", "loaded", "emptied"}
  BY DEF Records, CallRecord
<1>4. /\ log \in Seq(Nat) /\ posted \in Nat
      /\ off[Me] \in Nat /\ off[Peer] \in Nat
  BY DEF TypeOK, Records
<1>5. Len(log) \in Nat /\ Len(call.saw) \in Nat
  BY <1>3, <1>4
<1> QED
  BY <1>1, <1>2, <1>3, <1>4, <1>5

-----------------------------------------------------------------------------
(* The steps of the chat and of the server                                 *)

LEMMA IInvInit == Init => IInv
<1> SUFFICES ASSUME Init PROVE IInv
  OBVIOUS
<1> USE NamesAssumption DEF Init
<1>1. TypeOK /\ Records
  <2>1. log \in Seq(Nat) /\ Ids(log) = {}
    BY DEF Ids
  <2> QED
    BY <2>1, NoneRecords DEF TypeOK, Records
<1>2. Conserved /\ Overwritten /\ Commanded
  BY NoneRecords DEF Conserved, Overwritten, Commanded
<1>3. \A seen : Covers(log, 0, seen)
  BY <1>1, CoversNone DEF TypeOK
<1>4. /\ Keeps(log, cmd, off[Peer], Peer, got)
      /\ Keeps(log, cmd, off[Me], Me, printed \cup skipped)
  BY <1>3, NoneRecords, KeepsIdle DEF Rewrites
<1>5. PeerKept /\ MineKept
  BY <1>4, NoneRecords DEF PeerKept, MineKept, Rewrites
<1> QED
  BY <1>1, <1>2, <1>5 DEF IInv

LEMMA PostKeeps == ASSUME IInv, Post PROVE IInv'
<1> USE NamesAssumption DEF IInv, Post, fileVars, counters, ghosts, Accepts, Disturbs,
        Rewriting, Rewrites
<1>1. log' = Append(log, posted') /\ posted' = posted + 1 /\ posted' \in Nat
  BY Typing
<1>2. log' \in Seq(Nat) /\ Ids(log') = Ids(log) \cup {posted'} /\ Len(log') = Len(log) + 1
  BY <1>1, Typing, AppendIds
<1>3. Ids(log') \subseteq 1..posted'
  BY <1>1, <1>2, Typing DEF TypeOK
<1>4. ~clash => Keeps(log', cmd, off[Peer], Peer, got)
  BY <1>1, Typing, KeepsGrows DEF PeerKept, Records
<1>5. up /\ joined /\ cmd.at # "forward" /\ ~lag =>
        /\ Keeps(log', cmd, off[Me], Me, printed \cup skipped)
        /\ drain.at = "save" => Covers(log', drain.upto, printed \cup skipped)
  BY SMTT(30), <1>1, Typing, KeepsGrows, CoversGrows DEF MineKept, Records
<1>6. \A i \in 1..Len(log) : log'[i] = log[i]
  BY <1>1, Typing
<1>7. Records'
  BY ZenonT(30), <1>1, <1>2, <1>3, <1>4, <1>5, <1>6, Typing, NoneRecords DEF Records, CommandRecord, DrainRecord, CallRecord, Readers, NoCommand, NoDrain, NoCall
<1>8. TypeOK'
  BY <1>2, <1>3 DEF TypeOK
<1>9. Commanded'
  <2>1. cmd.at = "write" => Ids(cmd.saw) \subseteq 1..posted'
    BY <1>1, Typing DEF Commanded
  <2> QED
    BY <2>1 DEF Commanded
<1>10. Conserved'
  BY <1>1, <1>2, <1>3, <1>4, <1>5, <1>6, Typing DEF Conserved
<1>11. Overwritten'
  BY <1>1, <1>2, <1>3, <1>4, <1>5, <1>6, Typing, NoneRecords DEF Overwritten, NoCommand
<1>12. PeerKept'
  BY <1>2, <1>4, <1>6, Typing DEF PeerKept
<1>13. MineKept'
  BY <1>5 DEF MineKept
<1> QED
  BY <1>7, <1>8, <1>9, <1>10, <1>11, <1>12, <1>13

LEMMA PeerLooksKeeps == ASSUME IInv, PeerLooks PROVE IInv'
<1> USE NamesAssumption DEF IInv, PeerLooks, fileVars, counters, ghosts, Accepts, Disturbs,
        Rewriting, Rewrites
<1>1. /\ call'.at = "looked" /\ call'.saw = log /\ ~call'.replaced
      /\ UNCHANGED <<log, cmd, off, got>> /\ clash' = (clash \/ Rewriting)
  BY DEF NoCall
<1>2. Records'
  BY <1>1, Typing, NoneRecords DEF Records, CommandRecord, DrainRecord, CallRecord, Readers, NoCommand, NoDrain, NoCall
<1>3. TypeOK'
  BY <1>1, <1>2, Typing DEF TypeOK, Records, CommandRecord, DrainRecord, CallRecord
<1>4. Commanded'
  BY <1>1, Typing, NoneRecords DEF Commanded, NoCommand, NoDrain
<1>5. Conserved'
  BY <1>1, Typing DEF Conserved
<1>6. Overwritten'
  BY <1>1, Typing, NoneRecords DEF Overwritten, NoCommand
<1>7. PeerKept'
  <2> SUFFICES ASSUME ~clash' PROVE PeerKept'
    BY DEF PeerKept
  <2>1. ~clash /\ cmd.at \notin Rewrites
    BY <1>1
  <2>2. Keeps(log, cmd, off[Peer], Peer, got)
    BY <2>1 DEF PeerKept
  <2>3. Len(call'.saw) <= Len(log') /\ \A i \in 1..Len(call'.saw) : call'.saw[i] = log'[i]
    BY <1>1, Typing
  <2> QED
    BY <1>1, <2>1, <2>2, <2>3 DEF PeerKept
<1>8. MineKept'
  BY <1>1, Typing, NoneRecords DEF MineKept, Keeps, Pending, NoCommand, NoDrain
<1> QED
  BY <1>2, <1>3, <1>4, <1>5, <1>6, <1>7, <1>8

LEMMA PeerLoadsKeeps == ASSUME IInv, PeerLoads PROVE IInv'
<1> USE NamesAssumption DEF IInv, PeerLoads, fileVars, counters, ghosts, Accepts, Disturbs,
        Rewriting, Rewrites
<1>1. /\ call.at = "looked" /\ call'.at = "loaded" /\ call'.saw = call.saw
      /\ call'.base = off[Peer] /\ call'.replaced = call.replaced
      /\ UNCHANGED <<log, cmd, off, got, clash>>
  BY DEF Records, CallRecord
<1>2. Records'
  BY <1>1, Typing, NoneRecords DEF Records, CommandRecord, DrainRecord, CallRecord, Readers, NoCommand, NoDrain, NoCall
<1>3. TypeOK'
  BY <1>1, <1>2, Typing DEF TypeOK, Records, CommandRecord, DrainRecord, CallRecord
<1>4. Commanded'
  BY <1>1, Typing, NoneRecords DEF Commanded, NoCommand, NoDrain
<1>5. Conserved'
  BY <1>1, Typing DEF Conserved
<1>6. Overwritten'
  BY <1>1, Typing, NoneRecords DEF Overwritten, NoCommand
<1>7. PeerKept'
  BY <1>1, Typing DEF PeerKept
<1>8. MineKept'
  BY <1>1, Typing, NoneRecords DEF MineKept, Keeps, Pending, NoCommand, NoDrain
<1> QED
  BY <1>2, <1>3, <1>4, <1>5, <1>6, <1>7, <1>8

LEMMA PeerEmptiesKeeps == ASSUME IInv, PeerEmpties PROVE IInv'
<1> USE NamesAssumption DEF IInv, PeerEmpties, fileVars, counters, ghosts, Accepts, Disturbs,
        Rewriting, Rewrites
<1>1. /\ call.at = "loaded" /\ call'.at = "emptied" /\ call'.saw = call.saw
      /\ call'.base = call.base /\ call'.replaced = call.replaced
      /\ UNCHANGED <<log, cmd, off, got, clash>>
  BY DEF Records, CallRecord
<1>2. Records'
  BY <1>1, Typing, NoneRecords DEF Records, CommandRecord, DrainRecord, CallRecord, Readers, NoCommand, NoDrain, NoCall
<1>3. TypeOK'
  BY <1>1, <1>2, Typing DEF TypeOK, Records, CommandRecord, DrainRecord, CallRecord
<1>4. Commanded'
  BY <1>1, Typing, NoneRecords DEF Commanded, NoCommand, NoDrain
<1>5. Conserved'
  BY <1>1, Typing DEF Conserved
<1>6. Overwritten'
  BY <1>1, Typing, NoneRecords DEF Overwritten, NoCommand
<1>7. PeerKept'
  BY <1>1, Typing DEF PeerKept
<1>8. MineKept'
  BY <1>1, Typing, NoneRecords DEF MineKept, Keeps, Pending, NoCommand, NoDrain
<1> QED
  BY <1>2, <1>3, <1>4, <1>5, <1>6, <1>7, <1>8

LEMMA PeerStoresKeeps == ASSUME IInv, PeerStores PROVE IInv'
<1> USE NamesAssumption DEF IInv, PeerStores, fileVars, counters, ghosts, Accepts, Disturbs,
        Rewriting, Rewrites
<1> DEFINE n == Len(call.saw)
<1>1. off'[Me] = off[Me] /\ off' \in [{Me, Peer} -> Nat]
  BY Typing DEF TypeOK
<1>2. ASSUME ~clash' PROVE Keeps(log, cmd, off'[Peer], Peer, got')
  <2>1. /\ ~clash /\ cmd.at \notin Rewrites /\ call.at = "emptied"
        /\ got' = got \cup Ids(SubSeq(call.saw, call.base + 1, n))
    BY <1>2
  <2>2. /\ ~call.replaced /\ call.base = off[Peer] /\ Len(call.saw) <= Len(log)
        /\ \A i \in 1..Len(call.saw) : call.saw[i] = log[i]
        /\ Covers(log, call.base, got)
    BY <2>1, KeepsIdle DEF PeerKept
  <2>3. off'[Peer] = IF n > call.base THEN n ELSE call.base
    BY <2>2, Typing DEF TypeOK
  <2>4. Covers(log, off'[Peer], got')
    <3>1. log \in Seq(Nat) /\ call.saw \in Seq(Nat) /\ call.base \in Nat
      BY Typing
    <3> HIDE DEF IInv, PeerStores
    <3>2. Covers(log, IF Len(call.saw) > call.base THEN Len(call.saw) ELSE call.base,
                 got \cup Ids(SubSeq(call.saw, call.base + 1, Len(call.saw))))
      BY <2>2, <3>1, CoversRead
    <3> QED
      BY <2>1, <2>3, <3>2
  <2> QED
    BY <2>1, <2>4, KeepsIdle
<1>3. UNCHANGED <<log, cmd>> /\ call'.at = "idle" /\ (clash => clash')
  BY NoneRecords
<1>4. Records'
  BY <1>1, <1>2, <1>3, Typing, NoneRecords DEF Records, CommandRecord, DrainRecord, CallRecord, Readers, NoCommand, NoDrain, NoCall
<1>5. TypeOK'
  BY <1>1, <1>3, NoneRecords DEF TypeOK
<1>6. Commanded'
  BY <1>1, <1>2, <1>3, Typing, NoneRecords DEF Commanded, NoCommand, NoDrain
<1>7. Conserved'
  BY <1>1, <1>2, <1>3, Typing DEF Conserved
<1>8. Overwritten'
  BY <1>1, <1>2, <1>3, Typing, NoneRecords DEF Overwritten, NoCommand
<1>9. PeerKept'
  BY <1>2, <1>3 DEF PeerKept
<1>10. MineKept'
  BY <1>1 DEF MineKept
<1> QED
  BY <1>4, <1>5, <1>6, <1>7, <1>8, <1>9, <1>10

LEMMA DrainReadsKeeps == ASSUME IInv, DrainReads PROVE IInv'
<1> USE NamesAssumption DEF IInv, DrainReads, fileVars, counters, ghosts, Accepts, Disturbs,
        Rewriting, Rewrites
<1> DEFINE n == IF joined /\ Len(log) > off[Me] THEN Len(log) ELSE off[Me]
<1>1. /\ UNCHANGED <<log, cmd, off, up, joined, lag, skipped>> /\ cmd.at \notin Rewrites /\ up
      /\ printed' = printed \cup Ids(SubSeq(log, off[Me] + 1, n))
      /\ drain'.upto = n /\ n \in Nat
  BY Typing
<1>2. ASSUME up, joined, cmd.at # "forward", ~lag
      PROVE  /\ Covers(log, n, printed' \cup skipped)
             /\ Covers(log, off[Me], printed' \cup skipped)
  <2>1. Covers(log, off[Me], printed \cup skipped)
    BY <1>1, <1>2, KeepsIdle DEF MineKept
  <2>2. Covers(log, off[Me], printed' \cup skipped)
    BY <1>1, <2>1, Typing, CoversGrows
  <2>3. CASE Len(log) > off[Me]
    <3>1. Covers(log, Len(log),
                 (printed \cup skipped) \cup Ids(SubSeq(log, off[Me] + 1, Len(log))))
      <4>1. log \in Seq(Nat) /\ off[Me] \in Nat /\ Len(log) \in Nat
        BY Typing
      <4>2. Len(log) <= Len(log) /\ \A i \in 1..Len(log) : log[i] = log[i]
        BY <4>1
      <4> HIDE DEF IInv, DrainReads
      <4>3. Covers(log, IF Len(log) > off[Me] THEN Len(log) ELSE off[Me],
                   (printed \cup skipped) \cup Ids(SubSeq(log, off[Me] + 1, Len(log))))
        BY <2>1, <4>1, <4>2, CoversRead
      <4> QED
        BY <2>3, <4>3
    <3>2. n = Len(log)
      BY <1>2, <2>3
    <3>3. (printed \cup skipped) \cup Ids(SubSeq(log, off[Me] + 1, Len(log)))
            = printed' \cup skipped
      BY <1>1, <3>2
    <3> QED
      BY <2>2, <3>1, <3>2, <3>3
  <2> QED
    BY <2>2, <2>3
<1>3. Records'
  BY <1>1, <1>2, Typing, NoneRecords DEF Records, CommandRecord, DrainRecord, CallRecord, Readers, NoCommand, NoDrain, NoCall
<1>4. TypeOK'
  BY <1>1, <1>2, <1>3, Typing DEF TypeOK, Records, CommandRecord, DrainRecord, CallRecord
<1>5. Commanded'
  BY <1>1 DEF Commanded
<1>6. Conserved'
  BY <1>1, <1>2, Typing DEF Conserved
<1>7. Overwritten'
  BY <1>1, <1>2, Typing, NoneRecords DEF Overwritten, NoCommand
<1>8. PeerKept'
  BY <1>1, <1>2, Typing, NoneRecords DEF PeerKept, Keeps, Pending, NoCommand, NoCall
<1>9. MineKept'
  BY <1>1, <1>2, KeepsIdle DEF MineKept
<1> QED
  BY <1>3, <1>4, <1>5, <1>6, <1>7, <1>8, <1>9

LEMMA DrainSavesKeeps == ASSUME IInv, DrainSaves PROVE IInv'
<1> USE NamesAssumption DEF IInv, DrainSaves, fileVars, counters, ghosts, Accepts, Disturbs,
        Rewriting, Rewrites
<1>1. /\ UNCHANGED <<log, cmd, up, joined, lag, printed, skipped, got, call, clash>>
      /\ off'[Me] = drain.upto /\ off'[Peer] = off[Peer] /\ cmd.at \notin Rewrites /\ up
      /\ drain.at = "save" /\ drain'.at = "idle"
  BY NoneRecords DEF TypeOK
<1>2. Records'
  BY <1>1, Typing, NoneRecords DEF Records, CommandRecord, DrainRecord, CallRecord, Readers, NoCommand, NoDrain, NoCall
<1>3. TypeOK'
  BY <1>1, <1>2, Typing DEF TypeOK, Records, CommandRecord, DrainRecord, CallRecord
<1>4. Commanded'
  BY <1>1 DEF Commanded
<1>5. Conserved'
  BY <1>1, Typing DEF Conserved
<1>6. Overwritten'
  BY <1>1, Typing, NoneRecords DEF Overwritten, NoCommand
<1>7. PeerKept'
  BY <1>1 DEF PeerKept
<1>8. MineKept'
  BY <1>1, KeepsIdle DEF MineKept
<1> QED
  BY <1>2, <1>3, <1>4, <1>5, <1>6, <1>7, <1>8

LEMMA DrainGivesUpKeeps == ASSUME IInv, DrainGivesUp PROVE IInv'
<1> USE NamesAssumption DEF IInv, DrainGivesUp, fileVars, counters, ghosts, Accepts, Disturbs,
        Rewriting, Rewrites
<1>1. Records'
  BY Typing, NoneRecords DEF Records, CommandRecord, DrainRecord, CallRecord, Readers, NoCommand, NoDrain, NoCall
<1>2. TypeOK'
  BY <1>1, Typing DEF TypeOK, Records, CommandRecord, DrainRecord, CallRecord
<1>3. Commanded'
  BY Typing, NoneRecords DEF Commanded, NoCommand, NoDrain
<1>4. Conserved'
  BY Typing DEF Conserved
<1>5. Overwritten'
  BY Typing, NoneRecords DEF Overwritten, NoCommand
<1>6. PeerKept'
  BY Typing, NoneRecords DEF PeerKept, Keeps, Pending, NoCommand, NoCall
<1>7. MineKept'
  BY Typing, NoneRecords DEF MineKept, Keeps, Pending, NoCommand, NoDrain
<1> QED
  BY <1>1, <1>2, <1>3, <1>4, <1>5, <1>6, <1>7

LEMMA PruneReadsKeeps == ASSUME IInv, NEW k \in Nat, PruneReads(k) PROVE IInv'
<1> USE NamesAssumption DEF IInv, PruneReads, fileVars, counters, ghosts, Accepts, Disturbs,
        Rewriting, Rewrites
<1>1. /\ cmd'.at = "write" /\ cmd'.op = "prune" /\ cmd'.saw = log /\ cmd'.cut = k
      /\ k <= Len(log) /\ up /\ up' = up
  <2>1. cmd'.at = "write" /\ cmd'.op = "prune" /\ cmd'.saw = log /\ cmd'.cut = k
    BY DEF NoCommand
  <2>2. k <= Len(log) /\ up /\ up' = up
    BY Typing
  <2> QED
    BY <2>1, <2>2
<1>2. Records'
  BY <1>1, Typing, NoneRecords DEF Records, CommandRecord, DrainRecord, CallRecord, Readers, NoCommand, NoDrain, NoCall
<1>3. TypeOK'
  BY <1>1, <1>2, Typing DEF TypeOK, Records, CommandRecord, DrainRecord, CallRecord
<1>4. Commanded'
  BY <1>1 DEF Commanded, TypeOK
<1>5. Conserved'
  BY <1>1, Typing DEF Conserved
<1>6. Overwritten'
  BY <1>1, Typing, NoneRecords DEF Overwritten, NoCommand
<1>7. PeerKept'
  BY <1>1, Typing, NoneRecords DEF PeerKept, Keeps, Pending, NoCommand, NoCall
<1>8. MineKept'
  BY <1>1, Typing, NoneRecords DEF MineKept, Keeps, Pending, NoCommand, NoDrain
<1> QED
  BY <1>2, <1>3, <1>4, <1>5, <1>6, <1>7, <1>8

LEMMA PruneWritesKeeps == ASSUME IInv, PruneWrites PROVE IInv'
<1> USE NamesAssumption DEF IInv, PruneWrites, fileVars, counters, ghosts, Accepts, Disturbs,
        Rewriting, Rewrites
<1>1. /\ cmd.at = "write" /\ cmd.op = "prune" /\ up /\ cmd.cut \in 0..Len(cmd.saw)
      /\ cmd'.at = "shift" /\ cmd'.op = cmd.op /\ cmd'.cut = cmd.cut
      /\ cmd'.todo = {Me, Peer}
      /\ UNCHANGED <<off, up, joined, drain, call, got, printed, skipped, archive, posted,
                     exposed>>
  <2>1. /\ cmd'.at = "shift" /\ cmd'.op = cmd.op /\ cmd'.cut = cmd.cut
        /\ cmd'.todo = {Me, Peer}
    BY DEF Records, CommandRecord
  <2>2. cmd.at = "write" /\ cmd.op = "prune" /\ up
    BY NoneRecords DEF Commanded
  <2>3. cmd.cut \in 0..Len(cmd.saw)
    BY <2>2, Typing DEF Commanded
  <2> QED
    BY <2>1, <2>2, <2>3
<1>2. /\ log' = SubSeq(cmd.saw, cmd.cut + 1, Len(cmd.saw))
      /\ removed' = removed \cup Ids(SubSeq(cmd.saw, 1, cmd.cut))
      /\ lag' = (lag \/ drain.at = "save") /\ clash' = (clash \/ call.at # "idle")
  OBVIOUS
<1>3. /\ log' \in Seq(Nat)
      /\ Ids(cmd.saw) = Ids(SubSeq(cmd.saw, 1, cmd.cut)) \cup Ids(log')
  BY SMTT(30), <1>1, <1>2, Typing, CutIds
<1>4. \A o \in Nat : \A seen : Covers(cmd.saw, o, seen) => Covers(log', Less(o, cmd.cut), seen)
  BY <1>1, <1>2, Typing, CoversCut
<1>5. Ids(cmd.saw) \subseteq 1..posted
  BY <1>1 DEF Commanded
<1>6. Records'
  BY <1>1, <1>2, <1>3, <1>4, <1>5, Typing, NoneRecords DEF Records, CommandRecord, DrainRecord, CallRecord, Readers, NoCommand, NoDrain, NoCall
<1>7. TypeOK'
  BY <1>1, <1>3, <1>5 DEF TypeOK
<1>8. Commanded'
  BY <1>1 DEF Commanded
<1>9. Conserved'
  BY <1>1, <1>2, <1>3 DEF Conserved, Overwritten
<1>10. Overwritten'
  BY <1>1 DEF Overwritten
<1>11. PeerKept'
  BY <1>1, <1>2, <1>4, Typing DEF PeerKept, Keeps, Pending
<1>12. MineKept'
  <2>1. ASSUME up, joined, cmd.at # "forward", ~lag, drain.at # "save"
        PROVE  Keeps(log', cmd', off[Me], Me, printed \cup skipped)
    BY <1>1, <1>4, <2>1, Typing DEF MineKept, Keeps, Pending
  <2>2. cmd.at # "forward" /\ drain.at \in {"idle", "save"}
    BY <1>1, Typing
  <2> HIDE DEF IInv, PruneWrites
  <2> QED
    BY <1>1, <1>2, <2>1, <2>2 DEF MineKept
<1> QED
  BY <1>6, <1>7, <1>8, <1>9, <1>10, <1>11, <1>12

LEMMA WipeKeeps == ASSUME IInv, Wipe PROVE IInv'
<1> USE NamesAssumption DEF IInv, Wipe, fileVars, counters, ghosts, Accepts, Disturbs,
        Rewriting, Rewrites
<1>1. log' = <<>> /\ log' \in Seq(Nat) /\ Ids(log') = {}
  BY DEF Ids
<1>2. Records'
  BY <1>1, Typing, NoneRecords DEF Records, CommandRecord, DrainRecord, CallRecord, Readers, NoCommand, NoDrain, NoCall
<1>3. TypeOK'
  BY <1>1, <1>2, Typing DEF TypeOK, Records, CommandRecord, DrainRecord, CallRecord
<1>4. Commanded'
  BY <1>1, Typing, NoneRecords DEF Commanded, NoCommand, NoDrain
<1>5. Conserved'
  BY <1>1, Typing DEF Conserved
<1>6. Overwritten'
  BY <1>1, Typing, NoneRecords DEF Overwritten, NoCommand
<1>7. PeerKept'
  BY <1>1, Typing, NoneRecords DEF PeerKept, Keeps, Pending, NoCommand, NoCall
<1>8. MineKept'
  BY <1>1, Typing, NoneRecords DEF MineKept, Keeps, Pending, NoCommand, NoDrain
<1> QED
  BY <1>2, <1>3, <1>4, <1>5, <1>6, <1>7, <1>8

LEMMA RolloverRenamesKeeps == ASSUME IInv, RolloverRenames PROVE IInv'
<1> USE NamesAssumption DEF IInv, RolloverRenames, fileVars, counters, ghosts, Accepts, Disturbs,
        Rewriting, Rewrites
<1>1. log' = <<>> /\ log' \in Seq(Nat) /\ Ids(log') = {}
  BY DEF Ids
<1>2. Records'
  BY <1>1, Typing, NoneRecords DEF Records, CommandRecord, DrainRecord, CallRecord, Readers, NoCommand, NoDrain, NoCall
<1>3. TypeOK'
  BY <1>1, <1>2, Typing DEF TypeOK, Records, CommandRecord, DrainRecord, CallRecord
<1>4. Commanded'
  BY <1>1, Typing, NoneRecords DEF Commanded, NoCommand, NoDrain
<1>5. Conserved'
  BY <1>1, Typing DEF Conserved
<1>6. Overwritten'
  <2>1. cmd'.at = "create"
    BY DEF NoCommand
  <2> QED
    BY <1>1, <2>1 DEF Overwritten
<1>7. PeerKept'
  BY <1>1, Typing, NoneRecords DEF PeerKept, Keeps, Pending, NoCommand, NoCall
<1>8. MineKept'
  BY <1>1, Typing, NoneRecords DEF MineKept, Keeps, Pending, NoCommand, NoDrain
<1> QED
  BY <1>2, <1>3, <1>4, <1>5, <1>6, <1>7, <1>8

LEMMA RolloverCreatesKeeps == ASSUME IInv, RolloverCreates PROVE IInv'
<1> USE NamesAssumption DEF IInv, RolloverCreates, fileVars, counters, ghosts, Accepts, Disturbs,
        Rewriting, Rewrites
<1>1. log' = <<>> /\ log' \in Seq(Nat) /\ Ids(log') = {}
  BY DEF Ids
<1>2. /\ cmd.at = "create" /\ cmd.op = "rollover" /\ up
      /\ cmd'.at = "shift" /\ cmd'.op = cmd.op /\ cmd'.todo = {Me, Peer}
      /\ UNCHANGED <<off, up, joined, drain, call, got, printed, skipped, archive, posted,
                     exposed, removed>>
      /\ lag' = (lag \/ drain.at = "save") /\ clash' = (clash \/ call.at # "idle")
  BY NoneRecords DEF Commanded, Records, CommandRecord
<1>3. Records'
  BY <1>1, <1>2, Typing, NoneRecords DEF Records, CommandRecord, DrainRecord, CallRecord, Readers, NoCommand, NoDrain, NoCall
<1>4. TypeOK'
  BY <1>1, <1>2 DEF TypeOK
<1>5. Commanded'
  BY <1>2 DEF Commanded
<1>6. Conserved'
  BY <1>1, <1>2 DEF Conserved, Overwritten
<1>7. Overwritten'
  BY <1>2 DEF Overwritten
<1>8. PeerKept'
  BY <1>2 DEF PeerKept, Keeps, Pending
<1>9. MineKept'
  <2>1. Keeps(log', cmd', off[Me], Me, printed \cup skipped)
    BY <1>2 DEF Keeps, Pending
  <2> QED
    BY <1>2, <2>1, Typing DEF MineKept
<1> QED
  BY <1>3, <1>4, <1>5, <1>6, <1>7, <1>8, <1>9

LEMMA ShiftReadsKeeps == ASSUME IInv, NEW x \in {Me, Peer}, ShiftReads(x) PROVE IInv'
<1> USE NamesAssumption DEF IInv, ShiftReads, fileVars, counters, ghosts, Accepts, Disturbs,
        Rewriting, Rewrites
<1> DEFINE val == IF x = Peer /\ call.at = "emptied" /\ ~call.replaced THEN 0 ELSE off[x]
<1>1. /\ cmd.at = "shift" /\ x \in cmd.todo /\ up /\ val \in Nat
      /\ cmd'.at = IF val = 0 THEN "shift" ELSE "shifted"
      /\ cmd'.op = cmd.op /\ cmd'.cut = cmd.cut /\ cmd'.todo = cmd.todo \ {x}
      /\ cmd'.who = x /\ cmd'.val = val
  BY Typing, NoneRecords DEF Commanded, Records, CommandRecord
<1>2. /\ UNCHANGED <<log, off, up, joined, drain, call, got, printed, skipped>>
      /\ lag' = (lag \/ drain.at = "save") /\ clash' = (clash \/ call.at # "idle")
  OBVIOUS
<1> HIDE DEF ShiftReads
<1>3. ASSUME NEW y \in {Me, Peer}, NEW seen, Keeps(log, cmd, off[y], y, seen),
             y = x => val = off[y]
      PROVE  Keeps(log, cmd', off[y], y, seen)
  <2>1. CASE y = x
    <3>1. CASE val = 0
      <4>1. Covers(log, off[y], seen)
        BY <1>3, <2>1, <3>1, Typing, CoversNone
      <4> QED
        BY <1>1, <2>1, <3>1, <4>1 DEF Keeps, Pending
    <3>2. CASE val # 0
      BY <1>1, <1>3, <2>1, <3>2 DEF Keeps, Pending
    <3> QED
      BY <3>1, <3>2
  <2>2. CASE y # x
    BY <1>1, <1>3, <2>2 DEF Keeps, Pending
  <2> QED
    BY <2>1, <2>2
<1>4. Records'
  BY <1>1, Typing DEF ShiftReads, Records, CommandRecord, Readers
<1>5. TypeOK'
  BY <1>1 DEF TypeOK, ShiftReads
<1>6. Commanded'
  BY <1>1, <1>2 DEF Commanded
<1>7. Conserved'
  BY DEF Conserved, ShiftReads
<1>8. Overwritten'
  BY <1>1 DEF Overwritten
<1>9. PeerKept'
  BY <1>1, <1>2, <1>3 DEF PeerKept
<1>10. MineKept'
  BY <1>1, <1>2, <1>3 DEF MineKept
<1> QED
  BY <1>4, <1>5, <1>6, <1>7, <1>8, <1>9, <1>10

LEMMA ShiftWritesKeeps == ASSUME IInv, ShiftWrites PROVE IInv'
<1> USE NamesAssumption DEF IInv, ShiftWrites, fileVars, counters, ghosts, Accepts, Disturbs,
        Rewriting, Rewrites
<1> DEFINE new == IF cmd.op = "prune" THEN Less(cmd.val, cmd.cut) ELSE 0
<1>1. /\ cmd.at = "shifted" /\ up /\ new \in Nat /\ cmd.who \in {Me, Peer}
      /\ cmd.op \in {"prune", "wipe", "rollover"}
      /\ cmd'.at = "shift" /\ cmd'.op = cmd.op /\ cmd'.cut = cmd.cut
      /\ cmd'.todo = cmd.todo /\ cmd'.who = cmd.who
  <2>1. new \in Nat
    BY Typing DEF Less
  <2>2. /\ cmd'.at = "shift" /\ cmd'.op = cmd.op /\ cmd'.cut = cmd.cut
        /\ cmd'.todo = cmd.todo /\ cmd'.who = cmd.who
    BY DEF Records, CommandRecord
  <2>3. cmd.at = "shifted" /\ up /\ cmd.op \in {"prune", "wipe", "rollover"}
    BY NoneRecords DEF Commanded
  <2> QED
    BY <2>1, <2>2, <2>3, Typing
<1>2. cmd.who \notin cmd.todo
  BY <1>1 DEF Commanded
<1>3. /\ UNCHANGED <<log, up, joined, drain, got, printed, skipped>>
      /\ lag' = (lag \/ drain.at = "save") /\ clash' = (clash \/ call.at # "idle")
      /\ off' = [off EXCEPT ![cmd.who] = new]
      /\ off \in [{Me, Peer} -> Nat]
      /\ ~(call.at = "emptied") => call' = call
  BY DEF TypeOK
<1> HIDE DEF ShiftWrites, new
<1>4. ASSUME NEW y \in {Me, Peer}, NEW seen, Keeps(log, cmd, off[y], y, seen)
      PROVE  Keeps(log, cmd', off'[y], y, seen)
  <2>1. CASE y = cmd.who
    <3>1. off'[y] = new
      BY <1>1, <1>3, <2>1
    <3>2. cmd.val = off[y] /\ (cmd.op = "prune" => Covers(log, Less(off[y], cmd.cut), seen))
      BY <1>1, <1>4, <2>1 DEF Keeps, Pending
    <3>3. Covers(log, new, seen)
      BY <3>2, Typing, CoversNone DEF new
    <3> QED
      BY <1>1, <1>2, <2>1, <3>1, <3>3 DEF Keeps, Pending
  <2>2. CASE y # cmd.who
    BY <1>1, <1>3, <1>4, <2>2 DEF Keeps, Pending
  <2> QED
    BY <2>1, <2>2
<1>5. Records'
  BY <1>1, Typing DEF ShiftWrites, Records, CommandRecord, CallRecord, Readers
<1>6. TypeOK'
  <2>1. off' \in [{Me, Peer} -> Nat]
    BY <1>1, <1>3
  <2> QED
    BY <1>5, <2>1 DEF TypeOK, ShiftWrites, Records, CommandRecord, DrainRecord, CallRecord
<1>7. Commanded'
  BY <1>1, <1>3 DEF Commanded
<1>8. Conserved'
  BY DEF Conserved, ShiftWrites
<1>9. Overwritten'
  BY <1>1 DEF Overwritten
<1>10. PeerKept'
  BY <1>1, <1>3, <1>4 DEF PeerKept
<1>11. MineKept'
  BY <1>1, <1>3, <1>4 DEF MineKept
<1> QED
  BY <1>5, <1>6, <1>7, <1>8, <1>9, <1>10, <1>11

LEMMA ShiftEndsKeeps == ASSUME IInv, ShiftEnds PROVE IInv'
<1> USE NamesAssumption DEF IInv, ShiftEnds, fileVars, counters, ghosts, Accepts, Disturbs,
        Rewriting, Rewrites
<1>1. Records'
  BY Typing, NoneRecords DEF Records, CommandRecord, DrainRecord, CallRecord, Readers, NoCommand, NoDrain, NoCall
<1>2. TypeOK'
  BY <1>1, Typing DEF TypeOK, Records, CommandRecord, DrainRecord, CallRecord
<1>3. Commanded'
  BY Typing, NoneRecords DEF Commanded, NoCommand, NoDrain
<1>4. Conserved'
  BY Typing DEF Conserved
<1>5. Overwritten'
  BY Typing, NoneRecords DEF Overwritten, NoCommand
<1>6. PeerKept'
  BY Typing, NoneRecords DEF PeerKept, Keeps, Pending, NoCommand, NoCall
<1>7. MineKept'
  BY Typing, NoneRecords DEF MineKept, Keeps, Pending, NoCommand, NoDrain
<1> QED
  BY <1>1, <1>2, <1>3, <1>4, <1>5, <1>6, <1>7

LEMMA JoinsRoomKeeps == ASSUME IInv, JoinsRoom PROVE IInv'
<1> USE NamesAssumption DEF IInv, JoinsRoom, fileVars, counters, ghosts, Accepts, Disturbs,
        Rewriting, Rewrites
<1>1. Records'
  BY Typing, NoneRecords DEF Records, CommandRecord, DrainRecord, CallRecord, Readers, NoCommand, NoDrain, NoCall
<1>2. TypeOK'
  BY <1>1, Typing DEF TypeOK, Records, CommandRecord, DrainRecord, CallRecord
<1>3. Commanded'
  BY Typing, NoneRecords DEF Commanded, NoCommand, NoDrain
<1>4. Conserved'
  BY Typing DEF Conserved
<1>5. Overwritten'
  BY Typing, NoneRecords DEF Overwritten, NoCommand
<1>6. PeerKept'
  BY Typing, NoneRecords DEF PeerKept, Keeps, Pending, NoCommand, NoCall
<1>7. MineKept'
  BY Typing, NoneRecords DEF MineKept, Keeps, Pending, NoCommand, NoDrain
<1> QED
  BY <1>1, <1>2, <1>3, <1>4, <1>5, <1>6, <1>7

LEMMA JoinForwardsKeeps == ASSUME IInv, JoinForwards PROVE IInv'
<1> USE NamesAssumption DEF IInv, JoinForwards, fileVars, counters, ghosts, Accepts, Disturbs,
        Rewriting, Rewrites
<1>1. /\ cmd.at = "forward" /\ cmd'.at = "notice" /\ up
      /\ off' \in [{Me, Peer} -> Nat] /\ off'[Peer] = off[Peer] /\ off'[Me] = Len(log)
      /\ skipped' = skipped \cup Ids(log) /\ lag' = (lag \/ drain.at = "save")
      /\ UNCHANGED <<log, up, joined, drain, call, got, printed, clash>>
  BY Typing, NoneRecords DEF Commanded, TypeOK, Records, CommandRecord
<1>2. Covers(log, Len(log), printed \cup skipped')
  <2>1. printed \cup skipped' = (printed \cup skipped) \cup Ids(log)
    BY <1>1
  <2> QED
    BY <2>1, Typing, CoversAll
<1>3. Records'
  BY <1>1, <1>2, Typing, NoneRecords DEF Records, CommandRecord, DrainRecord, CallRecord, Readers, NoCommand, NoDrain, NoCall
<1>4. TypeOK'
  BY <1>1, <1>2, <1>3, Typing DEF TypeOK, Records, CommandRecord, DrainRecord, CallRecord
<1>5. Commanded'
  BY <1>1 DEF Commanded
<1>6. Conserved'
  BY <1>1, <1>2, Typing DEF Conserved
<1>7. Overwritten'
  BY <1>1 DEF Overwritten
<1>8. PeerKept'
  <2>1. Keeps(log', cmd', off'[Peer], Peer, got') <=> Keeps(log, cmd, off[Peer], Peer, got)
    BY <1>1, KeepsIdle
  <2> QED
    BY <1>1, <2>1 DEF PeerKept
<1>9. MineKept'
  BY <1>1, <1>2, KeepsIdle DEF MineKept
<1> QED
  BY <1>3, <1>4, <1>5, <1>6, <1>7, <1>8, <1>9

LEMMA NoticeKeeps == ASSUME IInv, Notice PROVE IInv'
<1> USE NamesAssumption DEF IInv, Notice, fileVars, counters, ghosts, Accepts, Disturbs,
        Rewriting, Rewrites
<1>1. log' = Append(log, posted') /\ posted' = posted + 1 /\ posted' \in Nat
  BY Typing
<1>2. log' \in Seq(Nat) /\ Ids(log') = Ids(log) \cup {posted'} /\ Len(log') = Len(log) + 1
  BY <1>1, Typing, AppendIds
<1>3. Ids(log') \subseteq 1..posted'
  <2>1. Ids(log) \subseteq 1..posted /\ posted \in Nat
    BY Typing DEF TypeOK
  <2> HIDE DEF IInv, Notice
  <2> QED
    BY <1>1, <1>2, <2>1
<1>4. cmd.at = "notice" /\ up /\ cmd'.at \in {"idle", "leave"}
  BY NoneRecords DEF Commanded, Records, CommandRecord
<1>5. \A o \in Nat : \A seen : Covers(log, o, seen) => Covers(log', o, seen)
  BY <1>1, Typing, CoversGrows
<1>6. ~clash => Keeps(log', cmd', off[Peer], Peer, got)
  BY <1>4, <1>5, Typing, KeepsIdle DEF PeerKept
<1>7. joined /\ ~lag =>
        /\ Keeps(log', cmd', off[Me], Me, printed \cup skipped)
        /\ drain.at = "save" => Covers(log', drain.upto, printed \cup skipped)
  BY <1>4, <1>5, Typing, KeepsIdle DEF MineKept
<1>8. \A i \in 1..Len(log) : log'[i] = log[i]
  BY <1>1, Typing
<1>9. Records'
  BY <1>1, <1>2, <1>3, <1>4, <1>5, <1>6, <1>7, <1>8, Typing, NoneRecords DEF Records, CommandRecord, DrainRecord, CallRecord, Readers, NoCommand, NoDrain, NoCall
<1>10. TypeOK'
  BY <1>2, <1>3, <1>4, Typing DEF TypeOK
<1>11. Commanded'
  BY <1>4 DEF Commanded
<1>12. Conserved'
  BY <1>1, <1>2, <1>3, <1>4, <1>5, <1>6, <1>7, <1>8, Typing DEF Conserved
<1>13. Overwritten'
  BY <1>4 DEF Overwritten
<1>14. PeerKept'
  BY <1>2, <1>4, <1>6, <1>8, Typing DEF PeerKept
<1>15. MineKept'
  BY <1>4, <1>7 DEF MineKept
<1> QED
  BY <1>9, <1>10, <1>11, <1>12, <1>13, <1>14, <1>15

LEMMA PartsRoomKeeps == ASSUME IInv, PartsRoom PROVE IInv'
<1> USE NamesAssumption DEF IInv, PartsRoom, fileVars, counters, ghosts, Accepts, Disturbs,
        Rewriting, Rewrites
<1>1. Records'
  BY Typing, NoneRecords DEF Records, CommandRecord, DrainRecord, CallRecord, Readers, NoCommand, NoDrain, NoCall
<1>2. TypeOK'
  BY <1>1, Typing DEF TypeOK, Records, CommandRecord, DrainRecord, CallRecord
<1>3. Commanded'
  BY Typing, NoneRecords DEF Commanded, NoCommand, NoDrain
<1>4. Conserved'
  BY Typing DEF Conserved
<1>5. Overwritten'
  BY Typing, NoneRecords DEF Overwritten, NoCommand
<1>6. PeerKept'
  BY Typing, NoneRecords DEF PeerKept, Keeps, Pending, NoCommand, NoCall
<1>7. MineKept'
  BY Typing, NoneRecords DEF MineKept, Keeps, Pending, NoCommand, NoDrain
<1> QED
  BY <1>1, <1>2, <1>3, <1>4, <1>5, <1>6, <1>7

LEMMA PartLeavesKeeps == ASSUME IInv, PartLeaves PROVE IInv'
<1> USE NamesAssumption DEF IInv, PartLeaves, fileVars, counters, ghosts, Accepts, Disturbs,
        Rewriting, Rewrites
<1>1. Records'
  BY Typing, NoneRecords DEF Records, CommandRecord, DrainRecord, CallRecord, Readers, NoCommand, NoDrain, NoCall
<1>2. TypeOK'
  BY <1>1, Typing DEF TypeOK, Records, CommandRecord, DrainRecord, CallRecord
<1>3. Commanded'
  BY Typing, NoneRecords DEF Commanded, NoCommand, NoDrain
<1>4. Conserved'
  BY Typing DEF Conserved
<1>5. Overwritten'
  BY Typing, NoneRecords DEF Overwritten, NoCommand
<1>6. PeerKept'
  BY Typing, NoneRecords DEF PeerKept, Keeps, Pending, NoCommand, NoCall
<1>7. MineKept'
  BY Typing, NoneRecords DEF MineKept, Keeps, Pending, NoCommand, NoDrain
<1> QED
  BY <1>1, <1>2, <1>3, <1>4, <1>5, <1>6, <1>7

LEMMA ChatDiesKeeps == ASSUME IInv, ChatDies PROVE IInv'
<1> USE NamesAssumption DEF IInv, ChatDies, fileVars, counters, ghosts, Accepts, Disturbs,
        Rewriting, Rewrites
<1>1. Records'
  BY Typing, NoneRecords DEF Records, CommandRecord, DrainRecord, CallRecord, Readers, NoCommand, NoDrain, NoCall
<1>2. TypeOK'
  BY <1>1, Typing DEF TypeOK, Records, CommandRecord, DrainRecord, CallRecord
<1>3. Commanded'
  BY Typing, NoneRecords DEF Commanded, NoCommand, NoDrain
<1>4. Conserved'
  BY Typing DEF Conserved
<1>5. Overwritten'
  BY Typing, NoneRecords DEF Overwritten, NoCommand
<1>6. PeerKept'
  BY Typing, NoneRecords DEF PeerKept, Keeps, Pending, NoCommand, NoCall
<1>7. MineKept'
  BY Typing, NoneRecords DEF MineKept, Keeps, Pending, NoCommand, NoDrain
<1> QED
  BY <1>1, <1>2, <1>3, <1>4, <1>5, <1>6, <1>7

LEMMA ChatStartsKeeps == ASSUME IInv, ChatStarts PROVE IInv'
<1> USE NamesAssumption DEF IInv, ChatStarts, fileVars, counters, ghosts, Accepts, Disturbs,
        Rewriting, Rewrites
<1>1. /\ cmd.at = "idle" /\ drain.at = "idle" /\ off'[Peer] = off[Peer]
      /\ joined => off'[Me] = Len(log) /\ skipped' = skipped \cup Ids(log)
      /\ UNCHANGED <<log, cmd, joined, drain, call, got, printed, clash>>
  BY NoneRecords DEF Commanded, TypeOK
<1>2. Covers(log, Len(log), (printed \cup skipped) \cup Ids(log))
  BY Typing, CoversAll
<1>3. joined => Covers(log, off'[Me], printed' \cup skipped')
  <2>1. (printed \cup skipped) \cup Ids(log) = printed \cup (skipped \cup Ids(log))
    OBVIOUS
  <2> QED
    BY <1>1, <1>2, <2>1
<1>4. Records'
  BY <1>1, <1>2, <1>3, Typing, NoneRecords DEF Records, CommandRecord, DrainRecord, CallRecord, Readers, NoCommand, NoDrain, NoCall
<1>5. TypeOK'
  BY <1>1, <1>2, <1>3, <1>4, Typing DEF TypeOK, Records, CommandRecord, DrainRecord, CallRecord
<1>6. Commanded'
  BY <1>1, <1>2, <1>3, Typing, NoneRecords DEF Commanded, NoCommand, NoDrain
<1>7. Conserved'
  BY <1>1, <1>2, <1>3, Typing DEF Conserved
<1>8. Overwritten'
  BY <1>1, <1>2, <1>3, Typing, NoneRecords DEF Overwritten, NoCommand
<1>9. PeerKept'
  BY <1>1, KeepsIdle DEF PeerKept
<1>10. MineKept'
  BY <1>1, <1>3, KeepsIdle DEF MineKept
<1> QED
  BY <1>4, <1>5, <1>6, <1>7, <1>8, <1>9, <1>10

LEMMA IInvNext == IInv /\ [Next]_vars => IInv'
<1> SUFFICES ASSUME IInv, [Next]_vars PROVE IInv'
  OBVIOUS
<1>1. ASSUME Drain PROVE IInv'
  BY <1>1, DrainReadsKeeps, DrainSavesKeeps, DrainGivesUpKeeps DEF Drain
<1>2. ASSUME Command PROVE IInv'
  BY <1>2, PruneWritesKeeps, RolloverCreatesKeeps, ShiftReadsKeeps, ShiftWritesKeeps,
     ShiftEndsKeeps, JoinForwardsKeeps, NoticeKeeps, PartLeavesKeeps
  DEF Command
<1>3. ASSUME Typed PROVE IInv'
  <2>1. ASSUME NEW k \in 1..(MaxPosts + MaxCommands), PruneReads(k) PROVE IInv'
    <3>1. k \in Nat
      BY BoundAssumption
    <3> QED
      BY <2>1, <3>1, PruneReadsKeeps
  <2> QED
    BY <1>3, <2>1, WipeKeeps, RolloverRenamesKeeps, JoinsRoomKeeps, PartsRoomKeeps DEF Typed
<1>4. ASSUME Server PROVE IInv'
  BY <1>4, PostKeeps, PeerLooksKeeps, PeerLoadsKeeps, PeerEmptiesKeeps, PeerStoresKeeps
  DEF Server
<1>5. CASE UNCHANGED vars
  BY <1>5
  DEF vars, fileVars, counters, ghosts, IInv, TypeOK, Records, Commanded, Conserved,
      Overwritten, PeerKept, MineKept
<1> QED
  BY <1>1, <1>2, <1>3, <1>4, <1>5, ChatDiesKeeps, ChatStartsKeeps DEF Next

LEMMA IInvAlways == Spec => []IInv
BY IInvInit, IInvNext, PTL DEF Spec

-----------------------------------------------------------------------------
(* The theorems                                                            *)

\* The files, the command, the drain and the read have the types of their model:
\* the log holds messages that were posted.
THEOREM TypeAlways == Spec => []TypeOK
<1>1. IInv => TypeOK
  BY DEF IInv
<1> QED
  BY <1>1, IInvAlways, PTL

\* No rewrite of coord-chat (/prune, /wipe, /rollover) makes a message vanish that
\* it had read: what it overwrites it has kept, archived or meant to remove, but
\* for what was posted while it was at work.
THEOREM ConservedAlways == Spec => []Conserved
<1>1. IInv => Conserved
  BY DEF IInv
<1> QED
  BY <1>1, IInvAlways, PTL

LEMMA IInvPassed == IInv => NothingPassedOver
<1> SUFFICES ASSUME IInv, ~clash, ~Rewriting
             PROVE  off[Peer] <= Len(log) /\ \A i \in 1..off[Peer] : log[i] \in got
  BY DEF NothingPassedOver
<1>1. Covers(log, off[Peer], got)
  BY KeepsIdle DEF IInv, PeerKept, Rewriting, Rewrites
<1> QED
  BY <1>1 DEF Covers

\* The offset of an agent never passes a message the agent was not given, however
\* the chat shifts it, as long as no rewrite and no read of the agent overlap: a
\* shift is by what was cut off, a reset comes with an empty log.
THEOREM NothingPassedAlways == Spec => []NothingPassedOver
BY IInvPassed, IInvAlways, PTL

LEMMA IInvUnseen == IInv => NothingUnseen
<1> SUFFICES ASSUME IInv, up, joined, cmd.at # "forward", ~lag, ~Rewriting
             PROVE  /\ off[Me] <= Len(log)
                    /\ \A i \in 1..off[Me] : log[i] \in printed \cup skipped
  BY DEF NothingUnseen
<1>1. Covers(log, off[Me], printed \cup skipped)
  BY KeepsIdle DEF IInv, MineKept, Rewriting, Rewrites
<1> QED
  BY <1>1 DEF Covers

\* Nor does the chat's own offset pass a message it has neither printed nor chosen
\* to skip, as long as no command goes by while a drain waits to save what it read
\* of the cursor: the save would undo the command.
THEOREM NothingUnseenAlways == Spec => []NothingUnseen
BY IInvUnseen, IInvAlways, PTL
==============================================================================
