---------------------------- MODULE Cursors_proofs ----------------------------
(***************************************************************************)
(* What holds of the cursor files: under the readers of Mailbox, for every *)
(* set of logs, calls, hooks and pushers, every limit and every length of  *)
(* the logs; and under delete_room and the doctor in Channels, for every   *)
(* set of agents and calls, whatever is deleted and however often.         *)
(***************************************************************************)
EXTENDS Mailbox, Channels, FiniteSetTheorems, SequenceTheorems, TLAPS

-----------------------------------------------------------------------------
(* Mailbox                                                                 *)

LEMMA MostFact ==
  ASSUME NEW a \in Int, NEW b \in Int
  PROVE  /\ Most(a, b) \in {a, b} /\ Most(a, b) >= a /\ Most(a, b) >= b
         /\ Least(a, b) \in {a, b} /\ Least(a, b) <= a /\ Least(a, b) <= b
BY DEF Most, Least

\* The type invariant is inductive on its own.
LEMMA ZeroType == Zero \in Offsets
BY DEF Zero, Offsets

LEMMA TypeInit == Init => TypeOK
<1> SUFFICES ASSUME Init PROVE TypeOK
  OBVIOUS
<1> USE ZeroType
<1>1. log \in [Keys -> Seq(Kinds)]
  BY DEF Init
<1>2. file \in Offsets /\ torn \in BOOLEAN /\ lock \in Readers \cup {NoOne}
  BY DEF Init
<1>3. /\ pc \in [Readers -> CallStates] /\ key \in [Readers -> Keys]
      /\ limit \in [Readers -> Nat] /\ cut \in [Readers -> Nat]
      /\ seen \in [Readers -> Nat] /\ base \in [Readers -> Offsets]
  BY DEF Init, CallStates
<1>4. /\ hpc \in [Consumers -> ConsumerStates] /\ todo \in [Consumers -> SUBSET Keys]
      /\ from \in [Consumers -> Offsets] /\ upto \in [Consumers -> Offsets]
  BY DEF Init, ConsumerStates
<1>5. /\ claimed \in [Keys -> SUBSET Nat] /\ again \in [Keys -> SUBSET Nat]
      /\ passed \in [Keys -> SUBSET Nat] /\ pushed \in [Keys -> SUBSET Nat]
      /\ shown \in [Keys -> SUBSET Nat] /\ stashed \in [Keys -> SUBSET Nat]
      /\ dropped \in [Keys -> SUBSET Nat] /\ wiped \in BOOLEAN
  BY DEF Init
<1> QED
  BY <1>1, <1>2, <1>3, <1>4, <1>5 DEF TypeOK

LEMMA CursorType == TypeOK => Cursor \in Offsets
BY DEF TypeOK, Cursor, Offsets, Zero

\* The arithmetic of a batch: it ends where the snapshot ended, starts at or
\* after the cursor, and the cursor moves to a place inside what it covers.
LEMMA BatchFact ==
  ASSUME TypeOK, NEW r \in Readers
  PROVE  /\ key[r] \in Keys
         /\ Start(r) \in Nat /\ Lo(r) \in Nat /\ Hi(r) \in Nat
         /\ Start(r) <= Lo(r) /\ Lo(r) <= Hi(r) /\ Start(r) <= Hi(r)
         /\ Hi(r) = Start(r) \/ Hi(r) = seen[r]
         /\ cut[r] = 0 => Lo(r) = Start(r)
         /\ Advanced(r) \in Offsets
         /\ Advanced(r)[key[r]] = Start(r) + (Hi(r) - Lo(r))
         /\ \A k \in Keys : k # key[r] => Advanced(r)[k] = base[r][k]
         /\ Advanced(r)[key[r]] <= Hi(r)
<1>1. key[r] \in Keys /\ base[r] \in [Keys -> Nat] /\ cut[r] \in Nat /\ seen[r] \in Nat
  BY DEF TypeOK, Offsets
<1>2. Start(r) \in Nat
  BY <1>1 DEF Start
<1>3. /\ Hi(r) \in Nat /\ Start(r) <= Hi(r)
      /\ Hi(r) = Start(r) \/ Hi(r) = seen[r]
  BY <1>1, <1>2 DEF Hi, Most
<1>4. /\ Lo(r) \in Nat /\ Start(r) <= Lo(r) /\ Lo(r) <= Hi(r)
      /\ cut[r] = 0 => Lo(r) = Start(r)
  BY <1>1, <1>2, <1>3 DEF Lo, Least
<1>5. Start(r) + (Hi(r) - Lo(r)) \in Nat /\ Start(r) + (Hi(r) - Lo(r)) <= Hi(r)
  BY <1>2, <1>3, <1>4
<1> QED
  BY <1>1, <1>2, <1>3, <1>4, <1>5 DEF Advanced, Offsets

-----------------------------------------------------------------------------
(* Type correctness.                                                       *)

LEMMA CallEndsType ==
  ASSUME TypeOK, NEW r \in Readers, CallEnds(r)
  PROVE  /\ pc' \in [Readers -> CallStates] /\ key' \in [Readers -> Keys]
         /\ limit' \in [Readers -> Nat] /\ cut' \in [Readers -> Nat]
         /\ seen' \in [Readers -> Nat] /\ base' \in [Readers -> Offsets]
BY ZeroType DEF TypeOK, CallEnds, CallStates

LEMMA ConsumerEndsType ==
  ASSUME TypeOK, NEW c \in Consumers, ConsumerEnds(c)
  PROVE  /\ hpc' \in [Consumers -> ConsumerStates] /\ todo' \in [Consumers -> SUBSET Keys]
         /\ from' \in [Consumers -> Offsets] /\ upto' \in [Consumers -> Offsets]
BY ZeroType DEF TypeOK, ConsumerEnds, ConsumerStates

LEMMA TypeStep == TypeOK /\ [Next]_vars => TypeOK'
<1> SUFFICES ASSUME TypeOK, [Next]_vars PROVE TypeOK'
  OBVIOUS
<1> USE DEF cursorVars, callVars, consumerVars, history
<1>1. ASSUME NEW k \in Keys, NEW kind \in Traffic, Send(k, kind) PROVE TypeOK'
  <2>1. log' \in [Keys -> Seq(Kinds)]
    BY <1>1, TrafficAssumption DEF TypeOK, Send
  <2> QED
    BY <1>1, <2>1 DEF TypeOK, Send
<1>2. ASSUME NEW r \in Readers, NEW k \in Keys, NEW l \in Limits, NEW n \in SinceCuts,
             NEW peek \in BOOLEAN, BeginRead(r, k, l, n, peek)
      PROVE  TypeOK'
  <2>1. Len(log[k]) \in Nat /\ l \in Nat /\ n \in Nat
    BY LimitsAssumption, SinceAssumption DEF TypeOK
  <2>2. /\ pc' \in [Readers -> CallStates] /\ key' \in [Readers -> Keys]
        /\ limit' \in [Readers -> Nat] /\ cut' \in [Readers -> Nat]
        /\ seen' \in [Readers -> Nat]
    BY <1>2, <2>1 DEF TypeOK, BeginRead, CallStates
  <2> QED
    BY <1>2, <2>2 DEF TypeOK, BeginRead
<1>3. ASSUME NEW r \in Readers, Peek(r) PROVE TypeOK'
  BY <1>3, CallEndsType DEF TypeOK, Peek
<1>4. ASSUME NEW r \in Readers, Acquire(r) PROVE TypeOK'
  BY <1>4, CursorType DEF TypeOK, Acquire, CallStates
<1>5. ASSUME NEW r \in Readers, LockFailed(r) PROVE TypeOK'
  BY <1>5, CallEndsType DEF TypeOK, LockFailed
<1>6. ASSUME NEW r \in Readers, Truncate(r) PROVE TypeOK'
  BY <1>6 DEF TypeOK, Truncate, CallStates
<1>7. ASSUME NEW r \in Readers, Store(r) PROVE TypeOK'
  <2>1. key[r] \in Keys /\ Advanced(r) \in Offsets
    BY BatchFact
  <2>2. Batch(r) \in SUBSET Nat /\ ((Start(r) + 1)..Lo(r)) \in SUBSET Nat
    BY BatchFact DEF Batch
  <2>3. file' \in Offsets /\ torn' \in BOOLEAN /\ lock' \in Readers \cup {NoOne}
    BY <1>7, <2>1 DEF TypeOK, Store
  <2>4. /\ claimed' \in [Keys -> SUBSET Nat] /\ again' \in [Keys -> SUBSET Nat]
        /\ passed' \in [Keys -> SUBSET Nat]
    BY <1>7, <2>1, <2>2 DEF TypeOK, Store
  <2>5. pc' \in [Readers -> CallStates]
    BY <1>7 DEF TypeOK, Store, CallStates
  <2> QED
    BY <1>7, <2>3, <2>4, <2>5 DEF TypeOK, Store
<1>8. ASSUME NEW r \in Readers, Stash(r) PROVE TypeOK'
  <2>1. Overflow(r) \in SUBSET Nat
    <3>1. EffectiveLimit(r) \in Nat
      BY WindowAssumption, BoundAssumption DEF TypeOK, EffectiveLimit
    <3> QED
      BY <3>1, BatchFact DEF Overflow
  <2>2. stashed' \in [Keys -> SUBSET Nat]
    BY <1>8, <2>1, BatchFact DEF TypeOK, Stash
  <2>3. pc' \in [Readers -> CallStates]
    BY <1>8 DEF TypeOK, Stash, CallStates
  <2> QED
    BY <1>8, <2>2, <2>3 DEF TypeOK, Stash
<1>9. ASSUME NEW r \in Readers, Reply(r) PROVE TypeOK'
  <2>1. Recent(r) \in SUBSET Nat
    <3>1. EffectiveLimit(r) \in Nat
      BY WindowAssumption, BoundAssumption DEF TypeOK, EffectiveLimit
    <3> QED
      BY <3>1, BatchFact DEF Recent, Overflows, Batch
  <2>2. shown' \in [Keys -> SUBSET Nat]
    BY <1>9, <2>1, BatchFact DEF TypeOK, Reply
  <2> QED
    BY <1>9, <2>2, CallEndsType DEF TypeOK, Reply
<1>9a. ASSUME NEW r \in Readers, Lose(r) PROVE dropped' \in [Keys -> SUBSET Nat]
  <2>1. Batch(r) \in SUBSET Nat
    BY BatchFact DEF Batch
  <2> QED
    BY <1>9a, <2>1, BatchFact DEF TypeOK, Lose
<1>9b. ASSUME NEW r \in Readers, StashThrows(r) PROVE TypeOK'
  BY <1>9a, <1>9b, CallEndsType DEF TypeOK, StashThrows
<1>10. ASSUME NEW r \in Readers, CallDies(r) PROVE TypeOK'
  <2>1. dropped' \in [Keys -> SUBSET Nat] /\ wiped' \in BOOLEAN
    BY <1>9a, <1>10 DEF TypeOK, CallDies
  <2> QED
    BY <1>10, <2>1, CallEndsType DEF TypeOK, CallDies
<1>11. CASE BreakStaleLock
  BY <1>11 DEF TypeOK, BreakStaleLock
<1>12. ASSUME NEW c \in Consumers, NEW w \in BOOLEAN, Load(c, w) PROVE TypeOK'
  <2>1. Inboxes \cup Rooms \in SUBSET Keys /\ Inboxes \in SUBSET Keys
    BY DEF Keys
  <2>2. /\ hpc' \in [Consumers -> ConsumerStates] /\ todo' \in [Consumers -> SUBSET Keys]
        /\ from' \in [Consumers -> Offsets] /\ upto' \in [Consumers -> Offsets]
    BY <1>12, <2>1, CursorType DEF TypeOK, Load, ConsumerStates
  <2> QED
    BY <1>12, <2>2 DEF TypeOK, Load
<1>13. ASSUME NEW c \in Consumers, NEW k \in Keys, Drain(c, k) PROVE TypeOK'
  <2>1. upto[c] \in [Keys -> Nat] /\ Len(log[k]) \in Nat
    BY DEF TypeOK, Offsets
  <2>2. Most(upto[c][k], Len(log[k])) \in Nat
    BY <2>1 DEF Most
  <2>3. upto' \in [Consumers -> Offsets]
    <3>1. [upto[c] EXCEPT ![k] = Most(@, Len(log[k]))] \in Offsets
      BY <2>1, <2>2 DEF Offsets
    <3>2. upto' = [upto EXCEPT ![c] = [upto[c] EXCEPT ![k] = Most(@, Len(log[k]))]]
      BY <1>13 DEF Drain
    <3> QED
      BY <3>1, <3>2 DEF TypeOK
  <2>4. todo' \in [Consumers -> SUBSET Keys]
    BY <1>13 DEF TypeOK, Drain
  <2> QED
    BY <1>13, <2>3, <2>4 DEF TypeOK, Drain
<1>14. ASSUME NEW c \in Consumers, Save(c) PROVE TypeOK'
  <2>1. \A k \in Keys : Drained(c, k) \in SUBSET Nat
    BY DEF TypeOK, Offsets, Drained
  <2>2. /\ claimed' \in [Keys -> SUBSET Nat] /\ again' \in [Keys -> SUBSET Nat]
        /\ pushed' \in [Keys -> SUBSET Nat]
    BY <1>14, <2>1 DEF TypeOK, Save
  <2>3. hpc' \in [Consumers -> ConsumerStates] /\ file' \in Offsets /\ torn' \in BOOLEAN
    BY <1>14 DEF TypeOK, Save, ConsumerStates
  <2> QED
    BY <1>14, <2>2, <2>3 DEF TypeOK, Save
<1>15. ASSUME NEW c \in Consumers, NothingToSave(c) PROVE TypeOK'
  BY <1>15, ConsumerEndsType DEF TypeOK, NothingToSave
<1>16. ASSUME NEW c \in Consumers, Show(c) PROVE TypeOK'
  <2>1. \A k \in Keys : Drained(c, k) \in SUBSET Nat
    BY DEF TypeOK, Offsets, Drained
  <2>2. shown' \in [Keys -> SUBSET Nat]
    BY <1>16, <2>1 DEF TypeOK, Show
  <2> QED
    BY <1>16, <2>2, ConsumerEndsType DEF TypeOK, Show
<1>17. ASSUME NEW c \in Consumers, ConsumerDies(c) PROVE TypeOK'
  <2>1. \A k \in Keys : Drained(c, k) \in SUBSET Nat
    BY DEF TypeOK, Offsets, Drained
  <2>2. dropped' \in [Keys -> SUBSET Nat]
    BY <1>17, <2>1 DEF TypeOK, ConsumerDies
  <2> QED
    BY <1>17, <2>2, ConsumerEndsType DEF TypeOK, ConsumerDies
<1>18. CASE UNCHANGED vars
  BY <1>18 DEF TypeOK, vars
<1> QED
  BY <1>1, <1>2, <1>3, <1>4, <1>5, <1>6, <1>7, <1>8, <1>9, <1>9b, <1>10, <1>11,
     <1>12, <1>13, <1>14, <1>15, <1>16, <1>17, <1>18 DEF Next, ReadCall, Consume

\* Every variable of the mailbox keeps its type, whatever the consumers do.
THEOREM TypeCorrect == Spec => []TypeOK
BY TypeInit, TypeStep, PTL DEF Spec

-----------------------------------------------------------------------------
(* No message is skipped, whoever misses the lock.                         *)

Busy(r) == pc[r] \in {"locked", "torn"}
Taken(k) == claimed[k] \cup passed[k]

\* Every copy of the cursor that can still be written back is as good as the
\* file: a stale one only repeats.
SkipInv ==
  /\ TypeOK
  /\ NoSkip
  /\ \A r \in Readers : Busy(r) => \A k \in Keys : 1..base[r][k] \subseteq Taken(k)
  /\ \A c \in Consumers : hpc[c] = "drain" =>
       \A k \in Keys : 1..from[c][k] \subseteq Taken(k)

LEMMA CursorTaken ==
  ASSUME SkipInv, NEW k \in Keys
  PROVE  1..Cursor[k] \subseteq Taken(k)
BY DEF SkipInv, NoSkip, Cursor, Zero, Taken

LEMMA SkipInit == Init => SkipInv
BY TypeInit DEF Init, SkipInv, NoSkip, Busy, Zero

LEMMA SkipStep == SkipInv /\ [Next]_vars => SkipInv'
<1> SUFFICES ASSUME SkipInv, [Next]_vars PROVE SkipInv'
  OBVIOUS
<1>0. TypeOK /\ TypeOK'
  BY TypeStep DEF SkipInv
<1> USE <1>0 DEF cursorVars, callVars, consumerVars, history
<1>1. ASSUME NEW k \in Keys, NEW kind \in Traffic, Send(k, kind) PROVE SkipInv'
  BY <1>1 DEF SkipInv, NoSkip, Busy, Taken, Send
<1>2. ASSUME NEW r \in Readers, NEW k \in Keys, NEW l \in Limits, NEW n \in SinceCuts,
             NEW peek \in BOOLEAN, BeginRead(r, k, l, n, peek)
      PROVE  SkipInv'
  <2>1. \A q \in Readers : Busy(q)' => Busy(q)
    BY <1>2 DEF BeginRead, Busy, TypeOK
  <2> QED
    BY <1>2, <2>1 DEF SkipInv, NoSkip, Taken, BeginRead
<1>3. ASSUME NEW r \in Readers, CallEnds(r),
             UNCHANGED <<file, claimed, passed, consumerVars>>
      PROVE  SkipInv'
  <2>1. \A q \in Readers : Busy(q)' => Busy(q) /\ base'[q] = base[q]
    BY <1>3 DEF CallEnds, Busy, TypeOK
  <2> QED
    BY <1>3, <2>1 DEF SkipInv, NoSkip, Taken
<1>4. ASSUME NEW r \in Readers, Acquire(r) PROVE SkipInv'
  <2>1. \A k \in Keys : 1..Cursor[k] \subseteq Taken(k)
    BY CursorTaken
  <2>2. \A k \in Keys : 1..base'[r][k] \subseteq Taken(k)
    BY <1>4, <2>1 DEF Acquire, TypeOK
  <2>3. \A q \in Readers \ {r} : base'[q] = base[q] /\ (Busy(q)' => Busy(q))
    BY <1>4 DEF Acquire, Busy, TypeOK
  <2>4. \A q \in Readers \ {r} : Busy(q)' =>
          \A k \in Keys : 1..base'[q][k] \subseteq Taken(k)
    BY <2>3 DEF SkipInv
  <2>5. UNCHANGED <<file, claimed, passed, hpc, from>>
    BY <1>4 DEF Acquire
  <2> QED
    BY <2>2, <2>4, <2>5 DEF SkipInv, NoSkip, Taken
<1>6. ASSUME NEW r \in Readers, Truncate(r) PROVE SkipInv'
  <2>1. \A q \in Readers : Busy(q)' => Busy(q)
    BY <1>6 DEF Truncate, Busy, TypeOK
  <2> QED
    BY <1>6, <2>1 DEF SkipInv, NoSkip, Taken, Truncate
<1>7. ASSUME NEW r \in Readers, Store(r) PROVE SkipInv'
  <2>1. \A k \in Keys : Taken(k) \subseteq Taken(k)'
    BY <1>7 DEF Store, Taken, TypeOK
  <2> PICK k0 \in Keys : k0 = key[r]
    BY BatchFact
  <2>2. Taken(k0)' = Taken(k0) \cup Batch(r) \cup ((Start(r) + 1)..Lo(r))
    BY <1>7, BatchFact DEF Store, Taken, TypeOK
  <2>3. \A k \in Keys : 1..base[r][k] \subseteq Taken(k)
    BY <1>7 DEF SkipInv, Busy, Store
  <2>4. \A k \in Keys : 1..Advanced(r)[k] \subseteq Taken(k)'
    <3>1. ASSUME NEW k \in Keys, k # k0 PROVE 1..Advanced(r)[k] \subseteq Taken(k)'
      BY <3>1, <2>1, <2>3, BatchFact
    <3>2. 1..Advanced(r)[k0] \subseteq Taken(k0)'
      <4>1. 1..Start(r) \subseteq Taken(k0)
        BY <2>3, BatchFact DEF Start
      <4>2. 1..Hi(r) \subseteq 1..Start(r) \cup ((Start(r) + 1)..Lo(r)) \cup Batch(r)
        BY BatchFact DEF Batch
      <4>3. 1..Advanced(r)[k0] \subseteq 1..Hi(r)
        BY BatchFact DEF Offsets
      <4> QED
        BY <4>1, <4>2, <4>3, <2>2
    <3> QED
      BY <3>1, <3>2
  <2>5. \A k \in Keys : 1..file'[k] \subseteq Taken(k)'
    BY <1>7, <2>1, <2>4 DEF Store, SkipInv, NoSkip, Taken
  <2>6. \A q \in Readers : Busy(q)' => Busy(q) /\ base'[q] = base[q]
    BY <1>7 DEF Store, Busy, TypeOK
  <2> QED
    BY <1>7, <2>1, <2>5, <2>6 DEF SkipInv, NoSkip, Taken, Store
<1>8. ASSUME NEW r \in Readers, Stash(r) PROVE SkipInv'
  <2>1. \A q \in Readers : Busy(q)' => Busy(q)
    BY <1>8 DEF Stash, Busy, TypeOK
  <2> QED
    BY <1>8, <2>1 DEF SkipInv, NoSkip, Taken, Stash
<1>11. CASE BreakStaleLock
  BY <1>11 DEF SkipInv, NoSkip, Busy, Taken, BreakStaleLock
<1>12. ASSUME NEW c \in Consumers, NEW w \in BOOLEAN, Load(c, w) PROVE SkipInv'
  <2>1. \A k \in Keys : 1..Cursor[k] \subseteq Taken(k)
    BY CursorTaken
  <2>2. \A k \in Keys : 1..from'[c][k] \subseteq Taken(k)
    BY <1>12, <2>1 DEF Load, TypeOK
  <2>3. \A d \in Consumers \ {c} : from'[d] = from[d] /\ hpc'[d] = hpc[d]
    BY <1>12 DEF Load, TypeOK
  <2>4. \A d \in Consumers \ {c} : hpc'[d] = "drain" =>
          \A k \in Keys : 1..from'[d][k] \subseteq Taken(k)
    BY <2>3 DEF SkipInv
  <2>5. UNCHANGED <<file, claimed, passed, pc, base>>
    BY <1>12 DEF Load
  <2> QED
    BY <2>2, <2>4, <2>5 DEF SkipInv, NoSkip, Busy, Taken
<1>13. ASSUME NEW c \in Consumers, NEW k \in Keys, Drain(c, k) PROVE SkipInv'
  BY <1>13 DEF SkipInv, NoSkip, Busy, Taken, Drain
<1>14. ASSUME NEW c \in Consumers, Save(c) PROVE SkipInv'
  <2>1. \A k \in Keys : Taken(k)' = Taken(k) \cup Drained(c, k)
    BY <1>14 DEF Save, Taken, TypeOK
  <2>2. \A k \in Keys : 1..from[c][k] \subseteq Taken(k)
    BY <1>14 DEF SkipInv, Save
  <2>3. \A k \in Keys : 1..upto[c][k] \subseteq 1..from[c][k] \cup Drained(c, k)
    BY DEF Drained, TypeOK, Offsets
  <2>4. \A k \in Keys : 1..file'[k] \subseteq Taken(k)'
    BY <1>14, <2>1, <2>2, <2>3 DEF Save
  <2>5. \A d \in Consumers : hpc'[d] = "drain" => hpc[d] = "drain"
    BY <1>14 DEF Save, TypeOK
  <2> QED
    BY <1>14, <2>1, <2>4, <2>5 DEF SkipInv, NoSkip, Busy, Taken, Save
<1>15. ASSUME NEW c \in Consumers, ConsumerEnds(c),
              UNCHANGED <<file, claimed, passed, callVars>>
       PROVE  SkipInv'
  <2>1. \A d \in Consumers : hpc'[d] = "drain" => hpc[d] = "drain" /\ from'[d] = from[d]
    BY <1>15 DEF ConsumerEnds, TypeOK
  <2> QED
    BY <1>15, <2>1 DEF SkipInv, NoSkip, Busy, Taken
<1>18. CASE UNCHANGED vars
  BY <1>18 DEF SkipInv, NoSkip, Busy, Taken, vars
<1>19. ASSUME NEW r \in Readers, Peek(r) \/ LockFailed(r) \/ Reply(r) \/ StashThrows(r)
                                  \/ CallDies(r)
       PROVE  SkipInv'
  BY <1>19, <1>3 DEF Peek, LockFailed, Reply, StashThrows, CallDies
<1>20. ASSUME NEW c \in Consumers, NothingToSave(c) \/ Show(c) \/ ConsumerDies(c)
       PROVE  SkipInv'
  BY <1>20, <1>15 DEF NothingToSave, Show, ConsumerDies
<1> QED
  BY <1>1, <1>2, <1>4, <1>6, <1>7, <1>8, <1>11, <1>12, <1>13, <1>14, <1>18, <1>19,
     <1>20 DEF Next, ReadCall, Consume

\* No offset ever passes a message nobody took, although hooks and pushers
\* write the cursor file without its lock, at any moment, crashes included.
THEOREM NothingSkipped == Spec => []NoSkip
<1>1. SkipInv => NoSkip
  BY DEF SkipInv
<1> QED
  BY <1>1, SkipInit, SkipStep, PTL DEF Spec

-----------------------------------------------------------------------------
(* Locked calls alone deliver exactly once.                                *)

\* The holder of the lock is the only call between its read of the cursor and
\* its write, so what it read is still what the file said; a file found
\* truncated is its own doing, or that of a call that died.
OnceInv ==
  /\ TypeOK
  /\ ExactlyOnce
  /\ \A r \in Readers : cut[r] = 0
  /\ \A r \in Readers : Busy(r) => lock = r
  /\ \A r \in Readers : pc[r] = "torn" => torn
  /\ ~wiped =>
       /\ torn => \E r \in Readers : pc[r] = "torn"
       /\ \A r \in Readers : Busy(r) => base[r] = file

LEMMA OnceInit == Init => OnceInv
BY TypeInit DEF Init, OnceInv, ExactlyOnce, Busy, Zero

\* The batch of a call that holds the lock is what follows the claimed prefix.
LEMMA BatchIsNext ==
  ASSUME OnceInv, NEW r \in Readers, pc[r] = "torn", ~wiped
  PROVE  /\ key[r] \in Keys
         /\ claimed[key[r]] \cap Batch(r) = {}
         /\ claimed[key[r]] \cup Batch(r) = 1..Advanced(r)[key[r]]
         /\ \A k \in Keys : k # key[r] => Advanced(r)[k] = file[k]
         /\ file[key[r]] <= Advanced(r)[key[r]]
<1>1. TypeOK /\ base[r] = file /\ cut[r] = 0
  BY DEF OnceInv, Busy
<1>2. Start(r) = file[key[r]] /\ Lo(r) = Start(r)
  BY <1>1, BatchFact DEF Start
<1>3. Advanced(r)[key[r]] = Hi(r)
  BY <1>1, <1>2, BatchFact
<1>4. claimed[key[r]] = 1..Start(r)
  BY <1>1, <1>2, BatchFact DEF OnceInv, ExactlyOnce
<1>5. Batch(r) = (Start(r) + 1)..Hi(r)
  BY <1>2 DEF Batch
<1> HIDE DEF Batch
<1>6. Start(r) \in Nat /\ Hi(r) \in Nat /\ Start(r) <= Hi(r) /\ key[r] \in Keys
  BY <1>1, BatchFact
<1>7. (1..Start(r)) \cap Batch(r) = {} /\ (1..Start(r)) \cup Batch(r) = 1..Hi(r)
  BY <1>5, <1>6
<1>8. claimed[key[r]] \cap Batch(r) = {}
  BY <1>4, <1>7
<1>9. claimed[key[r]] \cup Batch(r) = 1..Advanced(r)[key[r]]
  BY <1>3, <1>4, <1>7
<1>10. \A k \in Keys : k # key[r] => Advanced(r)[k] = file[k]
  BY <1>1, BatchFact
<1>11. file[key[r]] <= Advanced(r)[key[r]]
  BY <1>2, <1>3, <1>6
<1> QED
  BY <1>6, <1>8, <1>9, <1>10, <1>11

LEMMA OnceStep ==
  ASSUME Consumers = {}, SinceCuts = {0}
  PROVE  OnceInv /\ [Next]_vars => OnceInv'
<1> SUFFICES ASSUME OnceInv, [Next]_vars PROVE OnceInv'
  OBVIOUS
<1>0. TypeOK /\ TypeOK'
  BY TypeStep DEF OnceInv
<1> USE <1>0 DEF cursorVars, callVars, consumerVars, history
<1>1. ASSUME NEW k \in Keys, NEW kind \in Traffic, Send(k, kind) PROVE OnceInv'
  BY <1>1 DEF OnceInv, ExactlyOnce, Busy, Send
<1>2. ASSUME NEW r \in Readers, NEW k \in Keys, NEW l \in Limits, NEW n \in SinceCuts,
             NEW peek \in BOOLEAN, BeginRead(r, k, l, n, peek)
      PROVE  OnceInv'
  <2>1. \A q \in Readers : cut'[q] = 0
    BY <1>2 DEF BeginRead, OnceInv, TypeOK
  <2>2. \A q \in Readers : pc'[q] # pc[q] => q = r /\ pc[r] = "idle" /\ ~Busy(r)'
    BY <1>2 DEF BeginRead, Busy, TypeOK
  <2>3. \A q \in Readers : (Busy(q)' => Busy(q)) /\ (pc'[q] = "torn" <=> pc[q] = "torn")
    BY <1>2, <2>2 DEF Busy, BeginRead, TypeOK
  <2> QED
    BY <1>2, <2>1, <2>3 DEF OnceInv, ExactlyOnce, BeginRead
<1>3. ASSUME NEW r \in Readers, CallEnds(r), pc[r] \notin {"locked", "torn"},
             UNCHANGED <<file, torn, lock, claimed, again>>, wiped' = wiped
      PROVE  OnceInv'
  <2>1. \A q \in Readers : cut'[q] = 0
    BY <1>3 DEF CallEnds, OnceInv, TypeOK
  <2>2. \A q \in Readers : /\ Busy(q)' => Busy(q) /\ base'[q] = base[q]
                           /\ pc'[q] = "torn" <=> pc[q] = "torn"
    BY <1>3 DEF CallEnds, Busy, TypeOK
  <2>3. ExactlyOnce'
    BY <1>3 DEF OnceInv, ExactlyOnce
  <2>4. \A q \in Readers : (Busy(q)' => lock' = q) /\ (pc'[q] = "torn" => torn')
    BY <1>3, <2>2 DEF OnceInv
  <2>5. ~wiped' =>
          /\ torn' => \E q \in Readers : pc'[q] = "torn"
          /\ \A q \in Readers : Busy(q)' => base'[q] = file'
    BY <1>3, <2>2 DEF OnceInv
  <2> QED
    BY <2>1, <2>3, <2>4, <2>5 DEF OnceInv
<1>4. ASSUME NEW r \in Readers, Acquire(r) PROVE OnceInv'
  <2>1. \A q \in Readers : ~Busy(q)
    BY <1>4, NobodyAssumption DEF Acquire, OnceInv
  <2>2. ~wiped => Cursor = file
    BY <2>1 DEF OnceInv, Busy, Cursor
  <2>3. \A q \in Readers : Busy(q)' => q = r
    BY <1>4, <2>1 DEF Acquire, Busy, TypeOK
  <2>4. base'[r] = Cursor /\ lock' = r
    BY <1>4 DEF Acquire, TypeOK
  <2>5. \A q \in Readers : pc'[q] # "torn" /\ pc[q] # "torn"
    BY <1>4, <2>1 DEF Acquire, Busy, TypeOK
  <2>6. UNCHANGED <<file, torn, cut, claimed, again, wiped>>
    BY <1>4 DEF Acquire
  <2> QED
    BY <2>2, <2>3, <2>4, <2>5, <2>6 DEF OnceInv, ExactlyOnce
<1>6. ASSUME NEW r \in Readers, Truncate(r) PROVE OnceInv'
  <2>1. \A q \in Readers : Busy(q)' <=> Busy(q)
    BY <1>6 DEF Truncate, Busy, TypeOK
  <2>2. pc'[r] = "torn" /\ torn'
    BY <1>6 DEF Truncate, TypeOK
  <2>3. UNCHANGED <<file, lock, cut, base, claimed, again, wiped>>
    BY <1>6 DEF Truncate
  <2> QED
    BY <2>1, <2>2, <2>3 DEF OnceInv, ExactlyOnce
<1>7. ASSUME NEW r \in Readers, Store(r) PROVE OnceInv'
  <2>1. pc[r] = "torn" /\ torn /\ lock = r
    BY <1>7 DEF Store, OnceInv, Busy
  <2>2. \A q \in Readers : Busy(q) => q = r
    BY <2>1 DEF OnceInv
  <2>3. \A q \in Readers : ~Busy(q)' /\ pc'[q] # "torn"
    BY <1>7, <2>2 DEF Store, Busy, TypeOK
  <2>4. UNCHANGED <<cut, wiped>> /\ ~torn'
    BY <1>7 DEF Store
  <2>5. ASSUME ~wiped, NEW k \in Keys
        PROVE  claimed'[k] = 1..file'[k] /\ again'[k] = {}
    <3>1. file' = Advanced(r)
      BY <1>7, <2>1 DEF Store
    <3>2. CASE k = key[r]
      BY SMTT(30), <1>7, <2>1, <2>5, <3>1, <3>2, BatchIsNext
         DEF Store, OnceInv, ExactlyOnce, TypeOK
    <3>3. CASE k # key[r]
      BY <1>7, <2>1, <2>5, <3>1, <3>3, BatchIsNext
         DEF Store, OnceInv, ExactlyOnce, TypeOK
    <3> QED
      BY <3>2, <3>3
  <2> QED
    BY <2>3, <2>4, <2>5 DEF OnceInv, ExactlyOnce
<1>8. ASSUME NEW r \in Readers, Stash(r) PROVE OnceInv'
  <2>1. \A q \in Readers : (Busy(q)' => Busy(q)) /\ (pc'[q] = "torn" <=> pc[q] = "torn")
    BY <1>8 DEF Stash, Busy, TypeOK
  <2> QED
    BY <1>8, <2>1 DEF OnceInv, ExactlyOnce, Stash
<1>10. ASSUME NEW r \in Readers, CallDies(r) PROVE OnceInv'
  <2>1. CASE pc[r] \notin {"locked", "torn"}
    <3>1. wiped' = wiped
      BY <1>10, <2>1 DEF CallDies, OnceInv, TypeOK
    <3> QED
      BY <1>10, <2>1, <3>1, <1>3 DEF CallDies
  <2>2. CASE pc[r] = "locked"
    <3>1. \A q \in Readers : cut'[q] = 0
      BY <1>10 DEF CallDies, CallEnds, OnceInv, TypeOK
    <3>2. \A q \in Readers : /\ Busy(q)' => Busy(q) /\ base'[q] = base[q]
                             /\ pc'[q] = "torn" <=> pc[q] = "torn"
      BY <1>10, <2>2 DEF CallDies, CallEnds, Busy, TypeOK
    <3>3. ExactlyOnce'
      BY <1>10, <2>2 DEF CallDies, OnceInv, ExactlyOnce
    <3>4. \A q \in Readers : (Busy(q)' => lock' = q) /\ (pc'[q] = "torn" => torn')
      BY <1>10, <2>2, <3>2 DEF CallDies, OnceInv
    <3>5. ~wiped' =>
            /\ torn' => \E q \in Readers : pc'[q] = "torn"
            /\ \A q \in Readers : Busy(q)' => base'[q] = file'
      BY <1>10, <2>2, <3>2 DEF CallDies, OnceInv
    <3> QED
      BY <3>1, <3>3, <3>4, <3>5 DEF OnceInv
  <2>3. CASE pc[r] = "torn"
    <3>1. \A q \in Readers : cut'[q] = 0
      BY <1>10 DEF CallDies, CallEnds, OnceInv, TypeOK
    <3>2. \A q \in Readers : Busy(q)' => Busy(q) /\ (pc'[q] = "torn" => pc[q] = "torn")
      BY <1>10, <2>3 DEF CallDies, CallEnds, Busy, TypeOK
    <3>3. \A q \in Readers : pc'[q] = "torn" => pc[q] = "torn"
      BY <1>10, <2>3 DEF CallDies, CallEnds, TypeOK
    <3>4. wiped'
      BY <1>10, <2>3 DEF CallDies, OnceInv
    <3> QED
      BY <1>10, <3>1, <3>2, <3>3, <3>4 DEF CallDies, OnceInv, ExactlyOnce
  <2> QED
    BY <2>1, <2>2, <2>3
<1>11. CASE BreakStaleLock
  <2>1. \A q \in Readers : ~Busy(q)
    BY <1>11 DEF BreakStaleLock, OnceInv, Busy
  <2> QED
    BY <1>11, <2>1 DEF BreakStaleLock, OnceInv, ExactlyOnce, Busy
<1>18. CASE UNCHANGED vars
  BY <1>18 DEF OnceInv, ExactlyOnce, Busy, vars
<1>19. ASSUME NEW r \in Readers, Peek(r) \/ LockFailed(r) \/ Reply(r) \/ StashThrows(r)
       PROVE  OnceInv'
  BY <1>19, <1>3 DEF Peek, LockFailed, Reply, StashThrows
<1> QED
  BY <1>1, <1>2, <1>4, <1>6, <1>7, <1>8, <1>10, <1>11, <1>18, <1>19 DEF Next, ReadCall

\* Without hooks and pushers, and without sinceTs, concurrent read_messages
\* calls take every message once, in order, without a gap: the snapshot taken
\* before the lock does no harm.  Dying calls spare it too, unless one dies
\* with the cursor file truncated.
THEOREM LockedReadsExactlyOnce ==
  ASSUME Consumers = {}, SinceCuts = {0}
  PROVE  Spec => []ExactlyOnce
<1>1. OnceInv => ExactlyOnce
  BY DEF OnceInv
<1> QED
  BY <1>1, OnceInit, OnceStep, PTL DEF Spec

-----------------------------------------------------------------------------
(* No offset runs past the end of its log.                                 *)

LenInv ==
  /\ TypeOK
  /\ CursorWithinLog
  /\ \A r \in Readers : Busy(r) => \A k \in Keys : base[r][k] <= Len(log[k])
  /\ \A r \in Readers : pc[r] # "idle" => seen[r] <= Len(log[key[r]])
  /\ \A c \in Consumers : hpc[c] = "drain" =>
       \A k \in Keys : upto[c][k] <= Len(log[k])

LEMMA LenInit == Init => LenInv
BY TypeInit DEF Init, LenInv, CursorWithinLog, Busy, Zero

LEMMA LengthType == TypeOK => \A k \in Keys : Len(log[k]) \in Nat
BY DEF TypeOK

LEMMA CursorInLog ==
  ASSUME LenInv, NEW k \in Keys
  PROVE  Cursor[k] <= Len(log[k])
BY LengthType DEF LenInv, CursorWithinLog, Cursor, Zero

LEMMA AdvancedInLog ==
  ASSUME LenInv, NEW r \in Readers, Busy(r), NEW k \in Keys
  PROVE  Advanced(r)[k] <= Len(log[k])
<1>1. TypeOK /\ Len(log[k]) \in Nat /\ base[r][k] <= Len(log[k])
  BY LengthType DEF LenInv
<1>2. CASE k # key[r]
  BY <1>1, <1>2, BatchFact
<1>3. CASE k = key[r]
  <2>1. seen[r] <= Len(log[k]) /\ Start(r) <= Len(log[k])
    BY <1>1, <1>3 DEF LenInv, Busy, Start
  <2>2. Hi(r) <= Len(log[k])
    BY <1>1, <2>1, BatchFact
  <2>3. Advanced(r)[k] <= Hi(r) /\ Advanced(r)[k] \in Nat /\ Hi(r) \in Nat
    BY <1>1, <1>3, BatchFact DEF Offsets
  <2> QED
    BY <1>1, <2>2, <2>3
<1> QED
  BY <1>2, <1>3

LEMMA LenStep == LenInv /\ [Next]_vars => LenInv'
<1> SUFFICES ASSUME LenInv, [Next]_vars PROVE LenInv'
  OBVIOUS
<1>0. TypeOK /\ TypeOK'
  BY TypeStep DEF LenInv
<1>len. \A k \in Keys : Len(log[k]) \in Nat
  BY <1>0, LengthType
<1> USE <1>0 DEF cursorVars, callVars, consumerVars, history
<1>1. ASSUME NEW k \in Keys, NEW kind \in Traffic, Send(k, kind) PROVE LenInv'
  <2>1. \A j \in Keys : Len(log[j]) <= Len(log'[j]) /\ Len(log'[j]) \in Nat
    <3>1. kind \in Kinds
      BY TrafficAssumption
    <3>2. Len(Append(log[k], kind)) = Len(log[k]) + 1
      BY <3>1 DEF TypeOK
    <3> QED
      BY <1>1, <1>len, <3>2 DEF Send, TypeOK
  <2>2. \A r \in Readers : Busy(r)' <=> Busy(r)
    BY <1>1 DEF Send, Busy
  <2>3. CursorWithinLog'
    BY <1>1, <1>len, <2>1 DEF Send, LenInv, CursorWithinLog, TypeOK, Offsets
  <2>4. \A r \in Readers : Busy(r)' => \A j \in Keys : base'[r][j] <= Len(log'[j])
    <3>1. ASSUME NEW r \in Readers, Busy(r), NEW j \in Keys
          PROVE  base[r][j] <= Len(log'[j])
      <4>1. base[r][j] \in Nat /\ base[r][j] <= Len(log[j])
        BY <3>1 DEF LenInv, TypeOK, Offsets
      <4> QED
        BY <4>1, <1>len, <2>1
    <3> QED
      BY <1>1, <2>2, <3>1 DEF Send
  <2>5. \A r \in Readers : pc'[r] # "idle" => seen'[r] <= Len(log'[key'[r]])
    BY <1>1, <1>len, <2>1 DEF Send, LenInv, TypeOK
  <2>6. \A c \in Consumers : hpc'[c] = "drain" =>
          \A j \in Keys : upto'[c][j] <= Len(log'[j])
    <3>1. ASSUME NEW c \in Consumers, hpc[c] = "drain", NEW j \in Keys
          PROVE  upto[c][j] <= Len(log'[j])
      <4>1. upto[c][j] \in Nat /\ upto[c][j] <= Len(log[j])
        BY <3>1 DEF LenInv, TypeOK, Offsets
      <4> QED
        BY <4>1, <1>len, <2>1
    <3> QED
      BY <1>1, <3>1 DEF Send
  <2> QED
    BY <2>3, <2>4, <2>5, <2>6 DEF LenInv
<1>2. ASSUME NEW r \in Readers, NEW k \in Keys, NEW l \in Limits, NEW n \in SinceCuts,
             NEW peek \in BOOLEAN, BeginRead(r, k, l, n, peek)
      PROVE  LenInv'
  <2>1. \A q \in Readers : Busy(q)' => Busy(q)
    BY <1>2 DEF BeginRead, Busy, TypeOK
  <2>2. \A q \in Readers : pc'[q] # "idle" => seen'[q] <= Len(log'[key'[q]])
    BY <1>2, <1>len DEF BeginRead, LenInv, TypeOK
  <2> QED
    BY <1>2, <2>1, <2>2 DEF BeginRead, LenInv, CursorWithinLog
<1>3. ASSUME NEW r \in Readers, CallEnds(r), UNCHANGED <<log, file, consumerVars>>
      PROVE  LenInv'
  <2>1. \A q \in Readers : Busy(q)' => Busy(q) /\ base'[q] = base[q]
    BY <1>3 DEF CallEnds, Busy, TypeOK
  <2>2. \A q \in Readers : pc'[q] # "idle" => pc[q] # "idle" /\ seen'[q] = seen[q]
    BY <1>3 DEF CallEnds, TypeOK
  <2> QED
    BY <1>3, <2>1, <2>2 DEF CallEnds, LenInv, CursorWithinLog
<1>4. ASSUME NEW r \in Readers, Acquire(r) PROVE LenInv'
  <2>1. \A k \in Keys : base'[r][k] <= Len(log[k])
    BY <1>4, CursorInLog DEF Acquire, TypeOK
  <2>2. \A q \in Readers \ {r} : base'[q] = base[q] /\ (Busy(q)' => Busy(q))
    BY <1>4 DEF Acquire, Busy, TypeOK
  <2>3. \A q \in Readers \ {r} : Busy(q)' => \A k \in Keys : base'[q][k] <= Len(log[k])
    BY <2>2 DEF LenInv
  <2>4. \A q \in Readers : pc'[q] # "idle" => pc[q] # "idle"
    BY <1>4 DEF Acquire, TypeOK
  <2>5. UNCHANGED <<log, file, key, seen, hpc, upto>>
    BY <1>4 DEF Acquire
  <2> QED
    BY <2>1, <2>3, <2>4, <2>5 DEF LenInv, CursorWithinLog
<1>6. ASSUME NEW r \in Readers, Truncate(r) PROVE LenInv'
  <2>1. \A q \in Readers : (Busy(q)' => Busy(q)) /\ (pc'[q] # "idle" => pc[q] # "idle")
    BY <1>6 DEF Truncate, Busy, TypeOK
  <2> QED
    BY <1>6, <2>1 DEF Truncate, LenInv, CursorWithinLog
<1>7. ASSUME NEW r \in Readers, Store(r) PROVE LenInv'
  <2>1. Busy(r)
    BY <1>7 DEF Store, Busy
  <2>2. \A k \in Keys : file'[k] <= Len(log[k])
    BY <1>7, <2>1, AdvancedInLog DEF Store, LenInv, CursorWithinLog
  <2>3. \A q \in Readers : (Busy(q)' => Busy(q)) /\ (pc'[q] # "idle" => pc[q] # "idle")
    BY <1>7 DEF Store, Busy, TypeOK
  <2>4. UNCHANGED <<log, key, seen, base, hpc, upto>>
    BY <1>7 DEF Store
  <2> QED
    BY <2>2, <2>3, <2>4 DEF LenInv, CursorWithinLog
<1>8. ASSUME NEW r \in Readers, Stash(r) PROVE LenInv'
  <2>1. \A q \in Readers : (Busy(q)' => Busy(q)) /\ (pc'[q] # "idle" => pc[q] # "idle")
    BY <1>8 DEF Stash, Busy, TypeOK
  <2> QED
    BY <1>8, <2>1 DEF Stash, LenInv, CursorWithinLog
<1>11. CASE BreakStaleLock
  BY <1>11 DEF LenInv, CursorWithinLog, Busy, BreakStaleLock
<1>12. ASSUME NEW c \in Consumers, NEW w \in BOOLEAN, Load(c, w) PROVE LenInv'
  <2>1. \A k \in Keys : upto'[c][k] <= Len(log[k])
    BY <1>12, CursorInLog DEF Load, TypeOK
  <2>2. \A d \in Consumers \ {c} : upto'[d] = upto[d] /\ hpc'[d] = hpc[d]
    BY <1>12 DEF Load, TypeOK
  <2>3. \A d \in Consumers \ {c} : hpc'[d] = "drain" =>
          \A k \in Keys : upto'[d][k] <= Len(log[k])
    BY <2>2 DEF LenInv
  <2>4. UNCHANGED <<log, file, pc, key, seen, base>>
    BY <1>12 DEF Load
  <2> QED
    BY <2>1, <2>3, <2>4 DEF LenInv, CursorWithinLog, Busy
<1>13. ASSUME NEW c \in Consumers, NEW k \in Keys, Drain(c, k) PROVE LenInv'
  <2>1. \A d \in Consumers : \A j \in Keys :
          \/ upto'[d][j] = upto[d][j]
          \/ d = c /\ j = k /\ upto'[d][j] = Most(upto[c][k], Len(log[k]))
    BY <1>13 DEF Drain, TypeOK, Offsets
  <2>2. upto[c][k] \in Nat /\ upto[c][k] <= Len(log[k])
    BY <1>13 DEF Drain, LenInv, TypeOK, Offsets
  <2>3. Most(upto[c][k], Len(log[k])) <= Len(log[k])
    BY <1>len, <2>2 DEF Most
  <2>4. \A d \in Consumers : hpc'[d] = "drain" =>
          \A j \in Keys : upto'[d][j] <= Len(log[j])
    BY <1>13, <2>1, <2>3 DEF Drain, LenInv
  <2>5. UNCHANGED <<log, file, pc, key, seen, base>>
    BY <1>13 DEF Drain
  <2> QED
    BY <2>4, <2>5 DEF LenInv, CursorWithinLog, Busy
<1>14. ASSUME NEW c \in Consumers, Save(c) PROVE LenInv'
  <2>1. \A k \in Keys : file'[k] <= Len(log[k])
    BY <1>14 DEF Save, LenInv
  <2>2. \A d \in Consumers : hpc'[d] = "drain" => hpc[d] = "drain"
    BY <1>14 DEF Save, TypeOK
  <2> QED
    BY <1>14, <2>1, <2>2 DEF Save, LenInv, CursorWithinLog, Busy
<1>15. ASSUME NEW c \in Consumers, ConsumerEnds(c), UNCHANGED <<log, file, callVars>>
       PROVE  LenInv'
  <2>1. \A d \in Consumers : hpc'[d] = "drain" => hpc[d] = "drain" /\ upto'[d] = upto[d]
    BY <1>15 DEF ConsumerEnds, TypeOK
  <2> QED
    BY <1>15, <2>1 DEF LenInv, CursorWithinLog, Busy
<1>18. CASE UNCHANGED vars
  BY <1>18 DEF LenInv, CursorWithinLog, Busy, vars
<1>19. ASSUME NEW r \in Readers, Peek(r) \/ LockFailed(r) \/ Reply(r) \/ StashThrows(r)
                                  \/ CallDies(r)
       PROVE  LenInv'
  BY <1>19, <1>3 DEF Peek, LockFailed, Reply, StashThrows, CallDies
<1>20. ASSUME NEW c \in Consumers, NothingToSave(c) \/ Show(c) \/ ConsumerDies(c)
       PROVE  LenInv'
  BY <1>20, <1>15 DEF NothingToSave, Show, ConsumerDies
<1> QED
  BY <1>1, <1>2, <1>4, <1>6, <1>7, <1>8, <1>11, <1>12, <1>13, <1>14, <1>18, <1>19,
     <1>20 DEF Next, ReadCall, Consume

\* Whatever is written to the cursor file, and whoever writes it, the next
\* message of a log is never out of reach of a read.
THEOREM CursorReachable == Spec => []CursorWithinLog
<1>1. LenInv => CursorWithinLog
  BY DEF LenInv
<1> QED
  BY <1>1, LenInit, LenStep, PTL DEF Spec

-----------------------------------------------------------------------------
(* Nothing a room read moves past is lost.                                 *)

\* The two ways a position is in hand: a call has it, or a hook or pusher.
CallHas(r, k, i) ==
  /\ key[r] = k
  /\ \/ pc[r] \in {"stash", "reply"} /\ i \in Recent(r)
     \/ pc[r] = "stash" /\ i \in Overflow(r)
RunHas(c, k, i) == hpc[c] = "print" /\ i \in Drained(c, k)

\* What was taken is in the log: its kind does not change any more.
ClaimedInLog == \A k \in Keys : claimed[k] \subseteq 1..Len(log[k])

\* What a pusher is about to queue is on its account.
HandsPushed ==
  \A c \in Pushers : hpc[c] = "print" => \A k \in Keys : Drained(c, k) \subseteq pushed[k]

KeepInv == LenInv /\ ClaimedInLog /\ HandsPushed /\ RoomsLossless

\* A call's batch depends on its own locals only.
LEMMA SameBatch ==
  ASSUME NEW r \in Readers,
         key'[r] = key[r], limit'[r] = limit[r], cut'[r] = cut[r], seen'[r] = seen[r],
         base'[r] = base[r]
  PROVE  Recent(r)' = Recent(r) /\ Overflow(r)' = Overflow(r) /\ Batch(r)' = Batch(r)
<1>1. Start(r)' = Start(r)
  BY DEF Start
<1>2. Hi(r)' = Hi(r)
  BY <1>1 DEF Hi
<1>3. Lo(r)' = Lo(r)
  BY <1>1, <1>2 DEF Lo
<1>4. EffectiveLimit(r)' = EffectiveLimit(r)
  BY DEF EffectiveLimit
<1>5. (Overflows(r)' <=> Overflows(r)) /\ Batch(r)' = Batch(r)
  BY <1>2, <1>3, <1>4 DEF Overflows, Batch
<1>6. Overflow(r)' = Overflow(r)
  BY <1>2, <1>3, <1>4, <1>5 DEF Overflow
<1>7. Recent(r)' = Recent(r)
  BY <1>2, <1>3, <1>4, <1>5 DEF Recent
<1> QED
  BY <1>5, <1>6, <1>7

\* A room's batch is returned or stashed, all of it and nothing else.
LEMMA RoomBatch ==
  ASSUME TypeOK, NEW r \in Readers, key[r] \in Rooms
  PROVE  Batch(r) = Recent(r) \cup Overflow(r)
<1>1. EffectiveLimit(r) \in Nat
  BY WindowAssumption, BoundAssumption DEF TypeOK, EffectiveLimit
<1>2. Lo(r) \in Nat /\ Hi(r) \in Nat /\ Lo(r) <= Hi(r)
  BY BatchFact
<1>3. CASE ~Overflows(r)
  BY <1>3 DEF Recent, Overflow
<1>4. CASE Overflows(r)
  <2>1. /\ Recent(r) = (Hi(r) - EffectiveLimit(r) + 1)..Hi(r)
        /\ Overflow(r) = (Lo(r) + 1)..(Hi(r) - EffectiveLimit(r))
    BY <1>4 DEF Recent, Overflow
  <2>2. Hi(r) - Lo(r) > EffectiveLimit(r)
    BY <1>4 DEF Overflows
  <2> QED
    BY <1>1, <1>2, <2>1, <2>2 DEF Batch
<1> QED
  BY <1>3, <1>4

\* Every position taken is inside the log.
LEMMA BatchInLog ==
  ASSUME LenInv, NEW r \in Readers, pc[r] = "torn"
  PROVE  Batch(r) \subseteq 1..Len(log[key[r]])
<1>1. TypeOK /\ key[r] \in Keys /\ Len(log[key[r]]) \in Nat
  BY LengthType, BatchFact DEF LenInv
<1>2. seen[r] <= Len(log[key[r]]) /\ Start(r) <= Len(log[key[r]])
  BY <1>1 DEF LenInv, Busy, Start
<1>3. /\ Lo(r) \in Nat /\ Hi(r) \in Nat
      /\ Hi(r) = Start(r) \/ Hi(r) = seen[r]
  BY <1>1, BatchFact
<1>4. Hi(r) <= Len(log[key[r]])
  BY <1>2, <1>3
<1> QED
  BY <1>1, <1>3, <1>4 DEF Batch

LEMMA DrainedInLog ==
  ASSUME LenInv, NEW c \in Consumers, hpc[c] = "drain", NEW k \in Keys
  PROVE  Drained(c, k) \subseteq 1..Len(log[k])
<1>1. from[c][k] \in Nat /\ upto[c][k] \in Nat /\ Len(log[k]) \in Nat
  BY LengthType DEF LenInv, TypeOK, Offsets
<1>2. upto[c][k] <= Len(log[k])
  BY DEF LenInv
<1> QED
  BY <1>1, <1>2 DEF Drained

\* What is settled stays settled: no step takes it back.
SettledStays(k) == \A i \in claimed[k] : Settled(k, i) => Settled(k, i)'

\* A step that takes nothing keeps a room whole if what was in hand stays in
\* hand or is settled, the owner's own posts and commands excepted.
LEMMA StaysKept ==
  ASSUME KeepInv, NEW k \in Rooms,
         claimed'[k] = claimed[k], SettledStays(k),
         \A i \in claimed[k] : log'[k][i] = log[k][i],
         \A r \in Readers : \A i \in claimed[k] : CallHas(r, k, i) /\ Owed(k, i) =>
           CallHas(r, k, i)' \/ Settled(k, i)',
         \A c \in Consumers : \A i \in claimed[k] : RunHas(c, k, i) /\ Owed(k, i) =>
           RunHas(c, k, i)' \/ Settled(k, i)'
  PROVE  Kept(k)'
<1> SUFFICES ASSUME NEW i \in claimed[k], Owed(k, i)
             PROVE  Settled(k, i)' \/ InHand(k, i)'
  BY DEF Kept, Owed
<1>1. Settled(k, i) \/ InHand(k, i)
  BY DEF KeepInv, RoomsLossless, Kept
<1>2. CASE Settled(k, i)
  BY <1>2 DEF SettledStays
<1>3. ASSUME NEW r \in Readers, CallHas(r, k, i) PROVE Settled(k, i)' \/ InHand(k, i)'
  BY <1>3 DEF CallHas, InHand
<1>4. ASSUME NEW c \in Consumers, RunHas(c, k, i) PROVE Settled(k, i)' \/ InHand(k, i)'
  BY <1>4 DEF RunHas, InHand
<1> QED
  BY <1>1, <1>2, <1>3, <1>4 DEF InHand, CallHas, RunHas

LEMMA KeepInit == Init => KeepInv
BY LenInit DEF Init, KeepInv, ClaimedInLog, HandsPushed, RoomsLossless, Kept, Consumers, Keys

LEMMA ClaimedStep == LenInv /\ ClaimedInLog /\ [Next]_vars => ClaimedInLog'
<1> SUFFICES ASSUME LenInv, ClaimedInLog, [Next]_vars PROVE ClaimedInLog'
  OBVIOUS
<1>0. TypeOK /\ \A k \in Keys : Len(log[k]) \in Nat
  BY LengthType DEF LenInv
<1> USE DEF cursorVars, callVars, consumerVars, history
<1>1. ASSUME NEW k \in Keys, NEW kind \in Traffic, Send(k, kind) PROVE ClaimedInLog'
  <2>1. \A j \in Keys : Len(log'[j]) \in Nat /\ Len(log[j]) <= Len(log'[j])
    <3>1. kind \in Kinds /\ log[k] \in Seq(Kinds)
      BY <1>0, TrafficAssumption DEF TypeOK
    <3>2. Len(Append(log[k], kind)) = Len(log[k]) + 1
      BY <3>1
    <3> QED
      BY <1>0, <1>1, <3>2 DEF Send, TypeOK
  <2>2. \A j \in Keys : 1..Len(log[j]) \subseteq 1..Len(log'[j])
    BY <1>0, <2>1
  <2> QED
    BY <1>1, <2>2 DEF Send, ClaimedInLog
<1>2. ASSUME UNCHANGED <<log, claimed>> PROVE ClaimedInLog'
  BY <1>2 DEF ClaimedInLog
<1>3. ASSUME NEW r \in Readers, Store(r) PROVE ClaimedInLog'
  <2>1. Batch(r) \subseteq 1..Len(log[key[r]])
    BY <1>3, BatchInLog DEF Store
  <2>2. \A k \in Keys : claimed'[k] \subseteq claimed[k] \cup (IF k = key[r] THEN Batch(r) ELSE {})
    BY <1>0, <1>3 DEF Store, TypeOK
  <2> QED
    BY <1>3, <2>1, <2>2 DEF Store, ClaimedInLog
<1>4. ASSUME NEW c \in Consumers, Save(c) PROVE ClaimedInLog'
  <2>1. \A k \in Keys : Drained(c, k) \subseteq 1..Len(log[k])
    BY <1>4, DrainedInLog DEF Save
  <2>2. \A k \in Keys : claimed'[k] = claimed[k] \cup Drained(c, k)
    BY <1>4 DEF Save
  <2> QED
    BY <1>4, <2>1, <2>2 DEF Save, ClaimedInLog
<1>5. ASSUME NEW r \in Readers, ReadCall(r) PROVE ClaimedInLog'
  BY <1>2, <1>3, <1>5 DEF ReadCall, BeginRead, Peek, Acquire, LockFailed, Truncate, Stash,
     StashThrows, Reply, CallDies
<1>6. ASSUME NEW c \in Consumers, Consume(c) PROVE ClaimedInLog'
  BY <1>2, <1>4, <1>6 DEF Consume, Load, Drain, NothingToSave, Show, ConsumerDies
<1> QED
  BY <1>1, <1>2, <1>5, <1>6 DEF Next, BreakStaleLock, vars

LEMMA PushedStep == TypeOK /\ HandsPushed /\ [Next]_vars => HandsPushed'
<1> SUFFICES ASSUME TypeOK, HandsPushed, [Next]_vars PROVE HandsPushed'
  OBVIOUS
<1> USE DEF cursorVars, callVars, consumerVars, history
<1>1. ASSUME UNCHANGED <<consumerVars, pushed>> PROVE HandsPushed'
  BY <1>1 DEF HandsPushed, Drained
<1>2. ASSUME NEW c \in Consumers, Save(c) PROVE HandsPushed'
  <2>1. /\ UNCHANGED <<from, upto>>
        /\ \A k \in Keys : pushed[k] \subseteq pushed'[k]
        /\ c \in Pushers => \A k \in Keys : Drained(c, k) \subseteq pushed'[k]
    BY <1>2 DEF Save, TypeOK
  <2>2. \A d \in Consumers : d # c => hpc'[d] = hpc[d]
    BY <1>2 DEF Save, TypeOK
  <2> QED
    BY <2>1, <2>2 DEF HandsPushed, Drained, Consumers
<1>3. ASSUME NEW c \in Consumers, pushed' = pushed, hpc'[c] # "print",
             \A d \in Consumers \ {c} :
               hpc'[d] = hpc[d] /\ from'[d] = from[d] /\ upto'[d] = upto[d]
      PROVE  HandsPushed'
  BY <1>3 DEF HandsPushed, Drained, Consumers
<1>4. ASSUME NEW c \in Consumers, NEW w \in BOOLEAN, Load(c, w) PROVE HandsPushed'
  BY <1>3, <1>4 DEF Load, TypeOK
<1>5. ASSUME NEW c \in Consumers, NEW k \in Keys, Drain(c, k) PROVE HandsPushed'
  BY <1>3, <1>5 DEF Drain, TypeOK
<1>6. ASSUME NEW c \in Consumers, NothingToSave(c) \/ Show(c) \/ ConsumerDies(c)
      PROVE  HandsPushed'
  BY <1>3, <1>6 DEF NothingToSave, Show, ConsumerDies, ConsumerEnds, TypeOK
<1>7. ASSUME NEW c \in Consumers, Consume(c) PROVE HandsPushed'
  BY <1>2, <1>4, <1>5, <1>6, <1>7 DEF Consume
<1>8. ASSUME NEW r \in Readers, ReadCall(r) PROVE HandsPushed'
  BY <1>1, <1>8 DEF ReadCall, BeginRead, Peek, Acquire, LockFailed, Truncate, Store,
     Stash, StashThrows, Reply, CallDies
<1> QED
  BY <1>1, <1>7, <1>8 DEF Next, Send, BreakStaleLock, vars

\* A call leaves alone what another call or a consumer has in hand.
LEMMA OthersKeep ==
  ASSUME NEW r \in Readers, NEW q \in Readers \ {r}, NEW k, NEW i,
         pc'[q] = pc[q], key'[q] = key[q], limit'[q] = limit[q], cut'[q] = cut[q],
         seen'[q] = seen[q], base'[q] = base[q], CallHas(q, k, i)
  PROVE  CallHas(q, k, i)'
BY SameBatch DEF CallHas

LEMMA SameRuns ==
  ASSUME UNCHANGED consumerVars, NEW c \in Consumers, NEW k, NEW i, RunHas(c, k, i)
  PROVE  RunHas(c, k, i)'
BY DEF consumerVars, RunHas, Drained

\* Nor does a hook or a pusher touch what a call or another one has.
LEMMA SameCalls ==
  ASSUME UNCHANGED callVars, NEW r \in Readers, NEW k, NEW i, CallHas(r, k, i)
  PROVE  CallHas(r, k, i)'
BY SameBatch DEF callVars, CallHas

LEMMA OtherRuns ==
  ASSUME NEW d \in Consumers, NEW k \in Keys, NEW i, RunHas(d, k, i),
         hpc'[d] = hpc[d], from'[d] = from[d], upto'[d] = upto[d]
  PROVE  RunHas(d, k, i)'
BY DEF RunHas, Drained

\* A step of one call that takes nothing: only what that call had is at stake.
LEMMA CallStepKeeps ==
  ASSUME KeepInv, NEW r \in Readers,
         UNCHANGED <<log, claimed, consumerVars>>,
         \A q \in Readers \ {r} :
           /\ pc'[q] = pc[q] /\ key'[q] = key[q] /\ limit'[q] = limit[q]
           /\ cut'[q] = cut[q] /\ seen'[q] = seen[q] /\ base'[q] = base[q],
         \A k \in Rooms : SettledStays(k),
         \A k \in Rooms : \A i \in claimed[k] : CallHas(r, k, i) /\ Owed(k, i) =>
           CallHas(r, k, i)' \/ Settled(k, i)'
  PROVE  \A k \in Rooms : Kept(k)'
<1> TAKE k \in Rooms
<1>1. ASSUME NEW q \in Readers, NEW i \in claimed[k], CallHas(q, k, i), Owed(k, i)
      PROVE  CallHas(q, k, i)' \/ Settled(k, i)'
  <2>1. CASE q = r
    BY <1>1, <2>1
  <2>2. CASE q # r
    BY <1>1, <2>2, OthersKeep
  <2> QED
    BY <2>1, <2>2
<1>2. \A c \in Consumers : \A i \in claimed[k] : RunHas(c, k, i) => RunHas(c, k, i)'
  BY SameRuns
<1> QED
  BY <1>1, <1>2, StaysKept

\* The same of a step of one hook or pusher.
LEMMA RunStepKeeps ==
  ASSUME KeepInv, NEW c \in Consumers,
         UNCHANGED <<log, claimed, callVars>>,
         \A d \in Consumers \ {c} : hpc'[d] = hpc[d] /\ from'[d] = from[d] /\ upto'[d] = upto[d],
         \A k \in Rooms : SettledStays(k),
         \A k \in Rooms : \A i \in claimed[k] : RunHas(c, k, i) /\ Owed(k, i) =>
           RunHas(c, k, i)' \/ Settled(k, i)'
  PROVE  \A k \in Rooms : Kept(k)'
<1> TAKE k \in Rooms
<1>1. ASSUME NEW d \in Consumers, NEW i \in claimed[k], RunHas(d, k, i), Owed(k, i)
      PROVE  RunHas(d, k, i)' \/ Settled(k, i)'
  <2>1. CASE d = c
    BY <1>1, <2>1
  <2>2. CASE d # c
    BY <1>1, <2>2, OtherRuns DEF Keys
  <2> QED
    BY <2>1, <2>2
<1>2. \A q \in Readers : \A i \in claimed[k] : CallHas(q, k, i) => CallHas(q, k, i)'
  BY SameCalls
<1> QED
  BY <1>1, <1>2, StaysKept

LEMMA KeepStep == KeepInv /\ [Next]_vars => KeepInv'
<1> SUFFICES ASSUME KeepInv, [Next]_vars PROVE KeepInv'
  OBVIOUS
<1>0. TypeOK /\ LenInv' /\ ClaimedInLog' /\ HandsPushed'
  BY LenStep, ClaimedStep, PushedStep DEF KeepInv, LenInv
<1> SUFFICES \A k \in Rooms : Kept(k)'
  BY <1>0 DEF KeepInv, RoomsLossless
<1>k. Rooms \subseteq Keys
  BY DEF Keys
<1> USE <1>0, <1>k DEF cursorVars, callVars, consumerVars, history
<1>1. ASSUME NEW k \in Keys, NEW kind \in Traffic, Send(k, kind)
      PROVE  \A j \in Rooms : Kept(j)'
  <2> TAKE j \in Rooms
  <2>1. \A i \in claimed[j] : log'[j][i] = log[j][i]
    <3>1. \A i \in claimed[j] : i \in 1..Len(log[j])
      BY DEF KeepInv, ClaimedInLog
    <3>2. kind \in Kinds /\ log[k] \in Seq(Kinds)
      BY TrafficAssumption DEF TypeOK
    <3>3. \A i \in 1..Len(log[k]) : Append(log[k], kind)[i] = log[k][i]
      BY <3>2
    <3> QED
      BY <1>1, <3>1, <3>3 DEF Send, TypeOK
  <2>2. UNCHANGED callVars /\ UNCHANGED consumerVars /\ claimed' = claimed
    BY <1>1 DEF Send
  <2>3. SettledStays(j)
    BY <1>1, <2>1 DEF Send, SettledStays, Settled
  <2> QED
    BY <2>1, <2>2, <2>3, SameCalls, SameRuns, StaysKept
<1>2. ASSUME NEW r \in Readers, NEW k \in Keys, NEW l \in Limits, NEW n \in SinceCuts,
             NEW peek \in BOOLEAN, BeginRead(r, k, l, n, peek)
      PROVE  \A j \in Rooms : Kept(j)'
  <2>1. \A j \in Rooms : SettledStays(j)
    BY <1>2 DEF BeginRead, SettledStays, Settled
  <2>2. \A j, i : ~CallHas(r, j, i)
    BY <1>2 DEF BeginRead, CallHas
  <2>3. \A q \in Readers \ {r} :
          /\ pc'[q] = pc[q] /\ key'[q] = key[q] /\ limit'[q] = limit[q]
          /\ cut'[q] = cut[q] /\ seen'[q] = seen[q] /\ base'[q] = base[q]
    BY <1>2 DEF BeginRead, TypeOK
  <2>4. UNCHANGED <<log, claimed, consumerVars>>
    BY <1>2 DEF BeginRead
  <2> QED
    BY <2>1, <2>2, <2>3, <2>4, CallStepKeeps
<1>3. ASSUME NEW r \in Readers, CallEnds(r), UNCHANGED <<log, claimed, consumerVars>>,
             \A k \in Rooms : SettledStays(k),
             \A k \in Rooms : \A i \in claimed[k] :
               CallHas(r, k, i) /\ Owed(k, i) => Settled(k, i)'
      PROVE  \A j \in Rooms : Kept(j)'
  <2>1. \A q \in Readers \ {r} :
          /\ pc'[q] = pc[q] /\ key'[q] = key[q] /\ limit'[q] = limit[q]
          /\ cut'[q] = cut[q] /\ seen'[q] = seen[q] /\ base'[q] = base[q]
    BY <1>3 DEF CallEnds, TypeOK
  <2> QED
    BY <1>3, <2>1, CallStepKeeps
<1>4. ASSUME NEW r \in Readers, Peek(r) \/ LockFailed(r) PROVE \A j \in Rooms : Kept(j)'
  <2>1. \A j, i : ~CallHas(r, j, i)
    BY <1>4 DEF Peek, LockFailed, CallHas
  <2>2. \A j \in Rooms : SettledStays(j)
    BY <1>4 DEF Peek, LockFailed, SettledStays, Settled
  <2> QED
    BY <1>3, <1>4, <2>1, <2>2 DEF Peek, LockFailed
<1>5. ASSUME NEW r \in Readers, Acquire(r) \/ Truncate(r) PROVE \A j \in Rooms : Kept(j)'
  <2>1. \A j, i : ~CallHas(r, j, i)
    BY <1>5 DEF Acquire, Truncate, CallHas
  <2>2. \A j \in Rooms : SettledStays(j)
    BY <1>5 DEF Acquire, Truncate, SettledStays, Settled
  <2>3. \A q \in Readers \ {r} :
          /\ pc'[q] = pc[q] /\ key'[q] = key[q] /\ limit'[q] = limit[q]
          /\ cut'[q] = cut[q] /\ seen'[q] = seen[q] /\ base'[q] = base[q]
    BY <1>5 DEF Acquire, Truncate, TypeOK
  <2>4. UNCHANGED <<log, claimed, consumerVars>>
    BY <1>5 DEF Acquire, Truncate
  <2> QED
    BY <2>1, <2>2, <2>3, <2>4, CallStepKeeps
<1>6. ASSUME NEW r \in Readers, Store(r) PROVE \A j \in Rooms : Kept(j)'
  <2>1. /\ pc[r] = "torn" /\ UNCHANGED consumerVars /\ log' = log
        /\ \A j \in Rooms : SettledStays(j)
    BY <1>6 DEF Store, SettledStays, Settled
  <2>2. \A q \in Readers :
          /\ key'[q] = key[q] /\ limit'[q] = limit[q]
          /\ cut'[q] = cut[q] /\ seen'[q] = seen[q] /\ base'[q] = base[q]
          /\ (q # r => pc'[q] = pc[q])
    BY <1>6 DEF Store, TypeOK
  <2> TAKE j \in Rooms
  <2>3. \A q \in Readers : \A i : CallHas(q, j, i) => CallHas(q, j, i)'
    <3>1. ASSUME NEW q \in Readers, NEW i, CallHas(q, j, i) PROVE CallHas(q, j, i)'
      <4>1. q # r
        BY <2>1, <3>1 DEF CallHas
      <4> QED
        BY <2>2, <3>1, <4>1, OthersKeep
    <3> QED
      BY <3>1
  <2>4. ASSUME NEW i \in claimed[j], Owed(j, i)
        PROVE  Settled(j, i)' \/ InHand(j, i)'
    <3>1. Settled(j, i) \/ InHand(j, i)
      BY <2>4 DEF KeepInv, RoomsLossless, Kept
    <3>2. CASE Settled(j, i)
      BY <2>1, <3>2 DEF SettledStays
    <3>3. ASSUME NEW q \in Readers, CallHas(q, j, i) PROVE InHand(j, i)'
      BY <2>3, <3>3 DEF CallHas, InHand
    <3>4. ASSUME NEW c \in Consumers, RunHas(c, j, i) PROVE InHand(j, i)'
      BY <2>1, <3>4, SameRuns DEF RunHas, InHand
    <3> QED
      BY <3>1, <3>2, <3>3, <3>4 DEF InHand, CallHas, RunHas
  <2>5. ASSUME key[r] = j, NEW i \in Batch(r) PROVE InHand(j, i)'
    <3>1. Recent(r)' = Recent(r) /\ Overflow(r)' = Overflow(r)
      BY <2>2, SameBatch
    <3>2. i \in Recent(r) \/ i \in Overflow(r)
      BY <2>5, RoomBatch
    <3>3. pc'[r] = IF Overflow(r) = {} THEN "reply" ELSE "stash"
      BY <1>6 DEF Store, TypeOK
    <3>4. CallHas(r, j, i)'
      BY <2>2, <2>5, <3>1, <3>2, <3>3 DEF CallHas
    <3> QED
      BY <3>4 DEF CallHas, InHand
  <2>6. claimed'[j] \subseteq claimed[j] \cup (IF key[r] = j THEN Batch(r) ELSE {})
    BY <1>6 DEF Store, TypeOK
  <2> QED
    BY <2>1, <2>4, <2>5, <2>6 DEF Kept, Owed
<1>7. ASSUME NEW r \in Readers, Stash(r) PROVE \A j \in Rooms : Kept(j)'
  <2>1. /\ pc[r] = "stash" /\ UNCHANGED <<log, claimed, consumerVars>>
        /\ pc'[r] = "reply"
        /\ key[r] \in Keys /\ stashed'[key[r]] = stashed[key[r]] \cup Overflow(r)
    BY <1>7 DEF Stash, TypeOK
  <2>2. \A q \in Readers :
          /\ key'[q] = key[q] /\ limit'[q] = limit[q]
          /\ cut'[q] = cut[q] /\ seen'[q] = seen[q] /\ base'[q] = base[q]
          /\ (q # r => pc'[q] = pc[q])
    BY <1>7 DEF Stash, TypeOK
  <2>3. \A k \in Rooms : SettledStays(k)
    BY <1>7 DEF Stash, SettledStays, Settled, TypeOK
  <2>4. ASSUME NEW k \in Rooms, NEW i \in claimed[k], CallHas(r, k, i)
        PROVE  CallHas(r, k, i)' \/ Settled(k, i)'
    <3>1. Recent(r)' = Recent(r) /\ key'[r] = k
      BY <2>2, <2>4, SameBatch DEF CallHas
    <3>2. i \in Recent(r) \/ i \in Overflow(r)
      BY <2>4 DEF CallHas
    <3> QED
      BY <2>1, <2>4, <3>1, <3>2 DEF CallHas, Settled
  <2> QED
    BY <2>1, <2>2, <2>3, <2>4, CallStepKeeps
<1>8. ASSUME NEW r \in Readers, Reply(r) PROVE \A j \in Rooms : Kept(j)'
  <2>1. pc[r] = "reply" /\ CallEnds(r) /\ UNCHANGED <<log, claimed, consumerVars>>
    BY <1>8 DEF Reply
  <2>2. \A k \in Rooms : SettledStays(k)
    BY <1>8 DEF Reply, SettledStays, Settled, TypeOK
  <2>3. ASSUME NEW k \in Rooms, NEW i \in claimed[k], CallHas(r, k, i), Owed(k, i)
        PROVE  Settled(k, i)'
    <3>1. key[r] = k /\ i \in Recent(r)
      BY <2>1, <2>3 DEF CallHas
    <3>2. VisibleToCall(k, i)
      BY <2>3 DEF VisibleToCall, Owed
    <3>3. shown'[k] = shown[k] \cup {n \in Recent(r) : VisibleToCall(k, n)}
      BY <1>8, <3>1 DEF Reply, TypeOK
    <3> QED
      BY <3>1, <3>2, <3>3 DEF Settled
  <2> QED
    BY <1>3, <2>1, <2>2, <2>3
<1>9. ASSUME NEW r \in Readers, CallEnds(r),
             UNCHANGED <<log, claimed, shown, stashed, pushed, consumerVars>>,
             IF pc[r] \in {"stash", "reply"} THEN Lose(r) ELSE UNCHANGED dropped
      PROVE  \A j \in Rooms : Kept(j)'
  <2>1. /\ \A k \in Keys : dropped[k] \subseteq dropped'[k]
        /\ pc[r] \in {"stash", "reply"} => Batch(r) \subseteq dropped'[key[r]]
    <3>1. CASE pc[r] \in {"stash", "reply"}
      <4>1. key[r] \in Keys /\ dropped \in [Keys -> SUBSET Nat]
        BY DEF TypeOK
      <4>2. dropped' = [dropped EXCEPT ![key[r]] = @ \cup Batch(r)]
        BY <1>9, <3>1 DEF Lose
      <4> QED
        BY <4>1, <4>2
    <3>2. CASE pc[r] \notin {"stash", "reply"}
      BY <1>9, <3>2
    <3> QED
      BY <3>1, <3>2
  <2>2. \A k \in Rooms : SettledStays(k)
    BY <1>9, <2>1 DEF SettledStays, Settled
  <2>3. ASSUME NEW k \in Rooms, NEW i \in claimed[k], CallHas(r, k, i)
        PROVE  Settled(k, i)'
    <3>1. key[r] = k /\ pc[r] \in {"stash", "reply"} /\ i \in Recent(r) \cup Overflow(r)
      BY <2>3 DEF CallHas
    <3>2. i \in Batch(r)
      BY <3>1, RoomBatch
    <3> QED
      BY <2>1, <3>1, <3>2 DEF Settled
  <2> QED
    BY <1>3, <1>9, <2>2, <2>3
<1>9a. ASSUME NEW r \in Readers, StashThrows(r) \/ CallDies(r) PROVE \A j \in Rooms : Kept(j)'
  BY <1>9, <1>9a DEF StashThrows, CallDies
<1>10. ASSUME UNCHANGED <<log, claimed, shown, stashed, pushed, dropped, callVars, consumerVars>>
       PROVE  \A j \in Rooms : Kept(j)'
  <2> TAKE j \in Rooms
  <2> QED
    BY <1>10, SameCalls, SameRuns, StaysKept DEF SettledStays, Settled
<1>11. ASSUME NEW c \in Consumers,
              \E w \in BOOLEAN : Load(c, w) \/ \E k \in Keys : Drain(c, k)
       PROVE  \A j \in Rooms : Kept(j)'
  <2>1. \A j, i : ~RunHas(c, j, i)
    BY <1>11 DEF Load, Drain, RunHas
  <2>2. \A j \in Rooms : SettledStays(j)
    BY <1>11 DEF Load, Drain, SettledStays, Settled
  <2>3. \A d \in Consumers \ {c} : hpc'[d] = hpc[d] /\ from'[d] = from[d] /\ upto'[d] = upto[d]
    BY <1>11 DEF Load, Drain, TypeOK
  <2>4. UNCHANGED <<log, claimed, callVars>>
    BY <1>11 DEF Load, Drain
  <2> QED
    BY <2>1, <2>2, <2>3, <2>4, RunStepKeeps
<1>12. ASSUME NEW c \in Consumers, Save(c) PROVE \A j \in Rooms : Kept(j)'
  <2>1. /\ hpc[c] = "drain" /\ hpc'[c] = "print" /\ UNCHANGED <<log, callVars, from, upto>>
        /\ \A j \in Rooms : SettledStays(j)
        /\ \A j \in Rooms : claimed'[j] = claimed[j] \cup Drained(c, j)
    BY <1>12 DEF Save, SettledStays, Settled, TypeOK
  <2>2. \A d \in Consumers : d # c => hpc'[d] = hpc[d]
    BY <1>12 DEF Save, TypeOK
  <2> TAKE j \in Rooms
  <2>3. ASSUME NEW i \in claimed[j], Owed(j, i)
        PROVE  Settled(j, i)' \/ InHand(j, i)'
    <3>1. Settled(j, i) \/ InHand(j, i)
      BY <2>3 DEF KeepInv, RoomsLossless, Kept
    <3>2. CASE Settled(j, i)
      BY <2>1, <3>2 DEF SettledStays
    <3>3. ASSUME NEW q \in Readers, CallHas(q, j, i) PROVE InHand(j, i)'
      BY <2>1, <3>3, SameCalls DEF CallHas, InHand
    <3>4. ASSUME NEW d \in Consumers, RunHas(d, j, i) PROVE InHand(j, i)'
      <4>1. d # c
        BY <2>1, <3>4 DEF RunHas
      <4> QED
        BY <2>1, <2>2, <3>4, <4>1 DEF RunHas, InHand, Drained
    <3> QED
      BY <3>1, <3>2, <3>3, <3>4 DEF InHand, CallHas, RunHas
  <2>4. ASSUME NEW i \in Drained(c, j) PROVE InHand(j, i)'
    BY <2>1 DEF InHand, Drained
  <2> QED
    BY <2>1, <2>3, <2>4 DEF Kept, Owed
<1>13. ASSUME NEW c \in Consumers, ConsumerEnds(c), UNCHANGED <<log, claimed, callVars>>,
              \A k \in Rooms : SettledStays(k),
              \A k \in Rooms : \A i \in claimed[k] :
                RunHas(c, k, i) /\ Owed(k, i) => Settled(k, i)'
       PROVE  \A j \in Rooms : Kept(j)'
  <2>1. \A d \in Consumers \ {c} : hpc'[d] = hpc[d] /\ from'[d] = from[d] /\ upto'[d] = upto[d]
    BY <1>13 DEF ConsumerEnds, TypeOK
  <2> QED
    BY <1>13, <2>1, RunStepKeeps
<1>14. ASSUME NEW c \in Consumers, NothingToSave(c) PROVE \A j \in Rooms : Kept(j)'
  <2>1. \A j, i : ~RunHas(c, j, i)
    BY <1>14 DEF NothingToSave, RunHas
  <2>2. \A j \in Rooms : SettledStays(j)
    BY <1>14 DEF NothingToSave, SettledStays, Settled
  <2> QED
    BY <1>13, <1>14, <2>1, <2>2 DEF NothingToSave
<1>14a. ASSUME NEW c \in Consumers, ConsumerDies(c) PROVE \A j \in Rooms : Kept(j)'
  <2>1. /\ \A k \in Keys : dropped[k] \subseteq dropped'[k]
        /\ hpc[c] = "print" => \A k \in Keys : Drained(c, k) \subseteq dropped'[k]
    BY <1>14a DEF ConsumerDies, TypeOK
  <2>2. \A j \in Rooms : SettledStays(j)
    BY <1>14a, <2>1 DEF ConsumerDies, SettledStays, Settled
  <2>3. \A j \in Rooms : \A i \in claimed[j] : RunHas(c, j, i) => Settled(j, i)'
    BY <2>1 DEF RunHas, Settled
  <2> QED
    BY <1>13, <1>14a, <2>2, <2>3 DEF ConsumerDies
<1>15. ASSUME NEW c \in Consumers, Show(c) PROVE \A j \in Rooms : Kept(j)'
  <2>1. \A k \in Rooms : SettledStays(k)
    BY <1>15 DEF Show, SettledStays, Settled
  <2>2. ASSUME NEW k \in Rooms, NEW i \in claimed[k], RunHas(c, k, i), Owed(k, i)
        PROVE  Settled(k, i)'
    <3>1. CASE VisibleToConsumer(c, k, i)
      BY <1>15, <2>2, <3>1 DEF Show, RunHas, Settled
    <3>2. CASE ~VisibleToConsumer(c, k, i)
      <4>1. c \in Pushers /\ log[k][i] = "barred"
        BY <2>2, <3>2 DEF VisibleToConsumer, Owed
      <4>2. i \in pushed[k]
        BY <2>2, <4>1 DEF KeepInv, HandsPushed, RunHas
      <4> QED
        BY <1>15, <4>1, <4>2 DEF Show, Settled
    <3> QED
      BY <3>1, <3>2
  <2> QED
    BY <1>13, <1>15, <2>1, <2>2 DEF Show
<1>16. ASSUME NEW r \in Readers, ReadCall(r) PROVE \A j \in Rooms : Kept(j)'
  BY <1>2, <1>4, <1>5, <1>6, <1>7, <1>8, <1>9a, <1>16 DEF ReadCall
<1>17. ASSUME NEW c \in Consumers, Consume(c) PROVE \A j \in Rooms : Kept(j)'
  BY <1>11, <1>12, <1>14, <1>14a, <1>15, <1>17 DEF Consume
<1> QED
  BY <1>1, <1>10, <1>16, <1>17 DEF Next, BreakStaleLock, vars

\* A room read moves the cursor past messages it does not show, before it has
\* stashed them, and hooks and pushers move it past what they have yet to
\* print; whoever interleaves with whom, each room message taken is shown, in a
\* digest, barred by a pusher or still in hand, unless it was itself in the hands
\* of a call whose stash threw or of a process that died.
THEOREM RoomsLosslessAlways == Spec => []RoomsLossless
<1>1. KeepInv => RoomsLossless
  BY DEF KeepInv
<1> QED
  BY <1>1, KeepInit, KeepStep, PTL DEF Spec

-----------------------------------------------------------------------------
(* Locked calls implement Delivery.                                        *)

RefInv == OnceInv /\ LenInv

LEMMA RefStep ==
  ASSUME Consumers = {}, SinceCuts = {0}
  PROVE  RefInv /\ [Next]_vars => [Promise!Next]_(Promise!vars)
<1> SUFFICES ASSUME RefInv, [Next]_vars PROVE [Promise!Next]_(Promise!vars)
  OBVIOUS
<1>w. wiped => wiped'
  BY DEF Next, ReadCall, vars, history, Send, BeginRead, Peek, Acquire, LockFailed,
         Truncate, Store, Stash, StashThrows, Reply, CallDies, BreakStaleLock
<1>l. CASE wiped
  BY <1>w, <1>l DEF Promise!Next
<1> SUFFICES ASSUME ~wiped PROVE [Promise!Next]_(Promise!vars)
  BY <1>l
<1>0. TypeOK
  BY DEF RefInv, LenInv
<1> USE <1>0 DEF cursorVars, callVars, consumerVars, history
<1>1. ASSUME NEW k \in Keys, NEW kind \in Traffic, Send(k, kind)
      PROVE  Promise!Send(k)
  <2>1. Len(log'[k]) = Len(log[k]) + 1
    BY <1>1, TrafficAssumption DEF Send, TypeOK
  <2>2. [j \in Keys |-> Len(log'[j])] =
        [[j \in Keys |-> Len(log[j])] EXCEPT ![k] = @ + 1]
    BY <1>1, <2>1 DEF Send, TypeOK
  <2> QED
    BY <1>1, <2>2 DEF Send, Promise!Send
<1>2. ASSUME UNCHANGED <<log, claimed, again, wiped>>
      PROVE  UNCHANGED Promise!vars
  BY <1>2 DEF Promise!vars
<1>3. ASSUME NEW r \in Readers, Store(r)
      PROVE  Promise!Next \/ UNCHANGED Promise!vars
  <2>1. pc[r] = "torn" /\ torn /\ Busy(r)
    BY <1>3 DEF Store, RefInv, OnceInv, Busy
  <2> PICK k \in Keys : k = key[r]
    BY BatchFact
  <2> DEFINE m == file[k]
             n == Advanced(r)[k]
  <2>2. m \in Nat /\ n \in Nat /\ m <= n /\ n <= Len(log[k]) /\ Len(log[k]) \in Nat
    <3>1. m <= n
      BY <2>1, BatchIsNext DEF RefInv
    <3>2. n <= Len(log[k])
      BY <2>1, AdvancedInLog DEF RefInv
    <3>3. m \in Nat
      BY DEF TypeOK, Offsets
    <3>4. n \in Nat
      BY BatchFact DEF Offsets
    <3> QED
      BY <3>1, <3>2, <3>3, <3>4, LengthType
  <2>3. claimed[k] = 1..m /\ again[k] = {}
    BY DEF RefInv, OnceInv, ExactlyOnce
  <2>4. claimed' = [claimed EXCEPT ![k] = 1..n]
    BY <1>3, <2>1, BatchIsNext DEF Store, RefInv
  <2>5. again' = again
    <3>1. claimed[k] \cap Batch(r) = {}
      BY <2>1, BatchIsNext DEF RefInv
    <3> QED
      BY <1>3, <2>3, <3>1 DEF Store, TypeOK
  <2>6. UNCHANGED <<[j \in Keys |-> Len(log[j])], wiped>>
    BY <1>3 DEF Store
  <2> HIDE DEF m, n
  <2>7. CASE m = n
    BY <2>3, <2>4, <2>5, <2>6, <2>7 DEF Promise!vars, TypeOK
  <2>8. CASE m < n
    <3>1. m \in 0..Len(log[k]) /\ n \in (m + 1)..Len(log[k])
      BY <2>2, <2>8
    <3>2. Promise!Deliver(k)
      BY <2>3, <2>4, <2>5, <2>6, <3>1 DEF Promise!Deliver
    <3> QED
      BY <3>2 DEF Promise!Next
  <2> QED
    BY <2>2, <2>7, <2>8
<1>7. ASSUME NEW r \in Readers, CallDies(r)
      PROVE  Promise!Next \/ UNCHANGED Promise!vars
  <2>1. UNCHANGED <<log, claimed, again>>
    BY <1>7 DEF CallDies
  <2>2. CASE wiped'
    BY <2>1, <2>2 DEF Promise!Next, Promise!Lose
  <2>3. CASE ~wiped'
    <3>1. wiped' = wiped
      BY <1>7, <2>3 DEF CallDies, TypeOK
    <3> QED
      BY <2>1, <3>1 DEF Promise!vars
  <2> QED
    BY <2>2, <2>3
<1>4. ASSUME NEW r \in Readers, ReadCall(r)
      PROVE  Promise!Next \/ UNCHANGED Promise!vars
  BY <1>2, <1>3, <1>4, <1>7 DEF ReadCall, BeginRead, Peek, Acquire, LockFailed,
     Truncate, Stash, StashThrows, Reply
<1>5. CASE BreakStaleLock
  BY <1>2, <1>5 DEF BreakStaleLock
<1>6. CASE UNCHANGED vars
  BY <1>2, <1>6 DEF vars
<1> QED
  BY <1>1, <1>4, <1>5, <1>6 DEF Next, Promise!Next

\* read_messages implements the promise of Delivery: every step of every
\* concurrent call is a delivery of the next messages or invisible, until a
\* call dies with the cursor file truncated.
THEOREM ReadsImplementDelivery ==
  ASSUME Consumers = {}, SinceCuts = {0}
  PROVE  Spec => RefinesDelivery
<1>1. Init => Promise!Init
  <2>1. Init => [k \in Keys |-> Len(log[k])] = [k \in Keys |-> 0]
    BY DEF Init
  <2> QED
    BY <2>1 DEF Init, Promise!Init
<1>2. (Init => RefInv) /\ (RefInv /\ [Next]_vars => RefInv')
  BY OnceInit, LenInit, OnceStep, LenStep DEF RefInv
<1>3. RefInv /\ [Next]_vars => [Promise!Next]_(Promise!vars)
  BY RefStep
<1> QED
  BY <1>1, <1>2, <1>3, PTL DEF Spec, RefinesDelivery, Promise!Spec

-----------------------------------------------------------------------------
(* Channels                                                                *)

\* What the lines that parse number, and how a write changes it.
LEMMA WholeFact ==
  ASSUME NEW content \in Seq(Lines)
  PROVE  Whole(content) \in Nat /\ Whole(content) <= Len(content)
<1> DEFINE W == {i \in DOMAIN content : content[i] = Message}
<1>1. Len(content) \in Nat /\ DOMAIN content = 1..Len(content)
  OBVIOUS
<1>2. IsFiniteSet(1..Len(content)) /\ Cardinality(1..Len(content)) = Len(content)
  BY <1>1, FS_Interval
<1>3. W \subseteq 1..Len(content)
  BY <1>1
<1>4. IsFiniteSet(W) /\ Cardinality(W) <= Len(content)
  BY <1>2, <1>3, FS_Subset
<1> QED
  BY <1>4, FS_CardinalityType DEF Whole

LEMMA WholeGrows ==
  ASSUME NEW old \in Seq(Lines), NEW next \in Seq(Lines),
         \A i \in DOMAIN old : old[i] = Message => i \in DOMAIN next /\ next[i] = Message
  PROVE  Whole(old) <= Whole(next)
<1> DEFINE V == {i \in DOMAIN old : old[i] = Message}
           W == {i \in DOMAIN next : next[i] = Message}
<1>1. V \subseteq W
  OBVIOUS
<1>2. W \subseteq 1..Len(next) /\ IsFiniteSet(1..Len(next))
  BY FS_Interval
<1>3. IsFiniteSet(W)
  BY <1>2, FS_Subset
<1> QED
  BY <1>1, <1>3, FS_Subset DEF Whole

LEMMA AppendedFact ==
  ASSUME NEW content \in Seq(Lines), NEW m \in {Message, Fragment}
  PROVE  /\ Appended(content, m) \in Seq(Lines)
         /\ Whole(content) <= Whole(Appended(content, m))
<1>1. CASE content # <<>> /\ content[Len(content)] = Fragment
  <2>1. Appended(content, m) = [content EXCEPT ![Len(content)] = Junk]
    BY <1>1 DEF Appended
  <2>2. [content EXCEPT ![Len(content)] = Junk] \in Seq(Lines)
    <3>1. Len(content) \in 1..Len(content)
      BY <1>1, EmptySeq
    <3>2. Junk \in Lines
      BY DEF Lines
    <3> QED
      BY <3>1, <3>2, ExceptSeq
  <2>3. \A i \in DOMAIN content : content[i] = Message =>
          /\ i \in DOMAIN [content EXCEPT ![Len(content)] = Junk]
          /\ [content EXCEPT ![Len(content)] = Junk][i] = Message
    BY <1>1 DEF Message, Fragment
  <2> QED
    BY <2>1, <2>2, <2>3, WholeGrows
<1>2. CASE ~(content # <<>> /\ content[Len(content)] = Fragment)
  <2>1. Appended(content, m) = Append(content, m)
    BY <1>2 DEF Appended
  <2>2. Append(content, m) \in Seq(Lines)
    BY DEF Lines
  <2>3. \A i \in DOMAIN content : content[i] = Message =>
          i \in DOMAIN Append(content, m) /\ Append(content, m)[i] = Message
    OBVIOUS
  <2> QED
    BY <2>1, <2>2, <2>3, WholeGrows
<1> QED
  BY <1>1, <1>2

LEMMA MessagesFact ==
  ASSUME NEW content \in Seq(Lines)
  PROVE  /\ Messages(content) \in Seq(Lines)
         /\ Whole(Messages(content)) = Whole(content)
         /\ Len(Messages(content)) = Whole(content)
<1> DEFINE n == Whole(content)
<1>1. n \in Nat
  BY WholeFact
<1> HIDE DEF n
<1>2. Messages(content) = [i \in 1..n |-> Message]
  BY DEF Messages, n
<1>3. /\ [i \in 1..n |-> Message] \in Seq(Lines)
      /\ Len([i \in 1..n |-> Message]) = n
  BY <1>1 DEF Lines
<1>4. {i \in DOMAIN [j \in 1..n |-> Message] : [j \in 1..n |-> Message][i] = Message} = 1..n
  BY <1>1
<1>5. Cardinality(1..n) = n
  BY <1>1, FS_Interval
<1>6. Whole([i \in 1..n |-> Message]) = n
  BY <1>4, <1>5 DEF Whole
<1> QED
  BY <1>2, <1>3, <1>6 DEF n

LEMMA EmptyFact == <<>> \in Seq(Lines) /\ Whole(<<>>) = 0 /\ Len(<<>>) = 0
<1>1. {i \in DOMAIN <<>> : <<>>[i] = Message} = {}
  OBVIOUS
<1> QED
  BY <1>1, FS_EmptySet DEF Whole

LEMMA ParsedFact ==
  ASSUME ChannelsTypeOK, NEW f \in Files
  PROVE  /\ Parsed(f) \in Nat /\ Malformed(f) \in Nat
         /\ lines[f] = <<>> => Parsed(f) = 0 /\ Malformed(f) = 0
<1>1. lines[f] \in Seq(Lines)
  BY DEF ChannelsTypeOK
<1> QED
  BY <1>1, WholeFact, EmptyFact DEF Parsed, Malformed

LEMMA ParsedAfter ==
  ASSUME ChannelsTypeOK', NEW f \in Files
  PROVE  Parsed(f)' \in Nat /\ Malformed(f)' \in Nat
<1>1. lines'[f] \in Seq(Lines)
  BY DEF ChannelsTypeOK
<1> QED
  BY <1>1, WholeFact DEF Parsed, Malformed

\* The type invariant.
LEMMA ChannelsTypeInit == ChannelsInit => ChannelsTypeOK
<1> SUFFICES ASSUME ChannelsInit PROVE ChannelsTypeOK
  OBVIOUS
<1>1. PICK n \in Backlogs, read \in {{}, Agents} :
        /\ lines = [f \in Files |-> IF f = Channel THEN [i \in 1..n |-> Message] ELSE <<>>]
        /\ present = [f \in Files |-> f = Channel]
        /\ cursor = [a \in Agents |-> [f \in Files |->
                        IF f = Channel /\ a \in read /\ n > 0 THEN n ELSE None]]
        /\ kept = read
  BY DEF ChannelsInit
<1>2. n \in Nat
  BY ChannelBoundAssumption
<1>3. [i \in 1..n |-> Message] \in Seq(Lines) /\ <<>> \in Seq(Lines)
  BY <1>2 DEF Lines
<1>4. lines \in [Files -> Seq(Lines)] /\ present \in [Files -> BOOLEAN]
  BY <1>1, <1>3
<1>5. cursor \in [Agents -> [Files -> {None} \cup Nat]] /\ kept \subseteq Agents
  BY <1>1, <1>2
<1>6. /\ registered \subseteq Agents /\ writing \in {None} \cup SUBSET Agents
      /\ entry \in BOOLEAN /\ members \subseteq Agents
  BY DEF ChannelsInit
<1>7. /\ call \in [Calls -> {Idle} \cup UnderWay]
      /\ del \in [at : {"idle", "entry", "file", "cursors"}, todo : SUBSET Agents]
  BY DEF ChannelsInit, NoDelete
<1>8. doc \in [at : {"idle", "rooms", "members", "inboxes", "cursors", "offsets", "lines",
                     "done"},
               known : SUBSET Agents, there : BOOLEAN, seats : SUBSET Agents,
               todo : SUBSET Files, counts : [Files -> {None} \cup Counts],
               who : {None} \cup Agents]
  BY DEF ChannelsInit, NoDoctor, Unscanned
<1>9. made \in Nat /\ moves \in Nat /\ deletes \in Nat /\ doctors \in Nat
  BY DEF ChannelsInit
<1>10. /\ seated \subseteq Agents /\ overtaken \subseteq Calls
       /\ purged \cup late \cup raced \subseteq Agents
  BY <1>6 DEF ChannelsInit
<1>11. misread \in BOOLEAN /\ calm \in BOOLEAN
  BY DEF ChannelsInit
<1> QED
  BY <1>4, <1>5, <1>6, <1>7, <1>8, <1>9, <1>10, <1>11 DEF ChannelsTypeOK

LEMMA NoneFact == None \notin Nat /\ None \notin Agents /\ None \notin Counts
BY NamesAssumption DEF Counts

LEMMA IdleFact == Idle.at = "" /\ Idle.at \notin Files
BY NamesAssumption DEF Idle

LEMMA UnderWayFact ==
  ASSUME ChannelsTypeOK, NEW c \in Calls, call[c].at # ""
  PROVE  call[c] \in UnderWay /\ call[c] # Idle
<1>1. call[c] # Idle
  BY IdleFact
<1> QED
  BY <1>1 DEF ChannelsTypeOK

\* The type invariant by parts, for the actions that leave most of it alone.
DiskType ==
  /\ registered \subseteq Agents /\ writing \in {None} \cup SUBSET Agents
  /\ entry \in BOOLEAN /\ members \subseteq Agents
  /\ present \in [Files -> BOOLEAN] /\ lines \in [Files -> Seq(Lines)]
  /\ cursor \in [Agents -> [Files -> {None} \cup Nat]] /\ kept \subseteq Agents
HistoryType ==
  /\ made \in Nat /\ moves \in Nat /\ deletes \in Nat /\ doctors \in Nat
  /\ seated \subseteq Agents /\ overtaken \subseteq Calls
  /\ purged \cup late \cup raced \subseteq Agents
  /\ misread \in BOOLEAN

LEMMA TypeFrame ==
  ASSUME ChannelsTypeOK, calm' \in BOOLEAN,
         DiskType' \/ UNCHANGED diskVars,
         call' \in [Calls -> {Idle} \cup UnderWay],
         HistoryType' \/ UNCHANGED <<counters, ghosts>>,
         UNCHANGED <<del, doc>>
  PROVE  ChannelsTypeOK'
<1>1. DiskType'
  BY DEF DiskType, ChannelsTypeOK, diskVars
<1>2. HistoryType'
  BY DEF HistoryType, ChannelsTypeOK, counters, ghosts
<1> QED
  BY <1>1, <1>2 DEF DiskType, HistoryType, ChannelsTypeOK

\* Every action, with the types of the state before it.
LEMMA ChannelsTypeMoves ==
  ASSUME ChannelsTypeOK, Registration \/ (\E a \in Agents : LeaveRoom(a)), calm' = FALSE
  PROVE  ChannelsTypeOK'
<1> USE DEF ChannelsTypeOK, ghosts, diskVars, counters
<1>1. ASSUME NEW a \in Agents, Register(a) PROVE ChannelsTypeOK'
  <2>1. writing' \in {None} \cup SUBSET Agents /\ moves' \in Nat
    BY <1>1 DEF Register
  <2> QED
    BY <1>1, <2>1 DEF Register
<1>2. ASSUME NEW a \in Agents, Evict(a) PROVE ChannelsTypeOK'
  <2>1. writing' \in {None} \cup SUBSET Agents /\ moves' \in Nat
    BY <1>2 DEF Evict
  <2> QED
    BY <1>2, <2>1 DEF Evict
<1>3. CASE StoreRegistry
  BY <1>3 DEF StoreRegistry
<1>4. ASSUME NEW a \in Agents, LeaveRoom(a) PROVE ChannelsTypeOK'
  <2>1. /\ members' \subseteq Agents /\ seated' \subseteq Agents /\ overtaken' \subseteq Calls
        /\ moves' \in Nat
    BY <1>4 DEF LeaveRoom
  <2>2. DiskType' /\ HistoryType'
    BY <1>4, <2>1 DEF LeaveRoom, DiskType, HistoryType
  <2>3. UNCHANGED <<call, del, doc>>
    BY <1>4 DEF LeaveRoom
  <2> QED
    BY <2>2, <2>3, TypeFrame
<1> QED
  BY <1>1, <1>2, <1>3, <1>4 DEF Registration

LEMMA ChannelsTypeTool ==
  ASSUME ChannelsTypeOK, NEW c \in Calls, Tool(c), calm' = FALSE
  PROVE  ChannelsTypeOK'
<1> USE DEF ChannelsTypeOK, ghosts, diskVars, counters
<1>1. ASSUME NEW op \in {"join", "topic", "send", "mail", "read"}, NEW a \in Agents,
             Begin(c, op, a)
      PROVE  ChannelsTypeOK'
  <2>1. call' \in [Calls -> {Idle} \cup UnderWay]
    BY <1>1 DEF Begin, UnderWay, Stages
  <2>2. made' \in Nat /\ seated' \subseteq Agents /\ overtaken' \subseteq Calls
    BY <1>1 DEF Begin
  <2>3. HistoryType' /\ UNCHANGED <<diskVars, del, doc>>
    BY <1>1, <2>2 DEF Begin, HistoryType
  <2> QED
    BY <2>1, <2>3, TypeFrame
<1>2. CASE EnsureRoom(c)
  <2>1. call[c] \in UnderWay
    BY <1>2, UnderWayFact DEF EnsureRoom
  <2>2. call' \in [Calls -> {Idle} \cup UnderWay]
    BY <1>2, <2>1 DEF EnsureRoom, UnderWay, Stages
  <2> QED
    BY <1>2, <2>2 DEF EnsureRoom
<1>3. CASE AddMember(c)
  <2>1. call[c] \in UnderWay
    BY <1>3, UnderWayFact DEF AddMember
  <2>2. call' \in [Calls -> {Idle} \cup UnderWay]
    BY <1>3, <2>1 DEF AddMember, UnderWay, Stages
  <2>3. call[c].who \in Agents
    BY <2>1 DEF UnderWay
  <2>4. DiskType' /\ UNCHANGED <<del, doc, counters, ghosts>>
    BY <1>3, <2>3 DEF AddMember, DiskType
  <2> QED
    BY <2>2, <2>4, TypeFrame
<1>4. CASE SetRoomMeta(c)
  <2>1. call[c] \in UnderWay
    BY <1>4, UnderWayFact DEF SetRoomMeta
  <2>2. call' \in [Calls -> {Idle} \cup UnderWay]
    BY <1>4, <2>1 DEF SetRoomMeta, UnderWay, Stages
  <2>3. DiskType' /\ UNCHANGED <<del, doc, counters, ghosts>>
    BY <1>4 DEF SetRoomMeta, DiskType
  <2> QED
    BY <2>2, <2>3, TypeFrame
<1>5. CASE Post(c) \/ PostSpoilt(c)
  <2>1. call[c] \in UnderWay
    BY <1>5, UnderWayFact DEF Post, PostSpoilt
  <2>2. lines' \in [Files -> Seq(Lines)]
    <3>1. \E g \in Files, m \in {Message, Fragment} : lines' = [lines EXCEPT ![g] = Appended(@, m)]
      BY <1>5, <2>1 DEF Post, PostSpoilt, UnderWay, Files
    <3>2. \A f \in Files, m \in {Message, Fragment} : Appended(lines[f], m) \in Seq(Lines)
      BY AppendedFact
    <3> QED
      BY <3>1, <3>2
  <2> QED
    BY <1>5, <2>1, <2>2 DEF Post, PostSpoilt, UnderWay
<1>6. ASSUME NEW f \in Files, Look(c, f) PROVE ChannelsTypeOK'
  <2>1. call[c] \in UnderWay
    BY <1>6, UnderWayFact DEF Look
  <2>2. Parsed(f) \in Nat
    BY ParsedFact
  <2>3. call' \in [Calls -> {Idle} \cup UnderWay]
    BY <1>6, <2>1, <2>2 DEF Look, UnderWay
  <2>4. UNCHANGED <<diskVars, del, doc, counters, ghosts>>
    BY <1>6 DEF Look
  <2> QED
    BY <2>3, <2>4, TypeFrame
<1>7. CASE Take(c)
  <2>1. call[c] \in UnderWay
    BY <1>7, UnderWayFact, NamesAssumption DEF Take
  <2>2. call' \in [Calls -> {Idle} \cup UnderWay]
    BY <1>7 DEF Take
  <2>3. cursor' \in [Agents -> [Files -> {None} \cup Nat]] /\ kept' \subseteq Agents
    BY <1>7, <2>1 DEF Take, UnderWay
  <2>4. DiskType' /\ UNCHANGED <<del, doc, counters, ghosts>>
    BY <1>7, <2>3 DEF Take, DiskType
  <2> QED
    BY <2>2, <2>4, TypeFrame
<1> QED
  BY <1>1, <1>2, <1>3, <1>4, <1>5, <1>6, <1>7 DEF Tool

LEMMA ReadingFact ==
  ASSUME ChannelsTypeOK, NEW f \in Files
  PROVE  Reading(f) \subseteq Agents
<1> SUFFICES ASSUME NEW c \in Calls, call[c].at = f PROVE call[c].who \in Agents
  BY DEF Reading
<1>1. call[c] \in UnderWay
  BY UnderWayFact, NamesAssumption
<1> QED
  BY <1>1 DEF UnderWay

LEMMA ChannelsTypeDelete ==
  ASSUME ChannelsTypeOK, DeleteRoom, calm' = FALSE
  PROVE  ChannelsTypeOK'
<1> USE DEF ChannelsTypeOK, ghosts, diskVars, counters
<1>1. ASSUME NEW force \in BOOLEAN, DeleteCheck(force) PROVE ChannelsTypeOK'
  <2>1. deletes' \in Nat
    BY <1>1 DEF DeleteCheck
  <2> QED
    BY <1>1, <2>1 DEF DeleteCheck
<1>2. CASE DeleteEntry
  BY <1>2 DEF DeleteEntry
<1>3. CASE DeleteLog
  <2>1. lines' \in [Files -> Seq(Lines)]
    BY <1>3, EmptyFact DEF DeleteLog
  <2>2. Reading(Channel) \subseteq Agents
    BY ReadingFact DEF Files
  <2> QED
    BY <1>3, <2>1, <2>2 DEF DeleteLog
<1>4. CASE DeleteEnds
  BY <1>4 DEF DeleteEnds, NoDelete
<1>5. ASSUME NEW a \in Agents, DropOffset(a) PROVE ChannelsTypeOK'
  BY <1>5 DEF DropOffset, Files
<1> QED
  BY <1>1, <1>2, <1>3, <1>4, <1>5 DEF DeleteRoom

LEMMA ScannedFact ==
  ASSUME ChannelsTypeOK, NEW fs \in SUBSET Files
  PROVE  Scanned(fs) \in [Files -> {None} \cup Counts]
BY ParsedFact DEF Scanned, Counts, ChannelsTypeOK

LEMMA ChannelsTypeDoctor ==
  ASSUME ChannelsTypeOK, Doctor \/ DoctorReadAgents, calm' \in BOOLEAN
  PROVE  ChannelsTypeOK'
<1> USE DEF ChannelsTypeOK, ghosts, diskVars, counters
<1>1. CASE DoctorReadAgents
  <2>1. doctors' \in Nat /\ misread' \in BOOLEAN /\ KnownNow \subseteq Agents
    BY <1>1 DEF DoctorReadAgents, KnownNow
  <2> QED
    BY <1>1, <2>1 DEF DoctorReadAgents
<1>2. CASE DoctorReadRooms
  BY <1>2 DEF DoctorReadRooms
<1>3. CASE DoctorMembers
  <2>1. InboxFiles \subseteq Files
    BY DEF InboxFiles, Files
  <2> QED
    BY <1>3, <2>1 DEF DoctorMembers, Work
<1>4. ASSUME NEW a \in Agents, DoctorInbox(a) PROVE ChannelsTypeOK'
  <2>1. a \in Files
    BY DEF Files
  <2>2. Reading(a) \subseteq Agents
    BY <2>1, ReadingFact
  <2>3. /\ lines' \in {lines, [lines EXCEPT ![a] = <<>>]}
        /\ present' \in {present, [present EXCEPT ![a] = FALSE]}
    BY <1>4 DEF DoctorInbox
  <2>4. lines' \in [Files -> Seq(Lines)]
    <3>1. [lines EXCEPT ![a] = <<>>] \in [Files -> Seq(Lines)]
      BY EmptyFact
    <3> QED
      BY <2>3, <3>1
  <2>5. present' \in [Files -> BOOLEAN]
    BY <2>3
  <2>6. raced' \subseteq Agents /\ purged' \subseteq Agents
    BY <1>4, <2>2 DEF DoctorInbox
  <2> QED
    BY <1>4, <2>4, <2>5, <2>6 DEF DoctorInbox
<1>5. ASSUME NEW a \in Agents, DoctorCursor(a) PROVE ChannelsTypeOK'
  <2>1. /\ cursor' \in {cursor, [cursor EXCEPT ![a] = [f \in Files |-> None]]}
        /\ kept' \subseteq kept
    BY <1>5 DEF DoctorCursor
  <2>2. [f \in Files |-> None] \in [Files -> {None} \cup Nat]
    OBVIOUS
  <2>3. cursor' \in [Agents -> [Files -> {None} \cup Nat]]
    BY <2>1, <2>2
  <2> QED
    BY <1>5, <2>1, <2>3 DEF DoctorCursor
<1>6. ASSUME NEW a \in Agents, DoctorOffset(a) PROVE ChannelsTypeOK'
  <2> DEFINE fs == {a} \cup {f \in Own(a) : cursor[a][f] # None}
  <2>1. fs \in SUBSET Files
    BY DEF Own, Files
  <2>2. Scanned(fs) \in [Files -> {None} \cup Counts]
    BY <2>1, ScannedFact
  <2>3. /\ doc'.counts = Scanned(fs) /\ doc'.todo = doc.todo \ {a}
        /\ doc'.who \in {None} \cup Agents
        /\ doc' = [doc EXCEPT !.todo = doc'.todo, !.counts = doc'.counts, !.who = doc'.who]
    BY <1>6 DEF DoctorOffset
  <2> QED
    BY <1>6, <2>2, <2>3 DEF DoctorOffset
<1>7. CASE DoctorGoes
  <2>1. InboxFiles \cup {Channel} \subseteq Files /\ kept \subseteq Files
    BY DEF InboxFiles, Files
  <2>2. ASSUME NEW to \in {"cursors", "offsets", "lines"}
        PROVE  Work([doc EXCEPT !.at = to]) \in
                 [at : {"idle", "rooms", "members", "inboxes", "cursors", "offsets", "lines",
                        "done"},
                  known : SUBSET Agents, there : BOOLEAN, seats : SUBSET Agents,
                  todo : SUBSET Files, counts : [Files -> {None} \cup Counts],
                  who : {None} \cup Agents]
    <3>1. CASE to = "cursors"
      <4>1. Work([doc EXCEPT !.at = to]) = [doc EXCEPT !.at = to, !.todo = kept]
        BY <3>1 DEF Work
      <4> QED
        BY <2>1, <4>1
    <3>2. CASE to = "offsets"
      <4>1. Work([doc EXCEPT !.at = to]) = [doc EXCEPT !.at = to, !.todo = kept, !.known = {}]
        BY <3>2 DEF Work
      <4> QED
        BY <2>1, <4>1
    <3>3. CASE to = "lines"
      <4> DEFINE files == InboxFiles \cup (IF doc.there THEN {Channel} ELSE {})
      <4>1. Work([doc EXCEPT !.at = to]) = [doc EXCEPT !.at = to, !.todo = files]
        BY <3>3 DEF Work
      <4>2. files \in SUBSET Files
        BY <2>1
      <4> HIDE DEF files
      <4> QED
        BY <4>1, <4>2
    <3> QED
      BY <3>1, <3>2, <3>3
  <2> QED
    BY <1>7, <2>2 DEF DoctorGoes, Goes
<1>8. CASE DoctorClamp
  <2>1. doc.who \in Agents
    BY <1>8 DEF DoctorClamp
  <2>2. Clamped(doc.who) \in [Files -> {None} \cup Nat]
    BY <2>1 DEF Clamped, Counts
  <2> QED
    BY <1>8, <2>1, <2>2 DEF DoctorClamp
<1>9. ASSUME NEW f \in Files, DoctorRewrite(f) PROVE ChannelsTypeOK'
  <2>1. Scanned({f}) \in [Files -> {None} \cup Counts]
    BY ScannedFact
  <2>2. lines' \in [Files -> Seq(Lines)]
    BY <1>9, MessagesFact DEF DoctorRewrite
  <2> QED
    BY <1>9, <2>1, <2>2 DEF DoctorRewrite
<1>10. CASE DoctorRegister
  BY <1>10 DEF DoctorRegister
<1>11. CASE DoctorEnds
  BY <1>11 DEF DoctorEnds, NoDoctor, Unscanned
<1>12. ASSUME NEW f \in Files, DoctorFails(f) PROVE ChannelsTypeOK'
  BY <1>12 DEF DoctorFails, NoDoctor, Unscanned
<1> QED
  BY <1>1, <1>2, <1>3, <1>4, <1>5, <1>6, <1>7, <1>8, <1>9, <1>10, <1>11, <1>12 DEF Doctor

LEMMA ChannelsTypeNext ==
  ChannelsTypeOK /\ [ChannelsNext]_channelVars => ChannelsTypeOK'
<1> SUFFICES ASSUME ChannelsTypeOK, [ChannelsNext]_channelVars PROVE ChannelsTypeOK'
  OBVIOUS
<1>1. CASE ChannelsNext
  <2>1. calm' \in BOOLEAN
    BY <1>1 DEF ChannelsNext, ChannelsTypeOK, Quiet
  <2> QED
    BY <1>1, <2>1, ChannelsTypeMoves, ChannelsTypeTool, ChannelsTypeDelete,
       ChannelsTypeDoctor DEF ChannelsNext
<1>2. CASE UNCHANGED channelVars
  BY <1>2 DEF channelVars, diskVars, counters, ghosts, ChannelsTypeOK
<1> QED
  BY <1>1, <1>2

\* What the doctor spares.  It goes by the registry it read at its start
\* (Recalled), and a call that has seated its agent and has yet to reply
\* (Joining) is as good as one that has replied.
Staged == \A c \in Calls : call[c].at = "meta" => call[c].op = "topic"
Joining ==
  \A c \in Calls : call[c].at = "post" /\ call[c].op = "join" /\ c \notin overtaken
                     => call[c].who \in members \cup late
Recalled ==
  doc.at \in {"rooms", "members", "inboxes"} => registered \ late \subseteq doc.known
Sparing ==
  ~misread => /\ Joining /\ Recalled
              /\ seated \subseteq members \cup late
              /\ purged \subseteq late
SpareInv == ChannelsTypeOK /\ Staged /\ Sparing

LEMMA SpareInit == ChannelsInit => SpareInv
<1> SUFFICES ASSUME ChannelsInit PROVE Staged /\ Sparing
  BY ChannelsTypeInit DEF SpareInv
<1>1. \A c \in Calls : call[c].at = ""
  BY DEF ChannelsInit, Idle
<1>2. doc.at = "idle" /\ seated = members /\ purged = {}
  BY DEF ChannelsInit, NoDoctor
<1> QED
  BY <1>1, <1>2 DEF Staged, Sparing, Joining, Recalled

LEMMA SpareMoves ==
  ASSUME SpareInv, Registration \/ (\E a \in Agents : LeaveRoom(a))
  PROVE  Staged' /\ Sparing'
<1> USE DEF SpareInv, Staged, Sparing, Joining, Recalled, ghosts
<1>1. ASSUME NEW a \in Agents, Register(a) \/ Evict(a) PROVE Staged' /\ Sparing'
  BY <1>1 DEF Register, Evict
<1>2. CASE StoreRegistry
  BY <1>2 DEF StoreRegistry
<1>3. ASSUME NEW a \in Agents, LeaveRoom(a) PROVE Staged' /\ Sparing'
  BY <1>3 DEF LeaveRoom
<1> QED
  BY <1>1, <1>2, <1>3 DEF Registration

LEMMA SpareTool ==
  ASSUME SpareInv, NEW c \in Calls, Tool(c)
  PROVE  Staged' /\ Sparing'
<1> USE DEF SpareInv, Sparing, Joining, Recalled, ghosts, diskVars, counters
<1>0. call \in [Calls -> {Idle} \cup UnderWay]
  BY DEF ChannelsTypeOK
<1>1. ASSUME NEW op \in {"join", "topic", "send", "mail", "read"}, NEW a \in Agents,
             Begin(c, op, a)
      PROVE  Staged' /\ Sparing'
  <2>1. /\ \A d \in Calls \ {c} : call'[d] = call[d] /\ (d \in overtaken' <=> d \in overtaken)
        /\ call'[c].op = op /\ call'[c].at # "meta"
        /\ call'[c].at = "post" => op = "mail"
    BY <1>0, <1>1 DEF Begin
  <2>2. Staged'
    BY <2>1 DEF Staged
  <2>3. /\ seated' \subseteq seated
        /\ UNCHANGED <<members, late, purged, misread, registered, doc>>
    BY <1>1 DEF Begin
  <2> QED
    BY <2>1, <2>2, <2>3
<1>2. CASE EnsureRoom(c)
  <2>1. call[c] \in UnderWay
    BY <1>2, UnderWayFact DEF EnsureRoom
  <2>2. /\ \A d \in Calls \ {c} : call'[d] = call[d]
        /\ call'[c].op = call[c].op /\ call'[c].who = call[c].who
        /\ call'[c].at = "meta" => call[c].op = "topic"
        /\ call'[c].at = "post" => call[c].op # "join"
    BY <1>0, <1>2, <2>1 DEF EnsureRoom, UnderWay
  <2>3. UNCHANGED <<seated, overtaken, members, late, purged, misread, registered, doc>>
    BY <1>2 DEF EnsureRoom
  <2> QED
    BY <2>2, <2>3 DEF Staged
<1>3. CASE AddMember(c)
  <2>1. call[c] \in UnderWay
    BY <1>3, UnderWayFact DEF AddMember
  <2>2. /\ \A d \in Calls \ {c} : call'[d] = call[d]
        /\ call'[c].op = call[c].op /\ call'[c].who = call[c].who
        /\ call'[c].at = "post" /\ members' = members \cup {call[c].who}
    BY <1>0, <1>3, <2>1 DEF AddMember, UnderWay
  <2>3. UNCHANGED <<seated, overtaken, late, purged, misread, registered, doc>>
    BY <1>3 DEF AddMember
  <2> QED
    BY <2>2, <2>3 DEF Staged
<1>4. CASE SetRoomMeta(c)
  <2>1. call[c] \in UnderWay
    BY <1>4, UnderWayFact DEF SetRoomMeta
  <2>2. /\ \A d \in Calls \ {c} : call'[d] = call[d]
        /\ call[c].op = "topic"
        /\ call'[c].op = call[c].op /\ call'[c].at = "post"
    BY <1>0, <1>4, <2>1 DEF SetRoomMeta, UnderWay, Staged
  <2>3. UNCHANGED <<seated, overtaken, members, late, purged, misread, registered, doc>>
    BY <1>4 DEF SetRoomMeta
  <2> QED
    BY <2>2, <2>3 DEF Staged
<1>5. CASE Post(c) \/ PostSpoilt(c)
  <2>1. /\ \A d \in Calls \ {c} : call'[d] = call[d]
        /\ call'[c].at = ""
    BY <1>0, <1>5, IdleFact DEF Post, PostSpoilt
  <2>2. UNCHANGED <<overtaken, members, late, purged, misread, registered, doc>>
    BY <1>5 DEF Post, PostSpoilt
  <2>3. \/ seated' = seated
        \/ /\ call[c].at = "post" /\ call[c].op = "join" /\ c \notin overtaken
           /\ seated' = seated \cup {call[c].who}
    BY <1>5 DEF Post, PostSpoilt
  <2> QED
    BY <2>1, <2>2, <2>3 DEF Staged
<1>6. ASSUME NEW f \in Files, Look(c, f) PROVE Staged' /\ Sparing'
  <2>1. /\ \A d \in Calls \ {c} : call'[d] = call[d]
        /\ call'[c].at = f
    BY <1>0, <1>6, UnderWayFact DEF Look, UnderWay
  <2>2. f # "meta" /\ f # "post"
    BY NamesAssumption DEF Stages
  <2>3. UNCHANGED <<seated, overtaken, members, late, purged, misread, registered, doc>>
    BY <1>6 DEF Look
  <2> QED
    BY <2>1, <2>2, <2>3 DEF Staged
<1>7. CASE Take(c)
  <2>1. /\ \A d \in Calls \ {c} : call'[d] = call[d]
        /\ call'[c].at = ""
    BY <1>0, <1>7, IdleFact DEF Take
  <2>2. UNCHANGED <<seated, overtaken, members, late, purged, misread, registered, doc>>
    BY <1>7 DEF Take
  <2> QED
    BY <2>1, <2>2 DEF Staged
<1> QED
  BY <1>1, <1>2, <1>3, <1>4, <1>5, <1>6, <1>7 DEF Tool

LEMMA SpareDelete ==
  ASSUME SpareInv, DeleteRoom
  PROVE  Staged' /\ Sparing'
<1>1. CASE DeleteEntry
  <2>1. UNCHANGED <<call, late, purged, misread, registered, doc>> /\ seated' = {}
    BY <1>1 DEF DeleteEntry
  <2>2. \A c \in Calls : call[c].at = "post" => c \in overtaken'
    BY <1>1, UnderWayFact DEF DeleteEntry, SpareInv
  <2> QED
    BY <2>1, <2>2 DEF SpareInv, Staged, Sparing, Joining, Recalled
<1>2. CASE ~DeleteEntry
  <2>1. UNCHANGED <<call, seated, overtaken, members, late, purged, misread, registered, doc>>
    BY <1>2 DEF DeleteRoom, DeleteCheck, DeleteLog, DeleteEnds, DropOffset, ghosts, diskVars
  <2> QED
    BY <2>1 DEF SpareInv, Staged, Sparing, Joining, Recalled
<1> QED
  BY <1>1, <1>2

LEMMA SpareDoctor ==
  ASSUME SpareInv, Doctor \/ DoctorReadAgents
  PROVE  Staged' /\ Sparing'
<1> USE DEF SpareInv, Staged, Sparing, Joining, Recalled, ghosts, diskVars, counters
<1>0. /\ doc.known \subseteq Agents
      /\ doc = [at |-> doc.at, known |-> doc.known, there |-> doc.there, seats |-> doc.seats,
                todo |-> doc.todo, counts |-> doc.counts, who |-> doc.who]
  BY DEF ChannelsTypeOK
<1>1. CASE DoctorReadAgents
  <2>1. UNCHANGED <<call, seated, overtaken, members, late, purged, registered>>
    BY <1>1 DEF DoctorReadAgents
  <2>2. ~misread' => ~misread /\ doc'.known = registered
    BY <1>0, <1>1 DEF DoctorReadAgents, KnownNow
  <2> QED
    BY <2>1, <2>2
<1>2. CASE DoctorMembers
  <2>1. UNCHANGED <<call, late, purged, misread, registered>>
    BY <1>2 DEF DoctorMembers
  <2>2. doc.at = "members" /\ doc'.at = "inboxes" /\ doc'.known = doc.known
    BY <1>0, <1>2 DEF DoctorMembers, Work
  <2>3. \/ members' = members /\ seated' = seated
        \/ members' = members \cap doc.known /\ seated' = seated \cap registered
    BY <1>2 DEF DoctorMembers
  <2>4. overtaken \subseteq overtaken'
    BY <1>2 DEF DoctorMembers
  <2>5. \A c \in Calls : call[c].at = "post" /\ c \notin overtaken'
                           => call[c].who \in registered
    BY <1>2, UnderWayFact DEF DoctorMembers
  <2> QED
    BY <2>1, <2>2, <2>3, <2>4, <2>5
<1>3. ASSUME NEW a \in Agents, DoctorInbox(a) PROVE Staged' /\ Sparing'
  <2>1. UNCHANGED <<call, seated, overtaken, members, late, misread, registered>>
    BY <1>3 DEF DoctorInbox
  <2>2. doc.at = "inboxes" /\ doc'.known = doc.known
    BY <1>0, <1>3 DEF DoctorInbox
  <2>3. purged' = purged \/ (purged' = purged \cup {a} /\ a \in registered /\ a \notin doc.known)
    BY <1>3 DEF DoctorInbox
  <2> QED
    BY <2>1, <2>2, <2>3
<1>4. CASE /\ ~DoctorReadAgents /\ ~DoctorMembers
           /\ ~\E a \in Agents : DoctorInbox(a)
  <2>1. UNCHANGED <<call, seated, overtaken, members, late, purged, misread, registered>>
    BY <1>4 DEF Doctor, DoctorReadRooms, DoctorCursor, DoctorOffset, DoctorGoes, DoctorClamp,
       DoctorRewrite, DoctorFails, DoctorRegister, DoctorEnds
  <2>2. \/ doc'.at \notin {"rooms", "members", "inboxes"}
        \/ doc.at = "rooms" /\ doc'.known = doc.known
    <3>1. CASE DoctorReadRooms
      BY <1>0, <3>1 DEF DoctorReadRooms
    <3>2. ASSUME NEW a \in Agents, DoctorCursor(a) \/ DoctorOffset(a)
          PROVE  doc'.at \notin {"rooms", "members", "inboxes"}
      <4>1. doc.at \in {"cursors", "offsets"} /\ doc'.at = doc.at
        BY <1>0, <3>2 DEF DoctorCursor, DoctorOffset
      <4> QED
        BY <4>1
    <3>3. CASE DoctorGoes
      BY <1>0, <3>3 DEF DoctorGoes, Goes, Work
    <3>4. ASSUME DoctorClamp \/ \E f \in Files : DoctorRewrite(f)
          PROVE  doc'.at \notin {"rooms", "members", "inboxes"}
      <4>1. doc.at \in {"lines", "offsets"} /\ doc'.at = doc.at
        BY <1>0, <3>4 DEF DoctorClamp, DoctorRewrite
      <4> QED
        BY <4>1
    <3>5. CASE DoctorRegister \/ DoctorEnds \/ \E f \in Files : DoctorFails(f)
      BY <1>0, <3>5 DEF DoctorRegister, DoctorEnds, DoctorFails, NoDoctor
    <3> QED
      BY <1>4, <3>1, <3>2, <3>3, <3>4, <3>5 DEF Doctor
  <2> QED
    BY <2>1, <2>2
<1> QED
  BY <1>1, <1>2, <1>3, <1>4

LEMMA SpareNext == SpareInv /\ [ChannelsNext]_channelVars => SpareInv'
<1> SUFFICES ASSUME SpareInv, [ChannelsNext]_channelVars PROVE Staged' /\ Sparing'
  BY ChannelsTypeNext DEF SpareInv
<1>1. CASE ChannelsNext
  BY <1>1, SpareMoves, SpareTool, SpareDelete, SpareDoctor DEF ChannelsNext
<1>2. CASE UNCHANGED channelVars
  BY <1>2 DEF channelVars, diskVars, counters, ghosts, SpareInv, Staged, Sparing, Joining,
     Recalled
<1> QED
  BY <1>1, <1>2

\* The type invariant of Channels.
THEOREM ChannelsTypeAlways == ChannelsSpec => []ChannelsTypeOK
BY ChannelsTypeInit, ChannelsTypeNext, PTL DEF ChannelsSpec

\* The doctor evicts nobody who was told that it joined, and purges no inbox
\* with unread mail of a registered agent, but in the recorded ways.
THEOREM SparedAlways == ChannelsSpec => []Spared
<1>1. SpareInv => Spared
  BY DEF SpareInv, Sparing, Spared
<1> QED
  BY <1>1, SpareInit, SpareNext, PTL DEF ChannelsSpec

\* How far the offsets reach.  What a read has counted the log still has,
\* unless the log was deleted under it (Counted); an offset past its log's end
\* is one that delete_room or the doctor is about to drop (Reaching).
Owned ==
  \A a \in Agents, f \in Files : cursor[a][f] # None => a \in kept /\ f \in Own(a)
Counted ==
  \A c \in Calls : call[c].at \in Files =>
    /\ call[c].at \in Own(call[c].who)
    /\ call[c].who \in raced \/ call[c].saw <= Parsed(call[c].at)
Orphaned(a) ==
  a \notin doc.known /\ (doc.at = "inboxes" \/ (doc.at = "cursors" /\ a \in doc.todo))
Reaching ==
  \A a \in Agents \ raced :
    /\ Offset(a, Channel) <= Parsed(Channel) \/ (del.at = "cursors" /\ a \in del.todo)
    /\ Offset(a, a) <= Parsed(a) \/ Orphaned(a)
ReachInv == ChannelsTypeOK /\ Owned /\ Counted /\ Reaching

LEMMA FilesFact == Channel \in Files /\ \A a \in Agents : a \in Files /\ a # Channel
BY ChannelAssumption DEF Files

LEMMA OffsetFact ==
  ASSUME ChannelsTypeOK, NEW a \in Agents, NEW f \in Files
  PROVE  /\ Offset(a, f) \in Nat
         /\ cursor[a][f] = None => Offset(a, f) = 0
         /\ cursor[a][f] # None => Offset(a, f) = cursor[a][f]
BY DEF ChannelsTypeOK, Offset

LEMMA OffsetAfter ==
  ASSUME ChannelsTypeOK', NEW a \in Agents, NEW f \in Files
  PROVE  Offset(a, f)' \in Nat
BY DEF ChannelsTypeOK, Offset

LEMMA ReachInit == ChannelsInit => ReachInv
<1> SUFFICES ASSUME ChannelsInit, ChannelsTypeOK PROVE Owned /\ Counted /\ Reaching
  BY ChannelsTypeInit DEF ReachInv
<1>1. PICK n \in Backlogs, read \in {{}, Agents} :
        /\ lines = [f \in Files |-> IF f = Channel THEN [i \in 1..n |-> Message] ELSE <<>>]
        /\ cursor = [a \in Agents |-> [f \in Files |->
                        IF f = Channel /\ a \in read /\ n > 0 THEN n ELSE None]]
        /\ kept = read
  BY DEF ChannelsInit
<1>2. n \in Nat
  BY ChannelBoundAssumption
<1>3. Owned
  BY <1>1 DEF Owned, Own
<1>4. Counted
  BY NamesAssumption DEF ChannelsInit, Counted, Idle
<1>5. Parsed(Channel) = n
  <2>1. lines[Channel] = [i \in 1..n |-> Message]
    BY <1>1, FilesFact
  <2>2. {i \in DOMAIN [j \in 1..n |-> Message] : [j \in 1..n |-> Message][i] = Message} = 1..n
    BY <1>2
  <2>3. Cardinality(1..n) = n
    BY <1>2, FS_Interval
  <2> QED
    BY <2>1, <2>2, <2>3 DEF Parsed, Whole
<1>6. ASSUME NEW a \in Agents
      PROVE  Offset(a, Channel) <= Parsed(Channel) /\ Offset(a, a) <= Parsed(a)
  <2>1. cursor[a][a] = None /\ cursor[a][Channel] \in {n, None}
    BY <1>1, FilesFact
  <2> QED
    BY <1>2, <1>5, <2>1, OffsetFact, ParsedFact, FilesFact
<1> QED
  BY <1>3, <1>4, <1>6 DEF Reaching

\* What was within reach stays there while no log shrinks and no offset grows.
LEMMA ReachKept ==
  ASSUME ReachInv, ChannelsTypeOK', UNCHANGED raced,
         \A f \in Files : Parsed(f) <= Parsed(f)',
         \A a \in Agents, f \in Files : Offset(a, f)' <= Offset(a, f),
         \A c \in Calls : call'[c].at \in Files =>
           \/ call'[c] = call[c]
           \/ call'[c].at \in Own(call'[c].who) /\ call'[c].saw = Parsed(call'[c].at),
         \A a \in Agents : del.at = "cursors" /\ a \in del.todo
                             => \/ del'.at = "cursors" /\ a \in del'.todo
                                \/ Offset(a, Channel) <= Parsed(Channel),
         \A a \in Agents : Orphaned(a) => Orphaned(a)' \/ Offset(a, a) <= Parsed(a)
  PROVE  Counted' /\ Reaching'
<1>2. \A a \in Agents, f \in Files : Offset(a, f)' \in Nat /\ Offset(a, f) \in Nat
  BY OffsetFact, OffsetAfter DEF ReachInv
<1>3. \A f \in Files : Parsed(f) \in Nat /\ Parsed(f)' \in Nat
  BY ParsedFact, ParsedAfter DEF ReachInv
<1>4. Counted'
  <2> SUFFICES ASSUME NEW c \in Calls, call'[c].at \in Files
               PROVE  /\ call'[c].at \in Own(call'[c].who)
                      /\ call'[c].who \in raced' \/ call'[c].saw <= Parsed(call[c].at)'
    BY DEF Counted, Own
  <2>1. PICK f \in Files : f = call'[c].at
    OBVIOUS
  <2>2. CASE call'[c] = call[c]
    <3>1. f \in Own(call[c].who) /\ (call[c].who \in raced \/ call[c].saw <= Parsed(f))
      BY <2>1, <2>2 DEF ReachInv, Counted
    <3>2. call[c].saw \in Nat
      <4>1. call[c].at # ""
        BY <2>1, <2>2, NamesAssumption
      <4> QED
        BY <4>1, UnderWayFact DEF UnderWay, ReachInv
    <3> QED
      BY <2>1, <2>2, <3>1, <3>2, <1>3
  <2>3. CASE call'[c].at \in Own(call'[c].who) /\ call'[c].saw = Parsed(call'[c].at)
    BY <2>1, <2>3, <1>3
  <2> QED
    BY <2>2, <2>3
<1>5. Reaching'
  <2> SUFFICES ASSUME NEW a \in Agents \ raced
               PROVE  /\ Offset(a, Channel)' <= Parsed(Channel)'
                           \/ (del'.at = "cursors" /\ a \in del'.todo)
                      /\ Offset(a, a)' <= Parsed(a)' \/ Orphaned(a)'
    BY DEF Reaching
  <2>1. /\ Offset(a, Channel) <= Parsed(Channel) \/ (del.at = "cursors" /\ a \in del.todo)
        /\ Offset(a, a) <= Parsed(a) \/ Orphaned(a)
    BY DEF ReachInv, Reaching
  <2> QED
    BY <1>2, <1>3, <2>1, FilesFact
<1> QED
  BY <1>4, <1>5

LEMMA CursorKept ==
  ASSUME ReachInv, UNCHANGED <<cursor, kept>>
  PROVE  /\ Owned'
         /\ \A a \in Agents, f \in Files : Offset(a, f)' <= Offset(a, f)
<1>1. Owned'
  BY DEF ReachInv, Owned, Own
<1>2. \A a \in Agents, f \in Files : Offset(a, f)' = Offset(a, f)
  BY DEF Offset
<1> QED
  BY <1>1, <1>2, OffsetFact DEF ReachInv

LEMMA ReachMoves ==
  ASSUME ReachInv, ChannelsTypeOK', Registration \/ (\E a \in Agents : LeaveRoom(a))
  PROVE  Owned' /\ Counted' /\ Reaching'
<1>1. UNCHANGED <<lines, cursor, kept, call, del, raced>>
  BY DEF Registration, Register, Evict, StoreRegistry, LeaveRoom, ghosts
<1>2. UNCHANGED doc
  BY DEF Registration, Register, Evict, StoreRegistry, LeaveRoom
<1>3. \A f \in Files : Parsed(f) <= Parsed(f)'
  BY <1>1, ParsedFact DEF Parsed, ReachInv
<1> QED
  BY <1>1, <1>2, <1>3, CursorKept, ReachKept DEF Orphaned

LEMMA ReachTake ==
  ASSUME ReachInv, ChannelsTypeOK', NEW c \in Calls, Take(c)
  PROVE  Owned' /\ Counted' /\ Reaching'
<1>1. PICK f \in Files : f = call[c].at
  BY DEF Take
<1>2. call[c] \in UnderWay
  BY <1>1, UnderWayFact, NamesAssumption DEF ReachInv
<1>3. PICK a \in Agents : a = call[c].who
  BY <1>2 DEF UnderWay
<1>4. call[c].saw \in Nat /\ f \in Own(a) /\ (a \in raced \/ call[c].saw <= Parsed(f))
  BY <1>1, <1>2, <1>3 DEF ReachInv, Counted, UnderWay
<1>5. /\ cursor' = cursor \/ cursor' = [cursor EXCEPT ![a][f] = call[c].saw]
      /\ kept' = kept \cup {a} /\ call' = [call EXCEPT ![c] = Idle]
      /\ UNCHANGED <<lines, del, doc, raced>>
  BY <1>1, <1>3 DEF Take, ghosts
<1>6. /\ cursor \in [Agents -> [Files -> {None} \cup Nat]]
      /\ call \in [Calls -> {Idle} \cup UnderWay]
  BY DEF ReachInv, ChannelsTypeOK
<1>7. \A b \in Agents, g \in Files :
        cursor'[b][g] = cursor[b][g] \/ (b = a /\ g = f /\ cursor'[b][g] = call[c].saw)
  BY <1>5, <1>6
<1>8. Owned'
  BY <1>4, <1>5, <1>7 DEF ReachInv, Owned, Own
<1>9. Counted'
  <2>1. \A d \in Calls : call'[d].at \in Files => d # c /\ call'[d] = call[d]
    BY <1>5, <1>6, IdleFact
  <2>2. \A g \in Files : Parsed(g)' = Parsed(g)
    BY <1>5 DEF Parsed
  <2> SUFFICES ASSUME NEW d \in Calls, call'[d].at \in Files
               PROVE  /\ call'[d].at \in Own(call'[d].who)
                      /\ call'[d].who \in raced' \/ call'[d].saw <= Parsed(call[d].at)'
    BY DEF Counted, Own
  <2>3. PICK g \in Files : g = call'[d].at
    OBVIOUS
  <2> QED
    BY <1>5, <2>1, <2>2, <2>3 DEF ReachInv, Counted
<1>10. Reaching'
  <2> SUFFICES ASSUME NEW b \in Agents \ raced
               PROVE  /\ Offset(b, Channel)' <= Parsed(Channel)'
                           \/ (del'.at = "cursors" /\ b \in del'.todo)
                      /\ Offset(b, b)' <= Parsed(b)' \/ Orphaned(b)'
    BY <1>5 DEF Reaching
  <2>1. \A g \in Files : Parsed(g)' = Parsed(g) /\ Parsed(g) \in Nat
    BY <1>5, ParsedFact DEF Parsed, ReachInv
  <2>2. ASSUME NEW g \in Files
        PROVE  Offset(b, g)' = Offset(b, g) \/ Offset(b, g)' <= Parsed(g)
    <3>1. CASE cursor'[b][g] = cursor[b][g]
      BY <3>1 DEF Offset
    <3>2. CASE b = a /\ g = f /\ cursor'[b][g] = call[c].saw
      <4>1. Offset(b, g)' = call[c].saw
        BY <1>4, <3>2, NoneFact DEF Offset
      <4>2. call[c].saw <= Parsed(g)
        BY <1>4, <3>2
      <4> QED
        BY <4>1, <4>2
    <3> QED
      BY <1>7, <3>1, <3>2
  <2>3. Orphaned(b)' <=> Orphaned(b)
    BY <1>5 DEF Orphaned
  <2> QED
    BY <1>5, <2>1, <2>2, <2>3, FilesFact DEF ReachInv, Reaching
<1> QED
  BY <1>8, <1>9, <1>10

LEMMA ReachTool ==
  ASSUME ReachInv, ChannelsTypeOK', NEW c \in Calls, Tool(c)
  PROVE  Owned' /\ Counted' /\ Reaching'
<1>1. CASE Take(c)
  BY <1>1, ReachTake
<1>2. CASE ~Take(c)
  <2>1. call \in [Calls -> {Idle} \cup UnderWay] /\ lines \in [Files -> Seq(Lines)]
    BY DEF ReachInv, ChannelsTypeOK
  <2>2. UNCHANGED <<cursor, kept, del, doc, raced>>
    BY <1>2 DEF Tool, Begin, EnsureRoom, AddMember, SetRoomMeta, Post, PostSpoilt, Look, ghosts,
       diskVars
  <2>3. \A f \in Files : Parsed(f) <= Parsed(f)'
    <3>1. CASE Post(c) \/ PostSpoilt(c)
      <4>1. \E g : \E m \in {Message, Fragment} :
              lines' = [lines EXCEPT ![g] = Appended(@, m)]
        BY <3>1 DEF Post, PostSpoilt
      <4> SUFFICES ASSUME NEW f \in Files PROVE Whole(lines[f]) <= Whole(lines'[f])
        BY DEF Parsed
      <4>2. lines'[f] = lines[f] \/ \E m \in {Message, Fragment} : lines'[f] = Appended(lines[f], m)
        BY <2>1, <4>1
      <4>3. lines[f] \in Seq(Lines)
        BY <2>1
      <4> QED
        BY <4>2, <4>3, AppendedFact, WholeFact
    <3>2. CASE ~(Post(c) \/ PostSpoilt(c))
      <4>1. UNCHANGED lines
        BY <1>2, <3>2 DEF Tool, Begin, EnsureRoom, AddMember, SetRoomMeta, Look, ghosts, diskVars
      <4> QED
        BY <4>1, ParsedFact DEF Parsed, ReachInv
    <3> QED
      BY <3>1, <3>2
  <2>4. ASSUME NEW d \in Calls, call'[d].at \in Files
        PROVE  \/ call'[d] = call[d]
               \/ call'[d].at \in Own(call'[d].who) /\ call'[d].saw = Parsed(call'[d].at)
    <3>1. ASSUME NEW op \in {"join", "topic", "send", "mail", "read"}, NEW a \in Agents,
                 Begin(c, op, a)
          PROVE  call'[d] = call[d]
      BY <2>1, <2>4, <3>1, NamesAssumption DEF Begin, Stages
    <3>2. CASE EnsureRoom(c)
      <4>1. call[c] \in UnderWay
        BY <3>2, UnderWayFact DEF EnsureRoom, ReachInv
      <4> QED
        BY <2>1, <2>4, <3>2, <4>1, NamesAssumption DEF EnsureRoom, Stages, UnderWay
    <3>3. CASE AddMember(c) \/ SetRoomMeta(c)
      <4>1. call[c] \in UnderWay
        BY <3>3, UnderWayFact DEF AddMember, SetRoomMeta, ReachInv
      <4>2. call' = [call EXCEPT ![c].at = "post"]
        BY <3>3 DEF AddMember, SetRoomMeta
      <4>3. call'[c].at = "post" /\ "post" \notin Files
        BY <2>1, <4>1, <4>2, NamesAssumption DEF UnderWay, Stages
      <4> QED
        BY <2>1, <2>4, <4>2, <4>3
    <3>4. CASE Post(c) \/ PostSpoilt(c)
      BY <2>1, <2>4, <3>4, IdleFact DEF Post, PostSpoilt
    <3>5. ASSUME NEW f \in Files, Look(c, f)
          PROVE  \/ call'[d] = call[d]
                 \/ call'[d].at \in Own(call'[d].who) /\ call'[d].saw = Parsed(call'[d].at)
      <4>1. call[c] \in UnderWay
        BY <3>5, UnderWayFact DEF Look, ReachInv
      <4>2. /\ d # c => call'[d] = call[d]
            /\ call'[c].at = f /\ call'[c].saw = Parsed(f) /\ f \in Own(call'[c].who)
        BY <2>1, <3>5, <4>1 DEF Look, UnderWay
      <4> QED
        BY <4>2
    <3> QED
      BY <1>2, <3>1, <3>2, <3>3, <3>4, <3>5 DEF Tool
  <2> QED
    BY <2>2, <2>3, <2>4, CursorKept, ReachKept DEF Orphaned
<1> QED
  BY <1>1, <1>2

LEMMA ReachDelete ==
  ASSUME ReachInv, ChannelsTypeOK', DeleteRoom
  PROVE  Owned' /\ Counted' /\ Reaching'
<1>0. /\ cursor \in [Agents -> [Files -> {None} \cup Nat]]
      /\ lines \in [Files -> Seq(Lines)]
      /\ del \in [at : {"idle", "entry", "file", "cursors"}, todo : SUBSET Agents]
  BY DEF ReachInv, ChannelsTypeOK
<1>1. CASE DeleteLog
  <2>1. /\ UNCHANGED <<cursor, kept, call, doc>>
        /\ lines' = [lines EXCEPT ![Channel] = <<>>]
        /\ raced' = raced \cup Reading(Channel)
        /\ del'.at = "cursors" /\ del'.todo = kept
    BY <1>1 DEF DeleteLog
  <2>2. /\ Parsed(Channel)' = 0
        /\ \A f \in Files : f # Channel => Parsed(f)' = Parsed(f)
    BY <1>0, <2>1, EmptyFact, FilesFact DEF Parsed
  <2>3. Owned'
    BY <2>1, CursorKept
  <2>4. Counted'
    <3> SUFFICES ASSUME NEW c \in Calls, call[c].at \in Files
                 PROVE  /\ call[c].at \in Own(call[c].who)
                        /\ call[c].who \in raced' \/ call[c].saw <= Parsed(call[c].at)'
      BY <2>1 DEF Counted, Own
    <3>1. CASE call[c].at = Channel
      BY <2>1, <3>1 DEF Reading, ReachInv, Counted
    <3>2. CASE call[c].at # Channel
      <4>1. PICK f \in Files : f = call[c].at
        OBVIOUS
      <4>2. Parsed(f)' = Parsed(f) /\ call'[c] = call[c]
        BY <2>1, <2>2, <3>2, <4>1
      <4> QED
        BY <2>1, <4>1, <4>2 DEF ReachInv, Counted
    <3> QED
      BY <3>1, <3>2
  <2>5. Reaching'
    <3> SUFFICES ASSUME NEW a \in Agents \ raced
                 PROVE  /\ Offset(a, Channel)' <= Parsed(Channel)'
                             \/ (del'.at = "cursors" /\ a \in del'.todo)
                        /\ Offset(a, a)' <= Parsed(a)' \/ Orphaned(a)'
      BY <2>1 DEF Reaching
    <3>1. a \in kept \/ Offset(a, Channel) = 0
      BY OffsetFact, FilesFact DEF ReachInv, Owned
    <3>2. \A f \in Files : Offset(a, f)' = Offset(a, f)
      BY <2>1 DEF Offset
    <3>3. Orphaned(a)' <=> Orphaned(a)
      BY <2>1 DEF Orphaned
    <3> QED
      BY <2>1, <2>2, <3>1, <3>2, <3>3, FilesFact DEF ReachInv, Reaching
  <2> QED
    BY <2>3, <2>4, <2>5
<1>2. ASSUME NEW a \in Agents, DropOffset(a) PROVE Owned' /\ Counted' /\ Reaching'
  <2>1. /\ cursor' = [cursor EXCEPT ![a][Channel] = None] /\ kept' = kept \cup {a}
        /\ UNCHANGED <<lines, call, doc, raced>>
        /\ del.at = "cursors" /\ del'.at = "cursors" /\ del'.todo = del.todo \ {a}
    BY <1>0, <1>2 DEF DropOffset, ghosts
  <2>2. \A b \in Agents, f \in Files :
          cursor'[b][f] = cursor[b][f] \/ (cursor'[b][f] = None /\ b = a)
    BY <1>0, <2>1
  <2>3. Owned'
    BY <2>1, <2>2 DEF ReachInv, Owned, Own
  <2>4. \A b \in Agents, f \in Files : Offset(b, f)' <= Offset(b, f)
    BY <2>2, OffsetFact DEF ReachInv, Offset
  <2>5. Offset(a, Channel)' = 0 /\ \A b \in Agents : b # a => Offset(b, Channel)' = Offset(b, Channel)
    BY <1>0, <2>1, FilesFact DEF Offset
  <2>6. Counted'
    BY <2>1 DEF ReachInv, Counted, Own, Parsed
  <2>7. Reaching'
    <3> SUFFICES ASSUME NEW b \in Agents \ raced
                 PROVE  /\ Offset(b, Channel)' <= Parsed(Channel)'
                             \/ (del'.at = "cursors" /\ b \in del'.todo)
                        /\ Offset(b, b)' <= Parsed(b)' \/ Orphaned(b)'
      BY <2>1 DEF Reaching
    <3>1. \A f \in Files : Parsed(f)' = Parsed(f) /\ Parsed(f) \in Nat
      BY <2>1, ParsedFact DEF Parsed, ReachInv
    <3>2. Orphaned(b)' <=> Orphaned(b)
      BY <2>1 DEF Orphaned
    <3>3. /\ Offset(b, b) \in Nat /\ Offset(b, b)' \in Nat
          /\ Offset(b, b)' <= Offset(b, b)
      BY <2>4, OffsetFact, OffsetAfter, FilesFact DEF ReachInv
    <3> QED
      BY <2>1, <2>5, <3>1, <3>2, <3>3, FilesFact DEF ReachInv, Reaching
  <2> QED
    BY <2>3, <2>6, <2>7
<1>3. CASE (\E force \in BOOLEAN : DeleteCheck(force)) \/ DeleteEntry \/ DeleteEnds
  <2>1. UNCHANGED <<cursor, kept, call, doc, raced, lines>>
    BY <1>3 DEF DeleteCheck, DeleteEntry, DeleteEnds, ghosts, diskVars
  <2>2. ~(del.at = "cursors" /\ del.todo # {})
    BY <1>3 DEF DeleteCheck, DeleteEntry, DeleteEnds
  <2>3. \A f \in Files : Parsed(f) <= Parsed(f)'
    BY <2>1, ParsedFact DEF Parsed, ReachInv
  <2> QED
    BY <2>1, <2>2, <2>3, CursorKept, ReachKept DEF Orphaned
<1> QED
  BY <1>1, <1>2, <1>3 DEF DeleteRoom

LEMMA ReachInbox ==
  ASSUME ReachInv, ChannelsTypeOK', NEW a \in Agents, DoctorInbox(a), a \notin doc.known
  PROVE  Owned' /\ Counted' /\ Reaching'
<1>0. lines \in [Files -> Seq(Lines)]
  BY DEF ReachInv, ChannelsTypeOK
<1>1. /\ UNCHANGED <<cursor, kept, call, del>>
      /\ lines' = [lines EXCEPT ![a] = <<>>]
      /\ raced' = raced \cup Reading(a)
      /\ doc.at = "inboxes" /\ doc'.at = "inboxes" /\ doc'.known = doc.known
  BY DEF DoctorInbox, ReachInv, ChannelsTypeOK
<1>2. \A f \in Files : f # a => Parsed(f)' = Parsed(f)
  BY <1>0, <1>1 DEF Parsed
<1>3. Owned'
  BY <1>1, CursorKept
<1>4. Counted'
  <2> SUFFICES ASSUME NEW c \in Calls, call[c].at \in Files
               PROVE  /\ call[c].at \in Own(call[c].who)
                      /\ call[c].who \in raced' \/ call[c].saw <= Parsed(call[c].at)'
    BY <1>1 DEF Counted, Own
  <2>1. CASE call[c].at = a
    BY <1>1, <2>1 DEF Reading, ReachInv, Counted
  <2>2. CASE call[c].at # a
    <3>1. PICK f \in Files : f = call[c].at
      OBVIOUS
    <3>2. Parsed(f)' = Parsed(f) /\ call'[c] = call[c]
      BY <1>1, <1>2, <2>2, <3>1
    <3> QED
      BY <1>1, <3>1, <3>2 DEF ReachInv, Counted
  <2> QED
    BY <2>1, <2>2
<1>5. Reaching'
  <2> SUFFICES ASSUME NEW b \in Agents \ raced
               PROVE  /\ Offset(b, Channel)' <= Parsed(Channel)'
                           \/ (del'.at = "cursors" /\ b \in del'.todo)
                      /\ Offset(b, b)' <= Parsed(b)' \/ Orphaned(b)'
    BY <1>1 DEF Reaching
  <2>1. \A f \in Files : Offset(b, f)' = Offset(b, f)
    BY <1>1 DEF Offset
  <2>2. (Orphaned(b) => Orphaned(b)') /\ Orphaned(a)'
    BY <1>1 DEF Orphaned
  <2> QED
    BY <1>1, <1>2, <2>1, <2>2, FilesFact DEF ReachInv, Reaching
<1> QED
  BY <1>3, <1>4, <1>5

\* An offset that the doctor sets back is none of those beyond reach, or gone.
LEMMA ReachCursor ==
  ASSUME ReachInv, ChannelsTypeOK', NEW a \in Agents,
         DoctorCursor(a) \/ (DoctorClamp /\ a = doc.who)
  PROVE  Owned' /\ Counted' /\ Reaching'
<1>0. /\ cursor \in [Agents -> [Files -> {None} \cup Nat]]
      /\ doc.counts \in [Files -> {None} \cup Counts]
  BY DEF ReachInv, ChannelsTypeOK
<1>1. UNCHANGED <<lines, call, del, raced>>
  BY DEF DoctorCursor, DoctorClamp, ghosts
<1>2. \A f \in Files : Parsed(f) <= Parsed(f)'
  BY <1>1, ParsedFact DEF Parsed, ReachInv
<1>3. CASE DoctorCursor(a)
  <2>1. /\ doc.at = "cursors" /\ doc'.at = "cursors" /\ doc'.known = doc.known
        /\ doc'.todo = doc.todo \ {a}
    BY <1>3 DEF DoctorCursor, ReachInv, ChannelsTypeOK
  <2>2. \/ a \in doc.known /\ UNCHANGED <<cursor, kept>>
        \/ /\ cursor' = [cursor EXCEPT ![a] = [f \in Files |-> None]]
           /\ kept' = kept \ {a}
    BY <1>3 DEF DoctorCursor
  <2>3. Owned'
    BY <1>0, <2>2 DEF ReachInv, Owned, Own
  <2>4. \A b \in Agents, f \in Files : cursor'[b][f] = cursor[b][f] \/ cursor'[b][f] = None
    BY <1>0, <2>2
  <2>5. \A b \in Agents, f \in Files : Offset(b, f)' <= Offset(b, f)
    BY <2>4, OffsetFact DEF ReachInv, Offset
  <2>6. a \in doc.known \/ Offset(a, a)' = 0
    BY <1>0, <2>2, FilesFact DEF Offset
  <2>7. Counted'
    BY <1>1 DEF ReachInv, Counted, Own, Parsed
  <2>8. Reaching'
    <3> SUFFICES ASSUME NEW b \in Agents \ raced
                 PROVE  /\ Offset(b, Channel)' <= Parsed(Channel)'
                             \/ (del'.at = "cursors" /\ b \in del'.todo)
                        /\ Offset(b, b)' <= Parsed(b)' \/ Orphaned(b)'
      BY <1>1 DEF Reaching
    <3>1. \A f \in Files : /\ Parsed(f)' = Parsed(f) /\ Parsed(f) \in Nat
                           /\ Offset(b, f) \in Nat /\ Offset(b, f)' \in Nat
      BY <1>1, ParsedFact, OffsetFact, OffsetAfter DEF Parsed, ReachInv
    <3>2. Orphaned(b) => Orphaned(b)' \/ (b = a /\ a \notin doc.known)
      BY <2>1 DEF Orphaned
    <3> QED
      BY <1>1, <2>5, <2>6, <3>1, <3>2, FilesFact DEF ReachInv, Reaching
  <2> QED
    BY <2>3, <2>7, <2>8
<1>4. CASE DoctorClamp /\ a = doc.who
  <2>1. /\ doc.at = "offsets" /\ cursor' = [cursor EXCEPT ![a] = Clamped(a)]
        /\ kept' = kept \cup {a}
    BY <1>4 DEF DoctorClamp
  <2>2. \A f \in Files : /\ Clamped(a)[f] = None <=> cursor[a][f] = None
                         /\ cursor[a][f] # None => Clamped(a)[f] <= cursor[a][f]
    <3> SUFFICES ASSUME NEW f \in Files
                 PROVE  /\ Clamped(a)[f] = None <=> cursor[a][f] = None
                        /\ cursor[a][f] # None => Clamped(a)[f] <= cursor[a][f]
      OBVIOUS
    <3>1. cursor[a][f] \in {None} \cup Nat
      BY <1>0
    <3>2. PICK most \in Nat :
            Clamped(a)[f] = IF cursor[a][f] # None /\ cursor[a][f] > most
                            THEN most ELSE cursor[a][f]
      BY <1>0 DEF Clamped, Counts
    <3>3. CASE cursor[a][f] = None
      BY <3>2, <3>3
    <3>4. CASE cursor[a][f] \in Nat
      <4>1. Clamped(a)[f] \in Nat /\ Clamped(a)[f] <= cursor[a][f]
        BY <3>2, <3>4
      <4> QED
        BY <3>4, <4>1, NoneFact
    <3> QED
      BY <3>1, <3>3, <3>4
  <2>3. \A b \in Agents, f \in Files :
          \/ cursor'[b][f] = cursor[b][f]
          \/ b = a /\ cursor'[b][f] = Clamped(a)[f]
    BY <1>0, <2>1
  <2>4. Owned'
    <3> SUFFICES ASSUME NEW b \in Agents, NEW f \in Files, cursor'[b][f] # None
                 PROVE  b \in kept' /\ f \in Own(b)
      BY DEF Owned, Own
    <3>1. cursor[b][f] # None
      BY <2>2, <2>3
    <3> QED
      BY <2>1, <3>1 DEF ReachInv, Owned
  <2>5. ASSUME NEW b \in Agents, NEW f \in Files PROVE Offset(b, f)' <= Offset(b, f)
    <3>1. Offset(b, f) \in Nat
      BY OffsetFact DEF ReachInv
    <3>2. CASE cursor'[b][f] = cursor[b][f]
      BY <3>1, <3>2 DEF Offset
    <3>3. CASE b = a /\ cursor'[b][f] = Clamped(a)[f]
      BY <2>2, <3>1, <3>3 DEF Offset
    <3> QED
      BY <2>3, <3>2, <3>3
  <2>6. \A b \in Agents : ~Orphaned(b)
    BY <2>1 DEF Orphaned
  <2> QED
    BY <1>1, <1>2, <2>4, <2>5, <2>6, ReachKept
<1> QED
  BY <1>3, <1>4

LEMMA ReachDoctor ==
  ASSUME ReachInv, ChannelsTypeOK', Doctor \/ DoctorReadAgents
  PROVE  Owned' /\ Counted' /\ Reaching'
<1>1. ASSUME NEW a \in Agents, DoctorInbox(a), a \notin doc.known
      PROVE  Owned' /\ Counted' /\ Reaching'
  BY <1>1, ReachInbox
<1>2. ASSUME NEW a \in Agents, DoctorCursor(a) \/ (DoctorClamp /\ a = doc.who)
      PROVE  Owned' /\ Counted' /\ Reaching'
  BY <1>2, ReachCursor
<1>3. CASE DoctorClamp
  <2>1. doc.who \in Agents
    BY <1>3 DEF DoctorClamp, ReachInv, ChannelsTypeOK
  <2> QED
    BY <1>2, <1>3, <2>1
<1>4. ASSUME NEW f \in Files, DoctorRewrite(f) PROVE Owned' /\ Counted' /\ Reaching'
  <2>1. UNCHANGED <<cursor, kept, call, del, raced>> /\ doc.at = "lines"
    BY <1>4 DEF DoctorRewrite, ghosts
  <2>2. lines' = lines \/ lines' = [lines EXCEPT ![f] = Messages(@)]
    BY <1>4 DEF DoctorRewrite
  <2>3. lines \in [Files -> Seq(Lines)]
    BY DEF ReachInv, ChannelsTypeOK
  <2>4. \A g \in Files : Parsed(g) <= Parsed(g)'
    <3> SUFFICES ASSUME NEW g \in Files PROVE Whole(lines[g]) <= Whole(lines'[g])
      BY DEF Parsed
    <3>1. lines'[g] = lines[g] \/ lines'[g] = Messages(lines[g])
      BY <2>2, <2>3
    <3>2. lines[g] \in Seq(Lines)
      BY <2>3
    <3> QED
      BY <3>1, <3>2, MessagesFact, WholeFact
  <2> QED
    BY <2>1, <2>4, CursorKept, ReachKept DEF Orphaned
<1>5. CASE /\ ~\E a \in Agents : DoctorCursor(a) \/ (DoctorInbox(a) /\ a \notin doc.known)
           /\ ~DoctorClamp /\ ~\E f \in Files : DoctorRewrite(f)
  <2>1. UNCHANGED <<cursor, kept, call, del, raced, lines>>
    BY <1>5 DEF Doctor, DoctorReadAgents, DoctorReadRooms, DoctorMembers, DoctorInbox,
       DoctorOffset, DoctorGoes, DoctorFails, DoctorRegister, DoctorEnds, ghosts, diskVars
  <2>2. \A f \in Files : Parsed(f) <= Parsed(f)'
    BY <2>1, ParsedFact DEF Parsed, ReachInv
  <2>3. ASSUME NEW b \in Agents, Orphaned(b)
        PROVE  Orphaned(b)' \/ Offset(b, b) <= Parsed(b)
    <3>0. doc \in [at : {"idle", "rooms", "members", "inboxes", "cursors", "offsets", "lines",
                         "done"},
                   known : SUBSET Agents, there : BOOLEAN, seats : SUBSET Agents,
                   todo : SUBSET Files, counts : [Files -> {None} \cup Counts],
                   who : {None} \cup Agents]
      BY DEF ReachInv, ChannelsTypeOK
    <3>1. (\E a \in Agents : DoctorInbox(a)) \/ DoctorGoes
      BY <1>5, <2>3 DEF Doctor, DoctorReadAgents, DoctorReadRooms, DoctorMembers, DoctorOffset,
         DoctorFails, DoctorRegister, DoctorEnds, Orphaned
    <3>2. ASSUME NEW a \in Agents, DoctorInbox(a) PROVE Orphaned(b)'
      BY <2>3, <3>0, <3>2 DEF DoctorInbox, Orphaned
    <3>3. CASE Goes("inboxes", "cursors")
      <4>1. doc'.at = "cursors" /\ doc'.todo = kept /\ doc'.known = doc.known
        BY <3>0, <3>3 DEF Goes, Work
      <4>2. b \in kept \/ Offset(b, b) = 0
        BY OffsetFact, FilesFact DEF ReachInv, Owned
      <4> QED
        BY <2>3, <4>1, <4>2, ParsedFact, FilesFact DEF Orphaned, ReachInv
    <3>4. ~Goes("cursors", "offsets") /\ ~Goes("offsets", "lines")
      BY <2>3 DEF Goes, Orphaned
    <3> QED
      BY <3>1, <3>2, <3>3, <3>4 DEF DoctorGoes
  <2>4. \A c \in Calls : call'[c] = call[c]
    BY <2>1
  <2> QED
    BY <2>1, <2>2, <2>3, <2>4, CursorKept, ReachKept
<1> QED
  BY <1>1, <1>2, <1>3, <1>4, <1>5

LEMMA ReachNext == ReachInv /\ [ChannelsNext]_channelVars => ReachInv'
<1> SUFFICES ASSUME ReachInv, [ChannelsNext]_channelVars PROVE ReachInv'
  OBVIOUS
<1>1. ChannelsTypeOK'
  BY ChannelsTypeNext DEF ReachInv
<1>2. CASE ChannelsNext
  BY <1>1, <1>2, ReachMoves, ReachTool, ReachDelete, ReachDoctor DEF ChannelsNext, ReachInv
<1>3. CASE UNCHANGED channelVars
  BY <1>1, <1>3 DEF channelVars, diskVars, ghosts, ReachInv, Owned, Counted, Reaching, Orphaned,
     Offset, Parsed, Own
<1> QED
  BY <1>2, <1>3

\* No offset outlives the log it counted, whoever deletes and reads at a time.
THEOREM NoOffsetOutlivesAlways == ChannelsSpec => []NoOffsetOutlives
<1>1. ReachInv => NoOffsetOutlives
  <2> SUFFICES ASSUME ReachInv, del.at # "cursors", doc.at \notin {"inboxes", "cursors"},
                      NEW a \in Agents \ raced, NEW f \in Files
               PROVE  Offset(a, f) <= Parsed(f)
    BY DEF NoOffsetOutlives
  <2>1. CASE f \in Own(a)
    BY <2>1 DEF ReachInv, Reaching, Orphaned, Own
  <2>2. CASE f \notin Own(a)
    BY <2>2, OffsetFact, ParsedFact DEF ReachInv, Owned
  <2> QED
    BY <2>1, <2>2
<1> QED
  BY <1>1, ReachInit, ReachNext, PTL DEF ChannelsSpec

\* What a doctor that nobody disturbs knows (Current) and has mended so far
\* (Mended), by the check it has come to.
AtEnd(a) == \A f \in Files : Offset(a, f) <= Parsed(f)
Absent == \A f \in Files : ~present[f] => lines[f] = <<>>
Resting == doc.at = "idle" => doc = NoDoctor
Current ==
  /\ doc.at \in {"rooms", "members"} => doc.known = registered
  /\ doc.at = "members" => doc.seats = members
  /\ doc.at \in {"members", "inboxes", "cursors", "offsets", "lines"} => doc.there = entry
  /\ doc.at \in {"rooms", "members", "inboxes", "cursors"} => doc.counts = Unscanned
  /\ \A f \in Files : doc.at \in {"offsets", "lines"} /\ doc.counts[f] # None =>
       /\ doc.counts[f].parsed = Parsed(f)
       /\ doc.at = "offsets" \/ f \in doc.todo => doc.counts[f].malformed = Malformed(f)
Mended ==
  /\ doc.at \notin {"rooms", "members"} => members \subseteq registered
  /\ doc.at = "offsets" =>
       /\ \A a \in Agents : a \in doc.todo \/ a = doc.who \/ AtEnd(a)
       /\ doc.who # None =>
            \A f \in Files : cursor[doc.who][f] # None => doc.counts[f] # None
  /\ doc.at \in {"lines", "done"} =>
       /\ \A a \in Agents : AtEnd(a)
       /\ \A f \in Files : \/ doc.at = "lines" /\ f \in doc.todo
                           \/ Malformed(f) = 0
                           \/ f = Channel /\ ~doc.there
  /\ doc.at = "done" => (present[Channel] => entry)
HealInv == Absent /\ Resting /\ (calm => doc.at # "idle" /\ Current /\ Mended)

LEMMA HealInit == ChannelsInit => HealInv
<1> SUFFICES ASSUME ChannelsInit PROVE HealInv
  OBVIOUS
<1>1. Absent
  BY DEF ChannelsInit, Absent
<1>2. Resting /\ ~calm
  BY DEF ChannelsInit, Resting
<1> QED
  BY <1>1, <1>2 DEF HealInv

LEMMA AbsentNext ==
  ASSUME ChannelsTypeOK, Absent, ChannelsNext
  PROVE  Absent'
<1>0. present \in [Files -> BOOLEAN] /\ lines \in [Files -> Seq(Lines)]
  BY DEF ChannelsTypeOK
<1>1. ASSUME NEW c \in Calls, Post(c) \/ PostSpoilt(c) PROVE Absent'
  BY <1>0, <1>1 DEF Post, PostSpoilt, Absent
<1>2. CASE DeleteLog
  BY <1>0, <1>2 DEF DeleteLog, Absent
<1>3. ASSUME NEW a \in Agents, DoctorInbox(a) PROVE Absent'
  BY <1>0, <1>3 DEF DoctorInbox, Absent
<1>4. ASSUME NEW f \in Files, DoctorRewrite(f) PROVE Absent'
  <2>1. lines' = lines \/ (lines' = [lines EXCEPT ![f] = Messages(@)] /\ Spoilt(f))
    BY <1>4 DEF DoctorRewrite
  <2>2. \A n \in Nat : n = 0 => [i \in 1..n |-> Message] = <<>>
    OBVIOUS
  <2>3. Messages(<<>>) = <<>>
    BY <2>2, EmptyFact DEF Messages
  <2>4. UNCHANGED present
    BY <1>4 DEF DoctorRewrite
  <2> QED
    BY <1>0, <2>1, <2>3, <2>4 DEF Absent
<1>5. CASE /\ ~\E c \in Calls : Post(c) \/ PostSpoilt(c)
           /\ ~DeleteLog /\ ~\E a \in Agents : DoctorInbox(a)
           /\ ~\E f \in Files : DoctorRewrite(f)
  <2>1. CASE Registration \/ (\E a \in Agents : LeaveRoom(a))
    BY <2>1 DEF Registration, Register, Evict, StoreRegistry, LeaveRoom, Absent
  <2>2. ASSUME NEW c \in Calls, Tool(c) PROVE Absent'
    BY <1>5, <2>2 DEF Tool, Begin, EnsureRoom, AddMember, SetRoomMeta, Look, Take, diskVars, Absent
  <2>3. CASE DeleteRoom
    BY <1>5, <2>3 DEF DeleteRoom, DeleteCheck, DeleteEntry, DeleteEnds, DropOffset, diskVars, Absent
  <2>4. CASE Doctor \/ DoctorReadAgents
    BY <1>5, <2>4 DEF Doctor, DoctorReadAgents, DoctorReadRooms, DoctorMembers, DoctorCursor,
       DoctorOffset, DoctorGoes, DoctorClamp, DoctorFails, DoctorRegister, DoctorEnds, diskVars,
       Absent
  <2> QED
    BY <2>1, <2>2, <2>3, <2>4 DEF ChannelsNext
<1> QED
  BY <1>1, <1>2, <1>3, <1>4, <1>5

LEMMA RestingNext ==
  ASSUME ChannelsTypeOK, Resting, ChannelsNext
  PROVE  Resting'
<1>1. CASE Registration \/ (\E a \in Agents : LeaveRoom(a))
  BY <1>1 DEF Registration, Register, Evict, StoreRegistry, LeaveRoom, Resting
<1>2. ASSUME NEW c \in Calls, Tool(c) PROVE Resting'
  BY <1>2 DEF Tool, Begin, EnsureRoom, AddMember, SetRoomMeta, Post, PostSpoilt, Look, Take, Resting
<1>3. CASE DeleteRoom
  BY <1>3 DEF DeleteRoom, DeleteCheck, DeleteEntry, DeleteLog, DeleteEnds, DropOffset, Resting
<1>4. CASE DoctorEnds \/ \E f \in Files : DoctorFails(f)
  BY <1>4 DEF DoctorEnds, DoctorFails, Resting
<1>5. CASE /\ Doctor \/ DoctorReadAgents
           /\ ~DoctorEnds /\ ~\E f \in Files : DoctorFails(f)
  <2>1. doc \in [at : {"idle", "rooms", "members", "inboxes", "cursors", "offsets", "lines",
                       "done"},
                 known : SUBSET Agents, there : BOOLEAN, seats : SUBSET Agents,
                 todo : SUBSET Files, counts : [Files -> {None} \cup Counts],
                 who : {None} \cup Agents]
    BY DEF ChannelsTypeOK
  <2>2. doc'.at # "idle"
    BY <1>5, <2>1 DEF Doctor, DoctorReadAgents, DoctorReadRooms, DoctorMembers, DoctorInbox,
       DoctorCursor, DoctorOffset, DoctorGoes, Goes, Work, DoctorClamp, DoctorRewrite,
       DoctorRegister
  <2> QED
    BY <2>2 DEF Resting
<1> QED
  BY <1>1, <1>2, <1>3, <1>4, <1>5 DEF ChannelsNext

\* The doctor's run, as it stands in a well-typed state.
LEMMA DocType ==
  ASSUME ChannelsTypeOK
  PROVE  doc \in [at : {"idle", "rooms", "members", "inboxes", "cursors", "offsets", "lines",
                       "done"},
                 known : SUBSET Agents, there : BOOLEAN, seats : SUBSET Agents,
                 todo : SUBSET Files, counts : [Files -> {None} \cup Counts],
                 who : {None} \cup Agents]
BY DEF ChannelsTypeOK

LEMMA HealRegistry ==
  ASSUME ChannelsTypeOK, Resting, calm => Current /\ Mended,
         \/ DoctorReadAgents /\ Quiet
         \/ (DoctorReadRooms \/ DoctorMembers) /\ calm
  PROVE  Current' /\ Mended'
<1>1. CASE DoctorReadAgents /\ Quiet
  <2>1. doc = NoDoctor /\ KnownNow = registered /\ UNCHANGED registered
    BY <1>1 DEF DoctorReadAgents, Quiet, KnownNow, Resting, diskVars
  <2>2. doc'.at = "rooms" /\ doc'.known = registered /\ doc'.counts = Unscanned
    BY <1>1, <2>1 DEF DoctorReadAgents, NoDoctor
  <2> QED
    BY <2>1, <2>2 DEF Current, Mended, Unscanned
<1>2. CASE DoctorReadRooms /\ calm
  <2>1. /\ doc.at = "rooms" /\ doc'.at = "members" /\ doc'.known = doc.known
        /\ doc'.there = entry /\ doc'.seats = members /\ doc'.counts = doc.counts
        /\ UNCHANGED <<registered, entry, members>>
    BY <1>2, DocType DEF DoctorReadRooms, diskVars
  <2> QED
    BY <1>2, <2>1 DEF Current, Mended, Unscanned
<1>3. CASE DoctorMembers /\ calm
  <2>1. /\ doc.at = "members" /\ doc'.at = "inboxes"
        /\ doc'.there = doc.there /\ doc'.counts = doc.counts
        /\ UNCHANGED <<registered, entry>>
        /\ members' = IF doc.seats \subseteq doc.known THEN members ELSE members \cap doc.known
    BY <1>3, DocType DEF DoctorMembers, Work
  <2>2. doc.seats = members /\ doc.known = registered
    BY <1>3, <2>1 DEF Current
  <2> QED
    BY <1>3, <2>1, <2>2 DEF Current, Mended, Unscanned
<1> QED
  BY <1>1, <1>2, <1>3

LEMMA HealFiles ==
  ASSUME ChannelsTypeOK, calm, Current, Mended, NEW a \in Agents, DoctorInbox(a) \/ DoctorCursor(a)
  PROVE  Current' /\ Mended'
<1>1. /\ doc.at \in {"inboxes", "cursors"} /\ doc'.at = doc.at
      /\ doc'.there = doc.there /\ doc'.counts = doc.counts
      /\ UNCHANGED <<registered, entry, members>>
  BY DocType DEF DoctorInbox, DoctorCursor
<1> QED
  BY <1>1 DEF Current, Mended, Unscanned

LEMMA HealGoes ==
  ASSUME ChannelsTypeOK, Owned, Absent, calm, Current, Mended, DoctorGoes
  PROVE  Current' /\ Mended'
<1>0. UNCHANGED <<registered, entry, members, cursor, lines, present, kept>>
  BY DEF DoctorGoes, diskVars
<1>1. CASE Goes("inboxes", "cursors")
  <2>1. /\ doc.at = "inboxes" /\ doc'.at = "cursors"
        /\ doc'.there = doc.there /\ doc'.counts = doc.counts
    BY <1>1, DocType DEF Goes, Work
  <2> QED
    BY <1>0, <2>1 DEF Current, Mended, Unscanned
<1>2. CASE Goes("cursors", "offsets")
  <2>1. /\ doc.at = "cursors" /\ doc'.at = "offsets" /\ doc'.todo = kept /\ doc'.who = None
        /\ doc'.there = doc.there /\ doc'.counts = doc.counts
    BY <1>2, DocType DEF Goes, Work
  <2>2. ASSUME NEW a \in Agents, a \notin kept PROVE AtEnd(a)'
    <3> SUFFICES ASSUME NEW f \in Files PROVE Offset(a, f)' <= Parsed(f)'
      BY DEF AtEnd
    <3>1. Offset(a, f) = 0 /\ Parsed(f) \in Nat
      BY <2>2, OffsetFact, ParsedFact DEF Owned
    <3>2. Offset(a, f)' = Offset(a, f) /\ Parsed(f)' = Parsed(f)
      BY <1>0 DEF Offset, Parsed
    <3> QED
      BY <3>1, <3>2
  <2>3. Current'
    BY <1>0, <2>1 DEF Current, Unscanned
  <2>4. Mended'
    BY <1>0, <2>1, <2>2 DEF Mended
  <2> QED
    BY <2>3, <2>4
<1>3. CASE Goes("offsets", "lines")
  <2>1. /\ doc.at = "offsets" /\ doc'.at = "lines" /\ doc.todo = {} /\ doc.who = None
        /\ doc'.todo = InboxFiles \cup (IF doc.there THEN {Channel} ELSE {})
        /\ doc'.there = doc.there /\ doc'.counts = doc.counts
    BY <1>3, DocType DEF Goes, Work
  <2>2. \A f \in Files : Parsed(f)' = Parsed(f) /\ Malformed(f)' = Malformed(f)
    BY <1>0 DEF Parsed, Malformed
  <2>3. ASSUME NEW a \in Agents PROVE AtEnd(a)'
    <3>1. AtEnd(a)
      BY <2>1, NamesAssumption DEF Mended
    <3>2. \A f \in Files : Offset(a, f)' = Offset(a, f)
      BY <1>0 DEF Offset
    <3> QED
      BY <2>2, <3>1, <3>2 DEF AtEnd
  <2>4. ASSUME NEW f \in Files, f \notin doc'.todo
        PROVE  Malformed(f) = 0 \/ (f = Channel /\ ~doc.there)
    <3>1. CASE f = Channel
      BY <2>1, <2>4, <3>1
    <3>2. CASE f \in Agents
      <4>1. ~present[f]
        BY <2>1, <2>4, <3>2 DEF InboxFiles
      <4> QED
        BY <4>1, ParsedFact DEF Absent
    <3> QED
      BY <3>1, <3>2 DEF Files
  <2>5. Current'
    BY <1>0, <2>1, <2>2 DEF Current
  <2>6. Mended'
    BY <1>0, <2>1, <2>2, <2>3, <2>4 DEF Mended
  <2> QED
    BY <2>5, <2>6
<1> QED
  BY <1>1, <1>2, <1>3 DEF DoctorGoes

LEMMA HealOffset ==
  ASSUME ChannelsTypeOK, Owned, calm, Current, Mended, NEW a \in Agents, DoctorOffset(a)
  PROVE  Current' /\ Mended'
<1> DEFINE fs == {a} \cup {f \in Own(a) : cursor[a][f] # None}
           over == \E f \in fs : Offset(a, f) > Scanned(fs)[f].parsed
<1>1. /\ doc.at = "offsets" /\ doc'.at = "offsets" /\ doc.who = None
      /\ doc'.todo = doc.todo \ {a} /\ doc'.counts = Scanned(fs)
      /\ doc'.who = IF over THEN a ELSE None
      /\ doc'.there = doc.there
      /\ UNCHANGED <<registered, entry, members, cursor, lines>>
  BY DocType DEF DoctorOffset, diskVars
<1>2. fs \subseteq Files /\ \A f \in Files : cursor[a][f] # None => f \in fs
  BY DEF Own, Files, Owned
<1>3. \A f \in Files : /\ Parsed(f)' = Parsed(f) /\ Malformed(f)' = Malformed(f)
                       /\ Parsed(f) \in Nat /\ Malformed(f) \in Nat
  BY <1>1, ParsedFact DEF Parsed, Malformed
<1>4. \A f \in Files :
        /\ Scanned(fs)[f] # None => /\ Scanned(fs)[f].parsed = Parsed(f)
                                    /\ Scanned(fs)[f].malformed = Malformed(f)
        /\ f \in fs => Scanned(fs)[f] # None
  <2> SUFFICES ASSUME NEW f \in Files
               PROVE  /\ Scanned(fs)[f] # None => /\ Scanned(fs)[f].parsed = Parsed(f)
                                                  /\ Scanned(fs)[f].malformed = Malformed(f)
                      /\ f \in fs => Scanned(fs)[f] # None
    OBVIOUS
  <2>1. CASE f \in fs /\ doc.counts[f] = None
    <3>1. Scanned(fs)[f] = [parsed |-> Parsed(f), malformed |-> Malformed(f)]
      BY <2>1 DEF Scanned
    <3>2. [parsed |-> Parsed(f), malformed |-> Malformed(f)] # None
      BY <1>3, NoneFact DEF Counts
    <3> QED
      BY <3>1, <3>2
  <2>2. CASE ~(f \in fs /\ doc.counts[f] = None)
    <3>1. Scanned(fs)[f] = doc.counts[f]
      BY <2>2 DEF Scanned
    <3> QED
      BY <1>1, <2>2, <3>1 DEF Current
  <2> QED
    BY <2>1, <2>2
<1> HIDE DEF fs
<1>5. \A b \in Agents, f \in Files : Offset(b, f)' = Offset(b, f)
  BY <1>1 DEF Offset
<1>6. over \/ AtEnd(a)
  <2> SUFFICES ASSUME ~over, NEW f \in Files PROVE Offset(a, f) <= Parsed(f)
    BY DEF AtEnd
  <2>1. CASE f \in fs
    <3>1. ~(Offset(a, f) > Parsed(f))
      BY <1>4, <2>1
    <3> QED
      BY <1>3, <3>1, OffsetFact
  <2>2. CASE f \notin fs
    BY <1>2, <1>3, <2>2, OffsetFact
  <2> QED
    BY <2>1, <2>2
<1> HIDE DEF over
<1>7. Current'
  BY <1>1, <1>3, <1>4 DEF Current
<1>8. ASSUME NEW b \in Agents, b \notin doc'.todo, b # doc'.who PROVE AtEnd(b)'
  <2>1. AtEnd(b)
    BY <1>1, <1>6, <1>8, NamesAssumption DEF Mended
  <2> QED
    BY <1>3, <1>5, <2>1 DEF AtEnd
<1>9. doc'.who # None => \A f \in Files : cursor'[doc'.who][f] # None => doc'.counts[f] # None
  BY <1>1, <1>2, <1>4
<1> QED
  BY <1>1, <1>7, <1>8, <1>9 DEF Mended

LEMMA HealClamp ==
  ASSUME ChannelsTypeOK, Owned, calm, Current, Mended, DoctorClamp
  PROVE  Current' /\ Mended'
<1>1. PICK a \in Agents : a = doc.who
  BY DocType DEF DoctorClamp
<1>2. /\ doc.at = "offsets" /\ doc'.at = "offsets" /\ doc'.who = None
      /\ doc'.todo = doc.todo /\ doc'.counts = doc.counts /\ doc'.there = doc.there
      /\ cursor' = [cursor EXCEPT ![a] = Clamped(a)]
      /\ UNCHANGED <<registered, entry, members, lines>>
  BY <1>1, DocType DEF DoctorClamp
<1>3. \A f \in Files : /\ Parsed(f)' = Parsed(f) /\ Malformed(f)' = Malformed(f)
                       /\ Parsed(f) \in Nat
  BY <1>2, ParsedFact DEF Parsed, Malformed
<1>4. cursor \in [Agents -> [Files -> {None} \cup Nat]]
  BY DEF ChannelsTypeOK
<1>5. Current'
  BY <1>2, <1>3 DEF Current
<1>6. ASSUME NEW f \in Files PROVE Offset(a, f)' <= Parsed(f)'
  <2>1. cursor'[a][f] = Clamped(a)[f]
    BY <1>2, <1>4
  <2>2. CASE cursor[a][f] = None
    BY <1>3, <2>1, <2>2 DEF Clamped, Offset
  <2>3. CASE cursor[a][f] # None
    <3>1. doc.counts[f] # None /\ doc.counts[f].parsed = Parsed(f)
      BY <1>1, <1>2, <2>3, NamesAssumption DEF Mended, Current
    <3>2. Clamped(a)[f] \in Nat /\ Clamped(a)[f] <= Parsed(f)
      BY <1>3, <1>4, <2>3, <3>1 DEF Clamped
    <3> QED
      BY <1>3, <2>1, <3>2, NamesAssumption DEF Offset
  <2> QED
    BY <2>2, <2>3
<1>7. ASSUME NEW b \in Agents, b \notin doc.todo PROVE AtEnd(b)'
  <2>1. CASE b = a
    BY <1>6, <2>1 DEF AtEnd
  <2>2. CASE b # a
    <3>1. AtEnd(b)
      BY <1>1, <1>2, <1>7, <2>2 DEF Mended
    <3>2. \A f \in Files : Offset(b, f)' = Offset(b, f)
      BY <1>2, <1>4, <2>2 DEF Offset
    <3> QED
      BY <1>3, <3>1, <3>2 DEF AtEnd
  <2> QED
    BY <2>1, <2>2
<1> QED
  BY <1>2, <1>5, <1>7 DEF Mended

LEMMA HealRewrite ==
  ASSUME ChannelsTypeOK, calm, Current, Mended, NEW f \in Files, DoctorRewrite(f)
  PROVE  Current' /\ Mended'
<1>1. /\ doc.at = "lines" /\ doc'.at = "lines" /\ f \in doc.todo
      /\ doc'.todo = doc.todo \ {f} /\ doc'.counts = Scanned({f}) /\ doc'.there = doc.there
      /\ lines' = IF Scanned({f})[f].malformed > 0
                 THEN [lines EXCEPT ![f] = Messages(@)] ELSE lines
      /\ UNCHANGED <<registered, entry, members, cursor>>
  BY DocType DEF DoctorRewrite, Spoilt
<1>2. lines \in [Files -> Seq(Lines)]
  BY DEF ChannelsTypeOK
<1>3. \A g \in Files : Parsed(g) \in Nat /\ Malformed(g) \in Nat
  BY ParsedFact
<1>4. \A g \in Files :
        /\ g # f => Scanned({f})[g] = doc.counts[g]
        /\ Scanned({f})[f].parsed = Parsed(f) /\ Scanned({f})[f].malformed = Malformed(f)
  BY <1>1, NamesAssumption DEF Scanned, Current
<1>5. \A g \in Files : g # f => lines'[g] = lines[g]
  BY <1>1, <1>2
<1>6. Whole(lines'[f]) = Whole(lines[f]) /\ Len(lines'[f]) - Whole(lines'[f]) = 0
  <2>1. CASE Malformed(f) > 0
    <3>1. lines'[f] = Messages(lines[f])
      BY <1>1, <1>2, <1>4, <2>1
    <3> QED
      BY <1>2, <3>1, MessagesFact, WholeFact
  <2>2. CASE ~(Malformed(f) > 0)
    <3>1. lines'[f] = lines[f]
      BY <1>1, <1>2, <1>4, <2>2
    <3> QED
      BY <1>3, <2>2, <3>1 DEF Malformed, Parsed
  <2> QED
    BY <2>1, <2>2
<1>7. /\ Malformed(f)' = 0
      /\ \A g \in Files : /\ Parsed(g)' = Parsed(g)
                          /\ g # f => Malformed(g)' = Malformed(g)
  BY <1>5, <1>6 DEF Parsed, Malformed
<1>8. Current'
  <2>1. ASSUME NEW g \in Files, doc'.counts[g] # None
        PROVE  /\ doc'.counts[g].parsed = Parsed(g)'
               /\ g \in doc'.todo => doc'.counts[g].malformed = Malformed(g)'
    <3>1. CASE g = f
      <4>1. doc'.counts[g].parsed = Parsed(g) /\ g \notin doc'.todo
        BY <1>1, <1>4, <3>1
      <4> QED
        BY <1>7, <4>1
    <3>2. CASE g # f
      <4>1. doc'.counts[g] = doc.counts[g] /\ (g \in doc'.todo => g \in doc.todo)
        BY <1>1, <1>4, <3>2
      <4>2. /\ doc.counts[g].parsed = Parsed(g)
            /\ g \in doc.todo => doc.counts[g].malformed = Malformed(g)
        BY <1>1, <2>1, <4>1 DEF Current
      <4> QED
        BY <1>7, <3>2, <4>1, <4>2
    <3> QED
      BY <3>1, <3>2
  <2>2. doc'.there = entry'
    BY <1>1 DEF Current
  <2> QED
    BY <1>1, <2>1, <2>2 DEF Current
<1>9. ASSUME NEW a \in Agents PROVE AtEnd(a)'
  <2>1. AtEnd(a)
    BY <1>1 DEF Mended
  <2>2. \A g \in Files : Offset(a, g)' = Offset(a, g)
    BY <1>1 DEF Offset
  <2> QED
    BY <1>7, <2>1, <2>2 DEF AtEnd
<1>10. ASSUME NEW g \in Files
       PROVE  \/ g \in doc'.todo
              \/ Malformed(g)' = 0
              \/ g = Channel /\ ~doc'.there
  BY <1>1, <1>7 DEF Mended
<1>11. members' \subseteq registered'
  BY <1>1 DEF Mended
<1> QED
  BY <1>1, <1>8, <1>9, <1>10, <1>11 DEF Mended

LEMMA HealRegister ==
  ASSUME ChannelsTypeOK, calm, Current, Mended, DoctorRegister
  PROVE  Current' /\ Mended'
<1>1. /\ doc.at = "lines" /\ doc'.at = "done" /\ doc.todo = {} /\ doc'.there = doc.there
      /\ entry' = (entry \/ (present[Channel] /\ ~doc.there))
      /\ UNCHANGED <<registered, members, present, lines, cursor>>
  BY DocType DEF DoctorRegister
<1>2. doc.there = entry
  BY <1>1 DEF Current
<1>3. Current'
  BY <1>1 DEF Current
<1>4. \A f \in Files : Parsed(f)' = Parsed(f) /\ Malformed(f)' = Malformed(f)
  BY <1>1 DEF Parsed, Malformed
<1>5. \A a \in Agents : AtEnd(a)'
  BY <1>1, <1>4 DEF Mended, AtEnd, Offset
<1> QED
  BY <1>1, <1>2, <1>3, <1>4, <1>5 DEF Mended

LEMMA HealNext == ReachInv /\ HealInv /\ [ChannelsNext]_channelVars => HealInv'
<1> SUFFICES ASSUME ReachInv, HealInv, [ChannelsNext]_channelVars PROVE HealInv'
  OBVIOUS
<1>0. ChannelsTypeOK /\ Owned
  BY DEF ReachInv
<1>1. CASE ChannelsNext
  <2>1. Absent' /\ Resting'
    BY <1>0, <1>1, AbsentNext, RestingNext DEF HealInv
  <2>2. CASE ~calm'
    BY <2>1, <2>2 DEF HealInv
  <2>3. CASE calm' /\ DoctorReadAgents
    <3>1. Quiet \/ (Doctor /\ calm)
      BY <1>1, <2>3 DEF ChannelsNext
    <3>2. ~Doctor
      BY <2>3, DocType, <1>0 DEF DoctorReadAgents, Doctor, DoctorReadRooms, DoctorMembers, DoctorInbox,
         DoctorCursor, DoctorOffset, DoctorGoes, Goes, DoctorClamp, DoctorRewrite, DoctorFails,
         DoctorRegister, DoctorEnds
    <3>3. Current' /\ Mended' /\ doc'.at # "idle"
      BY <1>0, <2>3, <3>1, <3>2, HealRegistry, DocType DEF HealInv, DoctorReadAgents
    <3> QED
      BY <2>1, <3>3 DEF HealInv
  <2>4. CASE calm' /\ ~DoctorReadAgents
    <3>1. Doctor /\ calm /\ doc'.at # "idle"
      BY <1>1, <2>4 DEF ChannelsNext
    <3>2. ~DoctorEnds /\ ~\E f \in Files : DoctorFails(f)
      BY <3>1 DEF DoctorEnds, DoctorFails, NoDoctor
    <3>3. Current /\ Mended /\ Absent /\ Resting
      BY <3>1 DEF HealInv
    <3>4. Current' /\ Mended'
      BY <1>0, <3>1, <3>2, <3>3, HealRegistry, HealFiles, HealGoes, HealOffset, HealClamp,
         HealRewrite, HealRegister DEF Doctor
    <3> QED
      BY <2>1, <3>1, <3>4 DEF HealInv
  <2> QED
    BY <2>2, <2>3, <2>4
<1>2. CASE UNCHANGED channelVars
  BY <1>2 DEF channelVars, diskVars, HealInv, Absent, Resting, Current, Mended, AtEnd, Offset,
     Parsed, Malformed
<1> QED
  BY <1>1, <1>2

\* A doctor that nobody disturbed leaves nothing to repair.
THEOREM DoctorHealsAlways == ChannelsSpec => []DoctorHeals
<1>1. ReachInv /\ HealInv => DoctorHeals
  <2> SUFFICES ASSUME ReachInv, HealInv, doc.at = "done", calm PROVE DoctorHeals
    BY DEF DoctorHeals
  <2>1. Mended
    BY DEF HealInv
  <2>2. /\ members \subseteq registered
        /\ \A a \in Agents, f \in Files : Offset(a, f) <= Parsed(f)
        /\ present[Channel] => entry
    BY <2>1 DEF Mended, AtEnd
  <2>3. \A f \in Files : Malformed(f) > 0 => f = Channel /\ ~doc.there
    BY <2>1 DEF Mended
  <2> QED
    BY <2>2, <2>3 DEF DoctorHeals
<1> QED
  BY <1>1, ReachInit, ReachNext, HealInit, HealNext, PTL DEF ChannelsSpec

=============================================================================
