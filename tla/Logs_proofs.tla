----------------------------- MODULE Logs_proofs -----------------------------
(***************************************************************************)
(* What holds of the readers of a log that somebody else moves: of the     *)
(* remote pusher and the wait_for_message calls it makes (LongPoll), for   *)
(* any number of rooms, calls and messages, however often the agent moves  *)
(* and the connection fails; and of read_messages across retention sweeps  *)
(* (Prune), for any number of senders, readers and sweeps.                 *)
(***************************************************************************)
EXTENDS LongPoll, Prune, FiniteSetTheorems, FunctionTheorems, SequenceTheorems,
        WellFoundedInduction, TLAPS

-----------------------------------------------------------------------------
(* LongPoll: the inductive invariant                                       *)

\* A call has something to return only when it replies, and what it returns and
\* what is queued for the pane the cursor of its log has passed.
Passed ==
  /\ \A c \in Calls : wait[c] # "reply" => batch[c] = {}
  /\ \A s \in Sources : cursor[s] <= Len(log[s])
  /\ \A c \in Calls : batch[c] \subseteq 1..cursor[source[c]]
  /\ \A s \in Sources : \A i \in DOMAIN pushed[s] : pushed[s][i] \in 1..cursor[s]

\* What the call of a loop returns is newer than what the loop has queued.
Newer ==
  \A s \in Sources : awaits[s] # None =>
    \A i \in DOMAIN pushed[s] : \A j \in batch[awaits[s]] : pushed[s][i] < j

\* A room is left no more often than it is joined.
Counted == IsFiniteSet(member) /\ Cardinality(member) <= moves

\* Neither has a connection failed nor has the agent left a room.
Calm == faults = 0 /\ moves <= Cardinality(member)

\* What the pane should see and the cursor has passed is queued, in some call,
\* in a digest, or lost with a call or a read.
Accounted ==
  \A s \in Sources : \A i \in 1..cursor[s] : log[s][i] = "peer" =>
    \/ i \in PushedSet(s) \cup digested[s] \cup dropped[s]
    \/ \E c \in Calls : source[c] = s /\ i \in batch[c]

\* A digest holds what was older than the window of its read.
Digests == \A s \in Sources : \A i \in digested[s] : s # Inbox /\ i + Window <= cursor[s]

\* When it is calm, loops are started only, each call is waited for and nothing
\* is lost.
Attended ==
  /\ \A s \in Sources : loop[s] # "cancelled"
  /\ \A s \in Rooms : loop[s] = "on" => s \in member /\ (view # None => s \in view)
  /\ view # None => view \subseteq member
  /\ \A c \in Calls : wait[c] # "free" => awaits[source[c]] = c
  /\ \A s \in Sources : dropped[s] = {}

IInv ==
  /\ TypeOK /\ OneCallEach /\ Passed /\ InOrder /\ Newer /\ Counted
  /\ Accounted /\ Digests /\ (Calm => Attended)


-----------------------------------------------------------------------------
(* Putting positions in order                                              *)

LEMMA LeastNatural ==
  ASSUME NEW T \in SUBSET Nat, T # {}
  PROVE  \E n \in T : \A m \in T : n <= m
<1>1. \E n \in T : \A m \in T : ~ (<<m, n>> \in OpToRel(<, Nat))
  BY NatLessThanWellFounded, WFMin
<1>2. PICK n \in T : \A m \in T : ~ (<<m, n>> \in OpToRel(<, Nat))
  BY <1>1
<1>3. \A m \in T : ~(m < n)
  BY <1>2 DEF OpToRel
<1>4. n \in Nat /\ \A m \in T : m \in Nat
  OBVIOUS
<1> QED
  BY <1>3, <1>4

\* A sequence that lists a set of positions in increasing order.
Lists(q, S) ==
  /\ q \in [1..Cardinality(S) -> S]
  /\ \A i, j \in 1..Cardinality(S) : i < j => q[i] < q[j]

LEMMA IntervalSubset ==
  ASSUME NEW n \in Nat, NEW S \in SUBSET (1..n)
  PROVE  IsFiniteSet(S) /\ Cardinality(S) \in Nat
<1>1. IsFiniteSet(1..n)
  BY FS_Interval
<1>2. IsFiniteSet(S)
  BY <1>1, FS_Subset
<1> QED
  BY <1>2, FS_CardinalityType

\* By the smallest bound of the sets that cannot be listed.
LEMMA ListExists ==
  ASSUME NEW n \in Nat, NEW S \in SUBSET (1..n)
  PROVE  \E q : Lists(q, S)
<1> DEFINE Bad == {k \in Nat : \E T \in SUBSET (1..k) : ~\E q : Lists(q, T)}
<1>1. Bad = {}
  <2> SUFFICES ASSUME Bad # {} PROVE FALSE
    OBVIOUS
  <2>1. PICK k \in Bad : \A m \in Bad : k <= m
    <3>1. Bad \in SUBSET Nat
      OBVIOUS
    <3> HIDE DEF Bad
    <3> QED
      BY <3>1, LeastNatural
  <2>2. k \in Nat
    OBVIOUS
  <2>3. PICK T \in SUBSET (1..k) : ~\E q : Lists(q, T)
    OBVIOUS
  <2>4. ~(T \subseteq 1..(k - 1) /\ k # 0)
    <3> SUFFICES ASSUME T \subseteq 1..(k - 1), k # 0 PROVE FALSE
      OBVIOUS
    <3>1. k - 1 \in Nat /\ T \in SUBSET (1..(k - 1))
      BY <2>2
    <3>2. k - 1 \in Bad
      BY <2>3, <3>1
    <3> QED
      BY <2>1, <2>2, <3>2
  <2>5. CASE k = 0
    <3>1. T = {}
      BY <2>5
    <3>2. Cardinality(T) = 0
      BY <3>1, FS_EmptySet
    <3>3. Lists([i \in 1..0 |-> 0], T)
      BY <3>1, <3>2 DEF Lists
    <3> QED
      BY <2>3, <3>3
  <2>6. CASE k # 0
    <3>1. k \in T
      BY <2>2, <2>4, <2>6
    <3> DEFINE U == T \ {k}
    <3>2. k - 1 \in Nat /\ U \in SUBSET (1..(k - 1))
      BY <2>2, <2>6
    <3>3. IsFiniteSet(U) /\ Cardinality(U) \in Nat
      BY <3>2, IntervalSubset
    <3>4. k - 1 \notin Bad
      <4> HIDE DEF Bad
      <4> QED
        BY <2>1, <2>2
    <3>5. PICK q : Lists(q, U)
      BY <3>2, <3>4
    <3>6. Cardinality(T) = Cardinality(U) + 1
      <4>1. T = U \cup {k} /\ k \notin U
        BY <3>1
      <4> QED
        BY <3>3, <4>1, FS_AddElement
    <3> DEFINE n0 == Cardinality(U)
               r == [i \in 1..(n0 + 1) |-> IF i <= n0 THEN q[i] ELSE k]
    <3>7. r \in [1..Cardinality(T) -> T]
      <4>1. \A i \in 1..n0 : q[i] \in T
        BY <3>5 DEF Lists
      <4> HIDE DEF U
      <4> QED
        BY <3>1, <3>3, <3>6, <4>1
    <3>8. \A i, j \in 1..Cardinality(T) : i < j => r[i] < r[j]
      <4>1. \A i \in 1..n0 : q[i] \in U
        BY <3>5 DEF Lists
      <4>2. \A i \in 1..n0 : q[i] < k
        <5>1. \A x \in U : x < k
          BY <3>2, <2>2
        <5> QED
          BY <4>1, <5>1
      <4>3. \A i, j \in 1..n0 : i < j => q[i] < q[j]
        BY <3>5 DEF Lists
      <4> HIDE DEF U
      <4> QED
        BY <3>3, <3>6, <4>2, <4>3
    <3>9. Lists(r, T)
      BY <3>7, <3>8 DEF Lists
    <3> QED
      BY <2>3, <3>9
  <2> QED
    BY <2>5, <2>6
<1> QED
  BY <1>1

LEMMA OrderedLists ==
  ASSUME NEW n \in Nat, NEW S \in SUBSET (1..n)
  PROVE  /\ Cardinality(S) \in Nat
         /\ Ordered(S) \in [1..Cardinality(S) -> S]
         /\ \A i, j \in 1..Cardinality(S) : i < j => Ordered(S)[i] < Ordered(S)[j]
         /\ \A x \in S : \E i \in 1..Cardinality(S) : Ordered(S)[i] = x
<1> DEFINE N == Cardinality(S)
           q == Ordered(S)
<1>1. IsFiniteSet(S) /\ N \in Nat
  BY IntervalSubset
<1>2. Lists(q, S)
  <2>1. \E f \in [1..N -> S] : \A i, j \in 1..N : i < j => f[i] < f[j]
    BY ListExists DEF Lists
  <2> QED
    BY <2>1 DEF Lists, Ordered
<1>3. q \in [1..N -> S]
  BY <1>2 DEF Lists
<1>4. \A i, j \in 1..N : i < j => q[i] < q[j]
  BY <1>2 DEF Lists
<1>5. \A i, j \in 1..N : q[i] = q[j] => i = j
  <2> SUFFICES ASSUME NEW i \in 1..N, NEW j \in 1..N, q[i] = q[j], i # j PROVE FALSE
    OBVIOUS
  <2>1. q[i] \in Nat /\ q[j] \in Nat
    <3>1. q[i] \in S /\ q[j] \in S
      BY <1>3
    <3>2. \A x \in S : x \in Nat
      OBVIOUS
    <3> QED
      BY <3>1, <3>2
  <2>2. i < j \/ j < i
    BY <1>1
  <2> HIDE DEF q, N
  <2> QED
    BY <1>4, <2>1, <2>2
<1>6. q \in Injection(1..N, S)
  <2> HIDE DEF q, N
  <2> QED
    BY <1>3, <1>5, Fun_IsInj
<1>7. Cardinality(1..N) = N
  BY <1>1, FS_Interval
<1>8. q \in Surjection(1..N, S)
  <2> HIDE DEF q
  <2> QED
    BY <1>1, <1>6, <1>7, FS_Injection
<1>9. \A x \in S : \E i \in 1..N : q[i] = x
  <2> HIDE DEF q, N
  <2> QED
    BY <1>8 DEF Surjection
<1> QED
  BY <1>1, <1>3, <1>4, <1>9

-----------------------------------------------------------------------------
(* The steps of the server, the bus and the pusher                         *)

LEMMA IInvInit == Init => IInv
<1> SUFFICES ASSUME Init PROVE IInv
  OBVIOUS
<1> USE BoundAssumption, NobodyAssumption DEF Init, Sources
<1>1. TypeOK
  BY DEF TypeOK
<1>2. OneCallEach /\ Passed /\ InOrder /\ Newer
  BY DEF OneCallEach, Passed, InOrder, Newer
<1>3. Counted
  BY FS_EmptySet DEF Counted
<1>4. Attended /\ Accounted /\ Digests
  BY DEF Attended, Accounted, Digests
<1> QED
  BY <1>1, <1>2, <1>3, <1>4 DEF IInv

\* What is accounted for stays so in a step that moves neither messages nor
\* cursors.
LEMMA AccountedStays ==
  ASSUME Accounted, UNCHANGED <<log, cursor, pushed, digested, dropped, source, batch>>
  PROVE  Accounted'
<1>1. \A s \in Sources : PushedSet(s)' = PushedSet(s)
  BY DEF PushedSet
<1> QED
  BY <1>1 DEF Accounted

LEMMA PostKeeps == ASSUME IInv, NEW s \in Sources, NEW kind \in Traffic, Post(s, kind) PROVE IInv'
<1> USE BoundAssumption, NobodyAssumption, TrafficAssumption
    DEF IInv, TypeOK, Sources, Post, busVars, pusherVars, callVars, historyVars, Freed, Fresh
<1>1. TypeOK'
  BY SMTT(30)
<1>2. OneCallEach'
  BY DEF OneCallEach
<1>3. Passed'
  BY DEF Passed
<1>4. InOrder'
  BY DEF InOrder
<1>5. Newer'
  BY DEF Newer, OneCallEach, Passed
<1>6. Counted'
  BY DEF Counted
<1>7. ASSUME Calm' PROVE Attended'
  <2>1. Calm /\ Attended
    BY <1>7 DEF Calm
  <2> QED
    BY SMTT(30), <2>1 DEF Attended, OneCallEach, Passed
<1>8. Accounted'
  <2>1. UNCHANGED <<cursor, pushed, digested, dropped, source, batch>>
    OBVIOUS
  <2>2. \A t \in Sources : PushedSet(t)' = PushedSet(t)
    BY DEF PushedSet
  <2>3. \A t \in Sources : \A i \in 1..cursor[t] : log'[t][i] = log[t][i]
    <3> SUFFICES ASSUME NEW t \in Sources, NEW i \in 1..cursor[t] PROVE log'[t][i] = log[t][i]
      OBVIOUS
    <3>1. cursor[t] <= Len(log[t]) /\ Len(log[t]) \in Nat
      BY DEF Passed
    <3> QED
      BY <3>1
  <2>4. Accounted
    OBVIOUS
  <2> HIDE DEF IInv, TypeOK, Post
  <2> QED
    BY <2>1, <2>2, <2>3, <2>4 DEF Accounted
<1>9. Digests'
  BY DEF Digests
<1> QED
  BY <1>1, <1>2, <1>3, <1>4, <1>5, <1>6, <1>7, <1>8, <1>9

LEMMA MoveKeeps == ASSUME IInv, NEW s \in Rooms, Move(s) PROVE IInv'
<1> USE BoundAssumption, NobodyAssumption, TrafficAssumption
    DEF IInv, TypeOK, Sources, Move, busVars, pusherVars, callVars, historyVars, Freed, Fresh
<1>1. TypeOK'
  BY SMTT(30)
<1>2. OneCallEach'
  BY DEF OneCallEach
<1>3. Passed'
  BY DEF Passed
<1>4. InOrder'
  BY DEF InOrder
<1>5. Newer'
  BY DEF Newer, OneCallEach, Passed
<1>6. Counted' /\ (Calm' => Calm /\ s \notin member)
  <2>1. IsFiniteSet(member) /\ Cardinality(member) \in Nat /\ Cardinality(member) <= moves
    BY FS_CardinalityType DEF Counted
  <2>2. CASE s \in member
    <3>1. /\ IsFiniteSet(member \ {s})
          /\ Cardinality(member \ {s}) = Cardinality(member) - 1
      BY <2>1, <2>2, FS_RemoveElement
    <3> QED
      BY SMTT(30), <2>1, <2>2, <3>1 DEF Counted, Calm
  <2>3. CASE s \notin member
    <3>1. /\ IsFiniteSet(member \cup {s})
          /\ Cardinality(member \cup {s}) = Cardinality(member) + 1
      BY <2>1, <2>3, FS_AddElement
    <3> QED
      BY <2>1, <2>3, <3>1 DEF Counted, Calm
  <2> QED
    BY <2>2, <2>3
<1>7. ASSUME Calm' PROVE Attended'
  <2>1. Attended /\ member \subseteq member'
    BY <1>6, <1>7
  <2> QED
    <3>1. UNCHANGED <<log, cursor, loop, awaits, view, pushed, wait, batch>>
      OBVIOUS
    <3>2. \A t \in Rooms : loop'[t] = "on" => t \in member' /\ (view' # None => t \in view')
      BY <2>1, <3>1 DEF Attended
    <3>3. view' # None => view' \subseteq member'
      BY <2>1, <3>1 DEF Attended
    <3>4. UNCHANGED <<dropped, source>>
      OBVIOUS
    <3> QED
      BY <2>1, <3>1, <3>2, <3>3, <3>4 DEF Attended
<1>8. Accounted'
  BY AccountedStays
<1>9. Digests'
  BY DEF Digests
<1> QED
  BY <1>1, <1>2, <1>3, <1>4, <1>5, <1>6, <1>7, <1>8, <1>9

LEMMA MeasureKeeps == ASSUME IInv, NEW c \in Calls, Measure(c) PROVE IInv'
<1> USE BoundAssumption, NobodyAssumption, TrafficAssumption
    DEF IInv, TypeOK, Sources, Measure, busVars, pusherVars, callVars, historyVars, Freed, Fresh
<1>1. TypeOK'
  BY SMTT(30)
<1>2. OneCallEach'
  BY DEF OneCallEach
<1>3. Passed'
  BY DEF Passed
<1>4. InOrder'
  BY DEF InOrder
<1>5. Newer'
  BY DEF Newer, OneCallEach, Passed
<1>6. Counted'
  BY DEF Counted
<1>7. ASSUME Calm' PROVE Attended'
  <2>1. Calm /\ Attended
    BY <1>7 DEF Calm
  <2> QED
    BY <2>1 DEF Attended, OneCallEach, Passed
<1>8. Accounted'
  BY AccountedStays
<1>9. Digests'
  BY DEF Digests
<1> QED
  BY <1>1, <1>2, <1>3, <1>4, <1>5, <1>6, <1>7, <1>8, <1>9

LEMMA NoticeKeeps == ASSUME IInv, NEW c \in Calls, Notice(c) PROVE IInv'
<1> USE BoundAssumption, NobodyAssumption, TrafficAssumption
    DEF IInv, TypeOK, Sources, Notice, busVars, pusherVars, callVars, historyVars, Freed, Fresh
<1>1. TypeOK'
  OBVIOUS
<1>2. OneCallEach'
  BY DEF OneCallEach
<1>3. Passed'
  BY DEF Passed
<1>4. InOrder'
  BY DEF InOrder
<1>5. Newer'
  BY DEF Newer, OneCallEach, Passed
<1>6. Counted'
  BY DEF Counted
<1>7. ASSUME Calm' PROVE Attended'
  <2>1. Calm /\ Attended
    BY <1>7 DEF Calm
  <2> QED
    BY <2>1 DEF Attended, OneCallEach, Passed
<1>8. Accounted'
  BY AccountedStays
<1>9. Digests'
  BY DEF Digests
<1> QED
  BY <1>1, <1>2, <1>3, <1>4, <1>5, <1>6, <1>7, <1>8, <1>9

LEMMA ExpireKeeps == ASSUME IInv, NEW c \in Calls, Expire(c) PROVE IInv'
<1> USE BoundAssumption, NobodyAssumption, TrafficAssumption
    DEF IInv, TypeOK, Sources, Expire, busVars, pusherVars, callVars, historyVars, Freed, Fresh
<1>1. TypeOK'
  OBVIOUS
<1>2. OneCallEach'
  BY DEF OneCallEach
<1>3. Passed'
  BY DEF Passed
<1>4. InOrder'
  BY DEF InOrder
<1>5. Newer'
  BY DEF Newer, OneCallEach, Passed
<1>6. Counted'
  BY DEF Counted
<1>7. ASSUME Calm' PROVE Attended'
  <2>1. Calm /\ Attended
    BY <1>7 DEF Calm
  <2> QED
    BY <2>1 DEF Attended, OneCallEach, Passed
<1>8. Accounted'
  BY AccountedStays
<1>9. Digests'
  BY DEF Digests
<1> QED
  BY <1>1, <1>2, <1>3, <1>4, <1>5, <1>6, <1>7, <1>8, <1>9

LEMMA ReadKeeps == ASSUME IInv, NEW c \in Calls, Read(c) PROVE IInv'
<1> USE BoundAssumption, NobodyAssumption
    DEF IInv, TypeOK, Sources, busVars, pusherVars, callVars, historyVars
<1> DEFINE s == source[c]
<1>1. s \in Sources /\ wait[c] = "grown" /\ batch[c] = {} /\ cursor[s] <= Len(log[s])
  BY DEF Passed, Read
<1>2. /\ cursor' = [cursor EXCEPT ![s] = Len(log[s])]
      /\ digested' = [digested EXCEPT ![s] = @ \cup Overflow(s)]
  <2>1. Len(log[s]) \in Nat /\ cursor[s] \in Nat
    BY <1>1
  <2>2. (IF cursor[s] < Len(log[s]) THEN Len(log[s]) ELSE cursor[s]) = Len(log[s])
    BY <1>1, <2>1
  <2> QED
    BY <2>2 DEF Read, TakeUnread
<1>3. \E new :
        /\ new = {i \in ((cursor[s] + 1)..Len(log[s])) \ Overflow(s) :
                    s = Inbox \/ log[s][i] # "own"}
        /\ batch' = [batch EXCEPT ![c] = new]
        /\ wait' = [wait EXCEPT ![c] = IF new = {} THEN "measure" ELSE "reply"]
  BY DEF Read, Fresh, Unread
<1>4. PICK new :
        /\ new = {i \in ((cursor[s] + 1)..Len(log[s])) \ Overflow(s) :
                    s = Inbox \/ log[s][i] # "own"}
        /\ batch' = [batch EXCEPT ![c] = new]
        /\ wait' = [wait EXCEPT ![c] = IF new = {} THEN "measure" ELSE "reply"]
  BY <1>3
<1>5. UNCHANGED <<log, member, loop, awaits, view, pushed, source, size, dropped, moves,
                  faults>>
  BY DEF Read
<1>6. /\ Len(log[s]) \in Nat /\ cursor[s] \in Nat
      /\ \A i \in new : i \in Nat /\ cursor[s] < i /\ i <= Len(log[s])
  BY SMTT(30), <1>1, <1>4
<1>7. \A t \in Sources : cursor[t] <= cursor'[t]
  BY <1>1, <1>2, <1>6
<1> HIDE DEF s
<1>8. TypeOK'
  <2>1. cursor' \in [Sources -> Nat]
    BY <1>1, <1>2, <1>6
  <2>2. batch' \in [Calls -> SUBSET Nat]
    BY <1>4, <1>6
  <2>3. wait' \in [Calls -> {"free", "measure", "wait", "grown", "reply"}]
    BY <1>4
  <2>4. digested' \in [Sources -> SUBSET Nat]
    <3>1. Overflow(s) \in SUBSET Nat
      BY <1>6, WindowAssumption DEF Overflow
    <3> QED
      BY <1>1, <1>2, <3>1
  <2> QED
    BY <1>5, <2>1, <2>2, <2>3, <2>4
<1>9. OneCallEach'
  BY <1>1, <1>4, <1>5 DEF OneCallEach
<1>10. Passed'
  <2>1. \A d \in Calls : wait'[d] # "reply" => batch'[d] = {}
    BY <1>4 DEF Passed
  <2>2. \A t \in Sources : cursor'[t] <= Len(log'[t])
    BY <1>1, <1>2, <1>5, <1>6 DEF Passed
  <2>3. ASSUME NEW d \in Calls PROVE batch'[d] \subseteq 1..cursor'[source'[d]]
    <3>1. CASE d = c
      <4>1. batch'[c] = new /\ cursor'[source'[c]] = Len(log[s])
        BY <1>1, <1>2, <1>4, <1>5 DEF s
      <4> QED
        BY <1>6, <3>1, <4>1
    <3>2. CASE d # c
      <4>1. batch'[d] = batch[d] /\ batch[d] \subseteq 1..cursor[source[d]]
        BY <1>4, <3>2 DEF Passed
      <4>2. /\ cursor[source[d]] \in Nat /\ cursor'[source[d]] \in Nat
            /\ cursor[source[d]] <= cursor'[source[d]]
        BY <1>7, <1>8
      <4> QED
        BY SMTT(30), <1>5, <4>1, <4>2
    <3> QED
      BY <3>1, <3>2
  <2>4. ASSUME NEW t \in Sources, NEW i \in DOMAIN pushed'[t]
        PROVE  pushed'[t][i] \in 1..cursor'[t]
    <3>1. pushed'[t][i] \in 1..cursor[t]
      BY <1>5 DEF Passed
    <3> QED
      <4>1. cursor[t] \in Nat /\ cursor'[t] \in Nat /\ cursor[t] <= cursor'[t]
        BY <1>7, <1>8
      <4> QED
        BY <3>1, <4>1
  <2> QED
    BY <2>1, <2>2, <2>3, <2>4 DEF Passed
<1>11. InOrder'
  BY <1>5 DEF InOrder
<1>12. Newer'
  <2> SUFFICES ASSUME NEW t \in Sources, awaits[t] # None, NEW i \in DOMAIN pushed[t],
                      NEW j \in batch'[awaits[t]]
               PROVE  pushed[t][i] < j
    BY <1>5 DEF Newer
  <2>1. CASE awaits[t] = c
    <3>1. t = s /\ j \in new
      BY <1>4, <2>1 DEF OneCallEach, s
    <3>2. pushed[t][i] \in 1..cursor[s]
      BY <3>1 DEF Passed
    <3> QED
      BY <1>6, <3>1, <3>2
  <2>2. CASE awaits[t] # c
    BY <1>4, <2>2 DEF Newer
  <2> QED
    BY <2>1, <2>2
<1>13. Counted'
  BY <1>5 DEF Counted
<1>14. ASSUME Calm' PROVE Attended'
  <2>1. Attended
    BY <1>5, <1>14 DEF Calm
  <2>2. /\ \A t \in Sources : loop'[t] # "cancelled"
        /\ \A t \in Rooms : loop'[t] = "on" => t \in member' /\ (view' # None => t \in view')
        /\ view' # None => view' \subseteq member'
    BY <1>5, <2>1 DEF Attended
  <2>3. \A d \in Calls : wait'[d] # "free" => awaits'[source'[d]] = d
    BY <1>1, <1>4, <1>5, <2>1 DEF Attended
  <2>4. \A t \in Sources : dropped'[t] = {}
    BY <1>5, <2>1 DEF Attended
  <2> QED
    BY <2>2, <2>3, <2>4 DEF Attended
<1>15. Accounted'
  <2> SUFFICES ASSUME NEW t \in Sources, NEW i \in 1..cursor'[t], log[t][i] = "peer"
               PROVE  \/ i \in PushedSet(t)' \cup digested'[t] \cup dropped'[t]
                      \/ \E d \in Calls : source'[d] = t /\ i \in batch'[d]
    BY <1>5 DEF Accounted
  <2>1. PushedSet(t)' = PushedSet(t) /\ digested[t] \subseteq digested'[t]
    BY <1>1, <1>2, <1>5 DEF PushedSet
  <2>2. CASE i \in 1..cursor[t]
    <3>1. \/ i \in PushedSet(t) \cup digested[t] \cup dropped[t]
          \/ \E d \in Calls : source[d] = t /\ i \in batch[d]
      BY <2>2 DEF Accounted
    <3>2. \A d \in Calls : i \in batch[d] => batch'[d] = batch[d]
      BY <1>1, <1>4
    <3> QED
      BY <1>5, <2>1, <3>1, <3>2
  <2>3. CASE i \notin 1..cursor[t]
    <3>1. t = s /\ i \in (cursor[s] + 1)..Len(log[s])
      BY <1>1, <1>2, <1>6, <2>3
    <3>2. i \in Overflow(s) \/ i \in new
      BY <1>4, <3>1
    <3>3. i \in Overflow(s) => i \in digested'[t]
      BY <1>1, <1>2, <3>1
    <3>4. batch'[c] = new /\ source'[c] = t
      BY <1>4, <1>5, <3>1 DEF s
    <3> QED
      BY <3>2, <3>3, <3>4
  <2> QED
    BY <2>2, <2>3
<1>16. Digests'
  <2> SUFFICES ASSUME NEW t \in Sources, NEW i \in digested'[t]
               PROVE  t # Inbox /\ i + Window <= cursor'[t]
    BY DEF Digests
  <2>1. CASE i \in digested[t]
    <3>1. i \in Nat /\ t # Inbox /\ i + Window <= cursor[t]
      BY <2>1 DEF Digests
    <3> QED
      <4>1. cursor[t] \in Nat /\ cursor'[t] \in Nat /\ cursor[t] <= cursor'[t]
        BY <1>7, <1>8
      <4> QED
        BY <3>1, <4>1, WindowAssumption
  <2>2. CASE i \notin digested[t]
    <3>1. t = s /\ i \in Overflow(s) /\ cursor'[t] = Len(log[s])
      BY <1>1, <1>2, <2>2
    <3>2. s # Inbox /\ i \in (cursor[s] + 1)..(Len(log[s]) - Window)
      BY <3>1 DEF Overflow
    <3> QED
      BY <1>6, <3>1, <3>2, WindowAssumption
  <2> QED
    BY <2>1, <2>2
<1> QED
  BY <1>8, <1>9, <1>10, <1>11, <1>12, <1>13, <1>14, <1>15, <1>16

LEMMA ReadFailsKeeps == ASSUME IInv, NEW c \in Calls, ReadFails(c) PROVE IInv'
<1> USE BoundAssumption, NobodyAssumption, TrafficAssumption
    DEF IInv, TypeOK, Sources, ReadFails, busVars, pusherVars, callVars, historyVars, Freed, Fresh
<1>1. TypeOK'
  OBVIOUS
<1>2. OneCallEach'
  BY DEF OneCallEach
<1>3. Passed'
  BY DEF Passed
<1>4. InOrder'
  BY DEF InOrder
<1>5. Newer'
  BY DEF Newer, OneCallEach, Passed
<1>6. Counted'
  BY DEF Counted
<1>7. ASSUME Calm' PROVE Attended'
  <2>1. Calm /\ Attended
    BY <1>7 DEF Calm
  <2> QED
    BY <2>1 DEF Attended, OneCallEach, Passed
<1>8. Accounted'
  BY AccountedStays
<1>9. Digests'
  BY DEF Digests
<1> QED
  BY <1>1, <1>2, <1>3, <1>4, <1>5, <1>6, <1>7, <1>8, <1>9

LEMMA StashThrowsKeeps == ASSUME IInv, NEW c \in Calls, StashThrows(c) PROVE IInv'
<1> USE BoundAssumption, NobodyAssumption
    DEF IInv, TypeOK, Sources, busVars, pusherVars, callVars, historyVars
<1> DEFINE s == source[c]
<1>1. /\ s \in Sources /\ wait[c] = "grown" /\ batch[c] = {} /\ cursor[s] <= Len(log[s])
      /\ Len(log[s]) \in Nat /\ cursor[s] \in Nat
  <2>1. s \in Sources /\ wait[c] = "grown" /\ batch[c] = {} /\ cursor[s] <= Len(log[s])
    BY DEF Passed, StashThrows
  <2>2. Len(log[s]) \in Nat /\ cursor[s] \in Nat
    BY <2>1
  <2> QED
    BY <2>1, <2>2
<1>2. cursor' = [cursor EXCEPT ![s] = Len(log[s])]
  <2>1. (IF cursor[s] < Len(log[s]) THEN Len(log[s]) ELSE cursor[s]) = Len(log[s])
    BY <1>1
  <2> QED
    BY <2>1 DEF StashThrows, TakeUnread
<1>3. /\ wait' = [wait EXCEPT ![c] = "reply"]
      /\ dropped' = [dropped EXCEPT ![s] = @ \cup ((cursor[s] + 1)..Len(log[s]))]
      /\ faults < MaxFaults /\ faults' = faults + 1
      /\ UNCHANGED <<log, member, loop, awaits, view, pushed, source, size, batch, digested,
                     moves>>
  BY DEF StashThrows, Unread
<1>4. \A t \in Sources : cursor[t] <= cursor'[t]
  BY <1>1, <1>2
<1> HIDE DEF s
<1>5. TypeOK'
  <2>1. cursor' \in [Sources -> Nat]
    BY <1>1, <1>2
  <2>2. dropped' \in [Sources -> SUBSET Nat]
    BY <1>1, <1>3
  <2>3. wait' \in [Calls -> {"free", "measure", "wait", "grown", "reply"}]
    BY <1>3
  <2>4. faults' \in 0..MaxFaults
    BY <1>3
  <2> QED
    BY <1>3, <2>1, <2>2, <2>3, <2>4
<1>6. OneCallEach'
  BY <1>1, <1>3 DEF OneCallEach
<1>7. Passed'
  <2>1. \A d \in Calls : wait'[d] # "reply" => batch'[d] = {}
    BY <1>3 DEF Passed
  <2>2. \A t \in Sources : cursor'[t] <= Len(log'[t])
    BY <1>1, <1>2, <1>3 DEF Passed
  <2>3. ASSUME NEW t \in Sources PROVE 1..cursor[t] \subseteq 1..cursor'[t]
    <3>1. cursor[t] \in Nat /\ cursor'[t] \in Nat /\ cursor[t] <= cursor'[t]
      BY <1>4, <1>5
    <3> QED
      BY <3>1
  <2>4. \A d \in Calls : batch'[d] \subseteq 1..cursor'[source'[d]]
    BY <1>3, <2>3 DEF Passed
  <2>5. \A t \in Sources : \A i \in DOMAIN pushed'[t] : pushed'[t][i] \in 1..cursor'[t]
    BY <1>3, <2>3 DEF Passed
  <2> QED
    BY <2>1, <2>2, <2>4, <2>5 DEF Passed
<1>8. InOrder' /\ Newer' /\ Counted'
  BY <1>3 DEF InOrder, Newer, Counted
<1>9. ~Calm'
  BY <1>3 DEF Calm
<1>10. Accounted'
  <2> SUFFICES ASSUME NEW t \in Sources, NEW i \in 1..cursor'[t], log[t][i] = "peer"
               PROVE  \/ i \in PushedSet(t)' \cup digested'[t] \cup dropped'[t]
                      \/ \E d \in Calls : source'[d] = t /\ i \in batch'[d]
    BY <1>3 DEF Accounted
  <2>1. PushedSet(t)' = PushedSet(t) /\ dropped[t] \subseteq dropped'[t]
    BY <1>1, <1>3 DEF PushedSet
  <2>2. CASE i \in 1..cursor[t]
    <3>1. \/ i \in PushedSet(t) \cup digested[t] \cup dropped[t]
          \/ \E d \in Calls : source[d] = t /\ i \in batch[d]
      BY <2>2 DEF Accounted
    <3> QED
      BY <1>3, <2>1, <3>1
  <2>3. CASE i \notin 1..cursor[t]
    <3>1. t = s /\ i \in (cursor[s] + 1)..Len(log[s])
      BY <1>1, <1>2, <2>3
    <3> QED
      BY <1>1, <1>3, <3>1
  <2> QED
    BY <2>2, <2>3
<1>11. Digests'
  <2> SUFFICES ASSUME NEW t \in Sources, NEW i \in digested[t]
               PROVE  t # Inbox /\ i + Window <= cursor'[t]
    BY <1>3 DEF Digests
  <2>1. i \in Nat /\ t # Inbox /\ i + Window <= cursor[t]
    BY DEF Digests
  <2>2. cursor[t] \in Nat /\ cursor'[t] \in Nat /\ cursor[t] <= cursor'[t]
    BY <1>4, <1>5
  <2> QED
    BY <2>1, <2>2, WindowAssumption
<1> QED
  BY <1>5, <1>6, <1>7, <1>8, <1>9, <1>10, <1>11

LEMMA ReplyToNobodyKeeps == ASSUME IInv, NEW c \in Calls, ReplyToNobody(c) PROVE IInv'
<1> USE BoundAssumption, NobodyAssumption, TrafficAssumption
    DEF IInv, TypeOK, Sources, ReplyToNobody, busVars, pusherVars, callVars, historyVars, Freed, Fresh
<1>1. TypeOK'
  OBVIOUS
<1>2. OneCallEach'
  BY DEF OneCallEach
<1>3. Passed'
  BY DEF Passed
<1>4. InOrder'
  BY DEF InOrder
<1>5. Newer'
  BY DEF Newer, OneCallEach, Passed
<1>6. Counted'
  BY DEF Counted
<1>7. ASSUME Calm' PROVE Attended'
  <2>1. Calm /\ Attended
    BY <1>7 DEF Calm
  <2> QED
    BY <2>1 DEF Attended, OneCallEach, Passed
<1>8. Accounted'
  <2>1. \A t \in Sources : PushedSet(t)' = PushedSet(t)
    BY DEF PushedSet
  <2>2. \A t \in Sources : dropped[t] \subseteq dropped'[t]
    OBVIOUS
  <2>3. \A d \in Calls : d # c => source'[d] = source[d] /\ batch'[d] = batch[d]
    OBVIOUS
  <2>4. batch[c] \subseteq dropped'[source[c]]
    OBVIOUS
  <2>5. UNCHANGED <<log, cursor, digested>> /\ Accounted
    OBVIOUS
  <2> HIDE DEF IInv, TypeOK, ReplyToNobody
  <2> QED
    BY <2>1, <2>2, <2>3, <2>4, <2>5 DEF Accounted
<1>9. Digests'
  BY DEF Digests
<1> QED
  BY <1>1, <1>2, <1>3, <1>4, <1>5, <1>6, <1>7, <1>8, <1>9

LEMMA CallWaitKeeps == ASSUME IInv, NEW s \in Sources, NEW c \in Calls, CallWait(s, c) PROVE IInv'
<1> USE BoundAssumption, NobodyAssumption, TrafficAssumption
    DEF IInv, TypeOK, Sources, CallWait, busVars, pusherVars, callVars, historyVars, Freed, Fresh
<1>1. TypeOK'
  OBVIOUS
<1>2. OneCallEach'
  BY SMTT(30) DEF OneCallEach
<1>3. Passed'
  BY DEF Passed
<1>4. InOrder'
  BY DEF InOrder
<1>5. Newer'
  BY DEF Newer, OneCallEach, Passed
<1>6. Counted'
  BY DEF Counted
<1>7. ASSUME Calm' PROVE Attended'
  <2>1. Calm /\ Attended
    BY <1>7 DEF Calm
  <2> QED
    BY <2>1 DEF Attended, OneCallEach, Passed
<1>8. Accounted'
  <2>1. \A t \in Sources : PushedSet(t)' = PushedSet(t)
    BY DEF PushedSet
  <2>2. batch[c] = {} /\ UNCHANGED <<log, cursor, digested, dropped, batch>>
    BY DEF Passed
  <2>3. \A d \in Calls : d # c => source'[d] = source[d]
    OBVIOUS
  <2> QED
    BY <2>1, <2>2, <2>3 DEF Accounted
<1>9. Digests'
  BY DEF Digests
<1> QED
  BY <1>1, <1>2, <1>3, <1>4, <1>5, <1>6, <1>7, <1>8, <1>9

LEMMA ReceiveKeeps == ASSUME IInv, NEW s \in Sources, Receive(s) PROVE IInv'
<1> USE BoundAssumption, NobodyAssumption
    DEF IInv, TypeOK, Sources, busVars, pusherVars, callVars, historyVars
<1> DEFINE c == awaits[s]
<1>1. c \in Calls /\ c # None /\ wait[c] = "reply" /\ source[c] = s
  BY DEF Receive, OneCallEach
<1>2. /\ wait' = [wait EXCEPT ![c] = "free"]
      /\ source' = [source EXCEPT ![c] = Inbox]
      /\ size' = [size EXCEPT ![c] = 0]
      /\ batch' = [batch EXCEPT ![c] = {}]
      /\ awaits' = [awaits EXCEPT ![s] = None]
      /\ UNCHANGED <<log, cursor, member, view, digested, moves, faults>>
  BY DEF Receive, Freed
<1>3. \A t \in Sources : t # s /\ awaits[t] # None => awaits[t] # c
  BY <1>1 DEF OneCallEach
<1>4. /\ OneCallEach'
      /\ \A d \in Calls : wait'[d] # "reply" => batch'[d] = {}
      /\ \A t \in Sources : cursor'[t] <= Len(log'[t])
      /\ Counted'
  <2>1. \A t \in Sources : t # s => loop'[t] = loop[t]
    BY DEF Receive
  <2>2. OneCallEach'
    BY SMTT(30), <1>1, <1>2, <1>3, <2>1 DEF OneCallEach
  <2> QED
    BY <1>2, <2>2 DEF Passed, Counted
<1>5. \A d \in Calls : batch'[d] \subseteq 1..cursor'[source'[d]]
  BY <1>1, <1>2 DEF Passed
<1>6. CASE loop[s] = "cancelled"
  <2>1. /\ loop' = [loop EXCEPT ![s] = "off"]
        /\ dropped' = [dropped EXCEPT ![s] = @ \cup batch[c]]
        /\ pushed' = pushed
    BY <1>6 DEF Receive
  <2>2. TypeOK'
    BY <1>1, <1>2, <2>1
  <2>3. Passed'
    BY <1>2, <1>4, <1>5, <2>1 DEF Passed
  <2>4. InOrder'
    BY <2>1 DEF InOrder
  <2>5. Newer'
    BY <1>1, <1>2, <1>3, <2>1 DEF Newer
  <2>6. ~Calm'
    BY <1>2, <1>6 DEF Calm, Attended
  <2>7. Accounted'
    <3>1. \A t \in Sources : PushedSet(t)' = PushedSet(t) /\ dropped[t] \subseteq dropped'[t]
      BY <2>1 DEF PushedSet
    <3>2. \A d \in Calls : d # c => source'[d] = source[d] /\ batch'[d] = batch[d]
      BY <1>1, <1>2
    <3>3. batch[c] \subseteq dropped'[source[c]]
      BY <1>1, <2>1
    <3> HIDE DEF TypeOK, c
    <3> QED
      BY <1>2, <3>1, <3>2, <3>3 DEF Accounted
  <2>8. Digests'
    BY <1>2 DEF Digests
  <2> QED
    BY <1>4, <2>2, <2>3, <2>4, <2>5, <2>6, <2>7, <2>8
<1>7. CASE loop[s] # "cancelled"
  <2>1. UNCHANGED <<loop, dropped>>
        /\ pushed' = [pushed EXCEPT ![s] = pushed[s] \o Ordered(Admitted(s, c))]
    BY <1>7 DEF Receive
  <2> DEFINE new == Admitted(s, c)
             n == Cardinality(new)
             q == Ordered(new)
             old == pushed[s]
  <2>2. cursor[s] \in Nat /\ new \in SUBSET (1..cursor[s]) /\ new \subseteq batch[c]
    BY <1>1 DEF Passed, Admitted
  <2> HIDE DEF new
  <2>3. /\ n \in Nat
        /\ q \in [1..n -> new]
        /\ \A i, j \in 1..n : i < j => q[i] < q[j]
        /\ \A x \in new : \E i \in 1..n : q[i] = x
    <3> HIDE DEF IInv, TypeOK, c
    <3> QED
      BY ZenonT(30), <2>2, OrderedLists
  <2>4. /\ old \in Seq(Nat) /\ Len(old) \in Nat
        /\ \A i, j \in 1..Len(old) : i < j => old[i] < old[j]
        /\ \A i \in 1..Len(old) : old[i] \in 1..cursor[s]
        /\ \A i \in 1..Len(old) : \A x \in new : old[i] < x
    <3>1. /\ old \in Seq(Nat) /\ Len(old) \in Nat /\ DOMAIN old = 1..Len(old)
      OBVIOUS
    <3>2. \A i \in DOMAIN old : \A x \in new : old[i] < x
      BY <1>1, <2>2 DEF Newer
    <3>3. \A i \in DOMAIN old : old[i] \in 1..cursor[s]
      BY DEF Passed
    <3>4. \A i, j \in DOMAIN old : i < j => old[i] < old[j]
      BY DEF InOrder
    <3> QED
      BY <3>1, <3>2, <3>3, <3>4
  <2> HIDE DEF n, q
  <2>5. /\ q \in Seq(Nat) /\ Len(q) = n
        /\ \A i \in 1..n : q[i] \in new /\ q[i] \in 1..cursor[s]
    <3>1. \A i \in 1..n : q[i] \in new
      BY <2>3
    <3>2. \A x \in new : x \in Nat /\ x \in 1..cursor[s]
      BY <2>2
    <3>3. q \in [1..n -> Nat]
      BY <2>3, <3>1, <3>2
    <3> QED
      BY <2>3, <3>1, <3>2, <3>3
  <2> HIDE DEF old
  <2>6. /\ old \o q \in Seq(Nat) /\ DOMAIN (old \o q) = 1..(Len(old) + n)
        /\ \A i \in 1..(Len(old) + n) :
             (old \o q)[i] = IF i <= Len(old) THEN old[i] ELSE q[i - Len(old)]
    <3>1. old \in Seq(Nat) /\ q \in Seq(Nat) /\ Len(q) = n /\ Len(old) \in Nat /\ n \in Nat
      BY <2>3, <2>4, <2>5
    <3> HIDE DEF IInv, TypeOK, c
    <3>2. /\ old \o q \in Seq(Nat) /\ Len(old \o q) = Len(old) + Len(q)
          /\ \A i \in 1..(Len(old) + Len(q)) :
               (old \o q)[i] = IF i <= Len(old) THEN old[i] ELSE q[i - Len(old)]
      BY <3>1, ConcatProperties
    <3>3. DOMAIN (old \o q) = 1..Len(old \o q)
      BY <3>2
    <3> QED
      BY <3>1, <3>2, <3>3
  <2>7. pushed' = [pushed EXCEPT ![s] = old \o q]
    BY <2>1 DEF old, q, new
  <2>8. TypeOK'
    <3>1. pushed' \in [Sources -> Seq(Nat)]
      BY <2>6, <2>7
    <3>2. /\ wait' \in [Calls -> {"free", "measure", "wait", "grown", "reply"}]
          /\ source' \in [Calls -> Sources]
          /\ size' \in [Calls -> Nat]
      BY <1>1, <1>2
    <3>3. batch' \in [Calls -> SUBSET Nat] /\ awaits' \in [Sources -> Calls \cup {None}]
      BY <1>1, <1>2
    <3> QED
      BY <1>2, <2>1, <3>1, <3>2, <3>3
  <2>9. Passed'
    <3> SUFFICES ASSUME NEW t \in Sources, NEW i \in DOMAIN pushed'[t]
                 PROVE  pushed'[t][i] \in 1..cursor[t]
      BY <1>2, <1>4, <1>5 DEF Passed
    <3>1. CASE t # s
      BY <2>7, <3>1 DEF Passed
    <3>2. CASE t = s
      <4>1. pushed'[t] = old \o q /\ i \in 1..(Len(old) + n)
        BY <2>6, <2>7, <3>2
      <4> HIDE DEF IInv, TypeOK, c
      <4>2. CASE i <= Len(old)
        BY SMTT(30), <2>4, <2>6, <3>2, <4>1, <4>2
      <4>3. CASE i > Len(old)
        <5>1. i - Len(old) \in 1..n
          BY <2>3, <2>4, <4>1, <4>3
        <5>2. (old \o q)[i] = q[i - Len(old)]
          BY <2>4, <2>6, <4>1, <4>3
        <5> QED
          BY <2>5, <3>2, <4>1, <5>1, <5>2
      <4> QED
        BY SMTT(30), <2>3, <2>4, <4>1, <4>2, <4>3
    <3> QED
      BY <3>1, <3>2
  <2>10. InOrder'
    <3> SUFFICES ASSUME NEW t \in Sources, NEW i \in DOMAIN pushed'[t],
                        NEW j \in DOMAIN pushed'[t], i < j
                 PROVE  pushed'[t][i] < pushed'[t][j]
      BY DEF InOrder
    <3>1. CASE t # s
      BY <2>7, <3>1 DEF InOrder
    <3>2. CASE t = s
      <4>1. /\ pushed'[t] = old \o q
            /\ i \in 1..(Len(old) + n) /\ j \in 1..(Len(old) + n)
        BY <2>6, <2>7, <3>2
      <4> HIDE DEF IInv, TypeOK, c
      <4>2. CASE j <= Len(old)
        <5>1. i \in 1..Len(old) /\ j \in 1..Len(old)
          BY <2>3, <2>4, <4>1, <4>2
        <5> QED
          BY SMTT(30), <2>4, <2>6, <4>1, <4>2, <5>1
      <4>3. CASE i <= Len(old) /\ j > Len(old)
        <5>1. i \in 1..Len(old) /\ j - Len(old) \in 1..n
          BY SMTT(30), <2>3, <2>4, <4>1, <4>3
        <5>2. (old \o q)[i] = old[i] /\ (old \o q)[j] = q[j - Len(old)]
          BY <2>4, <2>6, <4>1, <4>3
        <5> QED
          BY <2>4, <2>5, <4>1, <5>1, <5>2
      <4>4. CASE i > Len(old)
        <5>1. i - Len(old) \in 1..n /\ j - Len(old) \in 1..n /\ i - Len(old) < j - Len(old)
          BY SMTT(30), <2>3, <2>4, <4>1, <4>4
        <5>2. (old \o q)[i] = q[i - Len(old)] /\ (old \o q)[j] = q[j - Len(old)]
          <6>1. ~(i <= Len(old)) /\ ~(j <= Len(old))
            BY <2>3, <2>4, <4>1, <4>4
          <6> QED
            BY <2>6, <4>1, <6>1
        <5> QED
          BY SMTT(30), <2>3, <4>1, <5>1, <5>2
      <4> QED
        <5>1. i \in Int /\ j \in Int /\ Len(old) \in Int
          BY <2>3, <2>4, <4>1
        <5> QED
          BY <4>2, <4>3, <4>4, <5>1
    <3> QED
      BY <3>1, <3>2
  <2>11. Newer'
    BY <1>1, <1>2, <1>3, <2>7 DEF Newer
  <2>12. ASSUME Calm' PROVE Attended'
    <3>1. Attended
      BY <1>2, <2>12 DEF Calm
    <3>2. /\ \A t \in Sources : loop'[t] # "cancelled"
          /\ \A t \in Rooms : loop'[t] = "on" => t \in member' /\ (view' # None => t \in view')
          /\ view' # None => view' \subseteq member'
      BY <1>2, <2>1, <3>1 DEF Attended
    <3>3. \A d \in Calls : wait'[d] # "free" => awaits'[source'[d]] = d
      BY <1>1, <1>2, <3>1 DEF Attended
    <3>4. \A t \in Sources : dropped'[t] = {}
      BY <2>1, <3>1 DEF Attended
    <3> QED
      BY <3>2, <3>3, <3>4 DEF Attended
  <2>13. Accounted'
    <3> SUFFICES ASSUME NEW t \in Sources, NEW i \in 1..cursor[t], log[t][i] = "peer"
                 PROVE  \/ i \in PushedSet(t)' \cup digested'[t] \cup dropped'[t]
                        \/ \E d \in Calls : source'[d] = t /\ i \in batch'[d]
      BY <1>2 DEF Accounted
    <3>1. \/ i \in PushedSet(t) \cup digested[t] \cup dropped[t]
          \/ \E d \in Calls : source[d] = t /\ i \in batch[d]
      BY DEF Accounted
    <3>2. CASE i \in PushedSet(t)
      <4>1. CASE t # s
        BY <2>7, <3>2, <4>1 DEF PushedSet
      <4>2. CASE t = s
        <5>1. PICK k \in DOMAIN old : old[k] = i
          BY <3>2, <4>2 DEF PushedSet, old
        <5>2. k \in 1..Len(old)
          BY <2>4, <5>1
        <5>3. k \in 1..(Len(old) + n) /\ (old \o q)[k] = i
          BY <2>3, <2>4, <2>6, <5>1, <5>2
        <5> QED
          BY <2>6, <2>7, <4>2, <5>3 DEF PushedSet
      <4> QED
        BY <4>1, <4>2
    <3>3. CASE i \in digested[t] \cup dropped[t]
      BY <1>2, <2>1, <3>3
    <3>4. ASSUME NEW d \in Calls, source[d] = t, i \in batch[d], d # c
          PROVE  source'[d] = t /\ i \in batch'[d]
      BY <1>2, <3>4
    <3>5. CASE source[c] = t /\ i \in batch[c]
      <4>1. t = s /\ i \in new
        BY <1>1, <3>5 DEF Admitted, new
      <4>2. PICK k \in 1..n : q[k] = i
        BY <2>3, <4>1
      <4>3. Len(old) + k \in 1..(Len(old) + n) /\ (old \o q)[Len(old) + k] = i
        BY SMTT(30), <2>3, <2>4, <2>6, <4>2
      <4> QED
        BY <2>6, <2>7, <4>1, <4>3 DEF PushedSet
    <3> QED
      BY <3>1, <3>2, <3>3, <3>4, <3>5
  <2>14. Digests'
    BY <1>2 DEF Digests
  <2> QED
    BY <1>4, <2>8, <2>9, <2>10, <2>11, <2>12, <2>13, <2>14
<1> QED
  BY <1>6, <1>7

LEMMA CallFailsKeeps == ASSUME IInv, NEW s \in Sources, CallFails(s) PROVE IInv'
<1> USE BoundAssumption, NobodyAssumption, TrafficAssumption
    DEF IInv, TypeOK, Sources, CallFails, busVars, pusherVars, callVars, historyVars, Freed, Fresh
<1>1. TypeOK'
  BY SMTT(30)
<1>2. OneCallEach'
  BY DEF OneCallEach
<1>3. Passed'
  BY DEF Passed
<1>4. InOrder'
  BY DEF InOrder
<1>5. Newer'
  BY DEF Newer, OneCallEach, Passed
<1>6. Counted'
  BY DEF Counted
<1>7. ASSUME Calm' PROVE Attended'
  <2>1. FALSE
    BY <1>7 DEF Calm
  <2> QED
    BY <2>1
<1>8. Accounted'
  BY AccountedStays
<1>9. Digests'
  BY DEF Digests
<1> QED
  BY <1>1, <1>2, <1>3, <1>4, <1>5, <1>6, <1>7, <1>8, <1>9

LEMMA LoopEndsKeeps == ASSUME IInv, NEW s \in Sources, LoopEnds(s) PROVE IInv'
<1> USE BoundAssumption, NobodyAssumption, TrafficAssumption
    DEF IInv, TypeOK, Sources, LoopEnds, busVars, pusherVars, callVars, historyVars, Freed, Fresh
<1>1. TypeOK'
  OBVIOUS
<1>2. OneCallEach'
  BY DEF OneCallEach
<1>3. Passed'
  BY DEF Passed
<1>4. InOrder'
  BY DEF InOrder
<1>5. Newer'
  BY DEF Newer, OneCallEach, Passed
<1>6. Counted'
  BY DEF Counted
<1>7. ASSUME Calm' PROVE Attended'
  <2>1. Calm /\ Attended
    BY <1>7 DEF Calm
  <2> QED
    BY <2>1 DEF Attended, OneCallEach, Passed
<1>8. Accounted'
  BY AccountedStays
<1>9. Digests'
  BY DEF Digests
<1> QED
  BY <1>1, <1>2, <1>3, <1>4, <1>5, <1>6, <1>7, <1>8, <1>9

LEMMA AskRoomsKeeps == ASSUME IInv, AskRooms PROVE IInv'
<1> USE BoundAssumption, NobodyAssumption, TrafficAssumption
    DEF IInv, TypeOK, Sources, AskRooms, busVars, pusherVars, callVars, historyVars, Freed, Fresh
<1>1. TypeOK'
  OBVIOUS
<1>2. OneCallEach'
  BY DEF OneCallEach
<1>3. Passed'
  BY DEF Passed
<1>4. InOrder'
  BY DEF InOrder
<1>5. Newer'
  BY DEF Newer, OneCallEach, Passed
<1>6. Counted'
  BY DEF Counted
<1>7. ASSUME Calm' PROVE Attended'
  <2>1. Calm /\ Attended
    BY <1>7 DEF Calm
  <2> QED
    BY <2>1 DEF Attended, OneCallEach, Passed
<1>8. Accounted'
  BY AccountedStays
<1>9. Digests'
  BY DEF Digests
<1> QED
  BY <1>1, <1>2, <1>3, <1>4, <1>5, <1>6, <1>7, <1>8, <1>9

LEMMA RefreshKeeps == ASSUME IInv, Refresh PROVE IInv'
<1> USE BoundAssumption, NobodyAssumption, TrafficAssumption
    DEF IInv, TypeOK, Sources, Refresh, busVars, pusherVars, callVars, historyVars, RefreshTo
<1>1. TypeOK'
  OBVIOUS
<1>2. OneCallEach'
  BY DEF OneCallEach
<1>3. Passed'
  BY DEF Passed
<1>4. InOrder'
  BY DEF InOrder
<1>5. Newer'
  BY DEF Newer, OneCallEach, Passed
<1>6. Counted'
  BY DEF Counted
<1>7. ASSUME Calm' PROVE Attended'
  <2>1. Attended
    BY <1>7 DEF Calm
  <2>2. \A s \in Rooms : loop'[s] = "on" => s \in member'
    BY <2>1 DEF Attended
  <2>3. \A s \in Sources : loop'[s] # "cancelled"
    BY <2>1 DEF Attended
  <2>4. UNCHANGED <<awaits, wait, source, dropped>> /\ view' = None
    OBVIOUS
  <2> QED
    BY <2>1, <2>2, <2>3, <2>4 DEF Attended
<1>8. Accounted'
  BY AccountedStays
<1>9. Digests'
  BY DEF Digests
<1> QED
  BY <1>1, <1>2, <1>3, <1>4, <1>5, <1>6, <1>7, <1>8, <1>9

LEMMA IInvNext == IInv /\ [Next]_vars => IInv'
<1> SUFFICES ASSUME IInv, [Next]_vars PROVE IInv'
  OBVIOUS
<1>1. ASSUME NEW c \in Calls, Serve(c) PROVE IInv'
  BY <1>1, MeasureKeeps, NoticeKeeps, ExpireKeeps, ReadKeeps, ReadFailsKeeps, StashThrowsKeeps,
     ReplyToNobodyKeeps DEF Serve
<1>2. ASSUME NEW s \in Sources, Loop(s) PROVE IInv'
  BY <1>2, CallWaitKeeps, ReceiveKeeps, CallFailsKeeps, LoopEndsKeeps DEF Loop
<1>3. CASE UNCHANGED vars
  BY <1>3
  DEF vars, busVars, pusherVars, callVars, historyVars, IInv, TypeOK, OneCallEach, Passed,
      InOrder, Newer, Counted, Calm, Attended, Accounted, Digests, PushedSet
<1> QED
  BY <1>1, <1>2, <1>3, PostKeeps, MoveKeeps, AskRoomsKeeps, RefreshKeeps DEF Next

LEMMA IInvAlways == Spec => []IInv
BY IInvInit, IInvNext, PTL DEF Spec

-----------------------------------------------------------------------------
(* The theorems                                                            *)

\* The logs, the loops and the calls have the types of their model.
THEOREM TypeAlways == Spec => []TypeOK
<1>1. IInv => TypeOK
  BY DEF IInv
<1> QED
  BY <1>1, IInvAlways, PTL

\* A loop of the remote pusher (scripts/coord-pusher.mjs) waits for a call of its
\* own about its own log, and is registered as long as it does: whatever a refresh
\* starts or cancels meanwhile, a log never gets a second loop.
THEOREM OneCallAlways == Spec => []OneCallEach
<1>1. IInv => OneCallEach
  BY DEF IInv
<1> QED
  BY <1>1, IInvAlways, PTL

\* The messages of a log are queued for the pane in log order and once each, even
\* while the server goes on with calls that the pusher gave up: what it has
\* queued the cursor has passed, and what is on its way to it is newer.
THEOREM InOrderAlways == Spec => []InOrder
<1>1. IInv => InOrder
  BY DEF IInv
<1> QED
  BY <1>1, IInvAlways, PTL

LEMMA IInvLost == IInv => NothingLost
BY DEF IInv, Calm, Attended, Accounted, Digests, NothingLost

\* wait_for_message moves the cursor before the pusher has the messages, past
\* those a room's window leaves to the digest, and even when the digest cannot
\* be written (src/tools.ts): whatever fails, a message for the pane that the
\* cursor has passed is queued, in a call, was older than the window of its read,
\* or was lost with that call or that read; and nothing is lost, and no call goes
\* on without its loop, while nothing fails and the agent leaves no room.
THEOREM NothingLostAlways == Spec => []NothingLost
BY IInvLost, IInvAlways, PTL

-----------------------------------------------------------------------------
(* Prune: the inductive invariant                                          *)

\* While the log is in time order, it holds the entries that no sweep removed,
\* in the order of their ids, and so does what a read saw of it.
InTimeOrder == \A i, j \in DOMAIN file : i <= j => file[i].ts <= file[j].ts
Numbered ==
  /\ Len(file) = appended - removals
  /\ \A i \in DOMAIN file : file[i].id = removals + i
  /\ swept = 1..removals
SeenNumbered == \A r \in Readers :
  /\ epoch[r] + Len(seen[r]) <= appended
  /\ \A i \in DOMAIN seen[r] : seen[r][i].id = epoch[r] + i

\* Of the entries removed, the cursor was shifted by all but those that a sweep
\* has yet to shift it by: each removed entry is due by one sweep at most.
Rest(due) == (1..removals) \ UNION {due[p] : p \in Sweeps}
Due(due) ==
  /\ due \in [Sweeps -> SUBSET (1..removals)]
  /\ \A p, q \in Sweeps : p # q => due[p] \cap due[q] = {}
  /\ \A p \in Sweeps : /\ Cardinality(due[p]) = gone[p]
                       /\ spc[p] # "adjust" => due[p] = {}
  /\ Cardinality(Rest(due)) = shifts
Accounts == \E due \in [Sweeps -> SUBSET (1..removals)] : Due(due)

\* The cursor, counted from the first entry ever appended, has passed what was
\* delivered, and nothing that was neither delivered nor swept.
CursorFits ==
  /\ delivered \subseteq 1..appended /\ delivered \subseteq 1..(shifts + offset)
  /\ 1..(shifts + offset) \subseteq delivered \cup swept
  /\ twice = {}

Line == [id : Nat, ts : Nat]
PruneTypes ==
  /\ clock \in Nat /\ stamp \in [Senders -> Nat \cup {Nothing}]
  /\ file \in Seq(Line) /\ offset \in Nat
  /\ rpc \in [Readers -> {"idle", "reading"}] /\ seen \in [Readers -> Seq(Line)]
  /\ epoch \in [Readers -> Nat]
  /\ spc \in [Sweeps -> {"idle", "rewrite", "write", "adjust"}]
  /\ cutoff \in [Sweeps -> 0..MaxTime] /\ gone \in [Sweeps -> Nat]
  /\ appended \in Nat /\ removals \in Nat /\ shifts \in Nat

PruneInv ==
  unordered \/ /\ PruneTypes /\ InTimeOrder /\ Numbered /\ SeenNumbered /\ Accounts
               /\ clash \/ CursorFits

-----------------------------------------------------------------------------
(* Prune: what a sweep keeps                                               *)

LEMMA IntervalSize ==
  ASSUME NEW k \in Nat, NEW l \in Nat, k <= l
  PROVE  IsFiniteSet((k + 1)..l) /\ Cardinality((k + 1)..l) = l - k
<1> DEFINE m == k + 1
<1>1. m \in Int /\ l \in Int /\ (m > l <=> k = l) /\ l - m + 1 = l - k
  OBVIOUS
<1> HIDE DEF m
<1>2. IsFiniteSet(m..l) /\ Cardinality(m..l) = IF m > l THEN 0 ELSE l - m + 1
  BY <1>1, FS_Interval
<1>3. Cardinality(m..l) = l - k
  BY <1>1, <1>2
<1> QED
  BY <1>2, <1>3 DEF m

\* Of a log in time order a sweep keeps the end.
LEMMA KeepsEnd ==
  ASSUME NEW s \in Seq(Line), NEW c \in Int,
         \A i, j \in DOMAIN s : i <= j => s[i].ts <= s[j].ts
  PROVE  \E k \in 0..Len(s) :
           /\ Kept(s, c) \in Seq(Line) /\ Len(Kept(s, c)) = Len(s) - k
           /\ \A n \in 1..(Len(s) - k) : Kept(s, c)[n] = s[k + n]
<1> DEFINE F == {i \in DOMAIN s : s[i].ts > c}
           L == Len(s)
           Nth(n) == CHOOSE i \in F : Cardinality({j \in F : j <= i}) = n
<1>1. L \in Nat /\ DOMAIN s = 1..L /\ \A i \in DOMAIN s : s[i] \in Line
  OBVIOUS
<1>2. \A i \in DOMAIN s : s[i].ts \in Nat
  BY <1>1 DEF Line
<1>3. PICK k \in 0..L : F = (k + 1)..L
  <2>1. CASE F = {}
    <3>1. L \in 0..L /\ F = (L + 1)..L
      BY <1>1, <2>1
    <3> QED
      BY <3>1
  <2>2. CASE F # {}
    <3>1. F \in SUBSET Nat
      BY <1>1
    <3> HIDE DEF F
    <3>2. PICK m \in F : \A i \in F : m <= i
      BY <2>2, <3>1, LeastNatural
    <3>3. m \in 1..L /\ s[m].ts > c
      BY <1>1 DEF F
    <3>4. ASSUME NEW i \in m..L  PROVE i \in F
      <4>1. i \in DOMAIN s /\ m \in DOMAIN s /\ s[m].ts <= s[i].ts
        BY <1>1, <3>3
      <4>2. s[i].ts > c
        BY <1>2, <3>3, <4>1
      <4> QED
        BY <4>1, <4>2 DEF F
    <3>5. \A i \in F : i \in m..L
      BY <1>1, <3>2, <3>3 DEF F
    <3>6. F = m..L
      BY <3>4, <3>5
    <3>7. m - 1 \in 0..L /\ F = ((m - 1) + 1)..L
      BY <1>1, <3>3, <3>6
    <3> QED
      BY <3>7
  <2> QED
    BY <2>1, <2>2
<1>4. Cardinality(F) = L - k
  <2>1. k \in Nat /\ k <= L
    BY <1>1
  <2> QED
    BY <1>1, <1>3, <2>1, IntervalSize
<1>5. ASSUME NEW n \in 1..(L - k)  PROVE Nth(n) = k + n
  <2>1. ASSUME NEW i \in F  PROVE Cardinality({j \in F : j <= i}) = i - k
    <3>1. i \in (k + 1)..L
      BY <1>3
    <3>2. {j \in F : j <= i} = (k + 1)..i
      BY <1>1, <1>3, <3>1
    <3>3. k \in Nat /\ i \in Nat /\ k <= i
      BY <3>1
    <3> QED
      BY <3>2, <3>3, IntervalSize
  <2> HIDE DEF F, L
  <2>2. k + n \in F
    BY <1>1, <1>3
  <2>3. \A i \in F : i \in Nat /\ (i - k = n <=> i = k + n)
    BY <1>1, <1>3
  <2>4. \A i \in F : Cardinality({j \in F : j <= i}) = n <=> i = k + n
    BY <2>1, <2>3
  <2> QED
    BY <2>2, <2>4
<1>6. Kept(s, c) = [n \in 1..Cardinality(F) |-> s[Nth(n)]]
  BY DEF Kept
<1>7. /\ Kept(s, c) = [n \in 1..(L - k) |-> s[k + n]]
  BY <1>4, <1>5, <1>6
<1>8. \A n \in 1..(L - k) : k + n \in DOMAIN s /\ s[k + n] \in Line
  <2>1. \A n \in 1..(L - k) : k + n \in 1..L
    <3> HIDE DEF L
    <3> QED
      BY <1>1, <1>3
  <2> QED
    BY <1>1, <2>1
<1>9. L - k \in Nat
  BY <1>1
<1> HIDE DEF L
<1>10. Kept(s, c) \in Seq(Line) /\ Len(Kept(s, c)) = L - k
  BY <1>7, <1>8, <1>9
<1>11. \A n \in 1..(L - k) : Kept(s, c)[n] = s[k + n]
  BY <1>7
<1> QED
  BY <1>3, <1>10, <1>11 DEF L

-----------------------------------------------------------------------------
(* Prune: which removed entries the cursor has yet to be shifted by        *)

LEMMA RestFinite ==
  ASSUME removals \in Nat, NEW due, Due(due)
  PROVE  /\ IsFiniteSet(1..removals) /\ Cardinality(1..removals) = removals
         /\ IsFiniteSet(Rest(due))
         /\ \A p \in Sweeps : IsFiniteSet(due[p])
<1>1. /\ IsFiniteSet((0 + 1)..removals)
      /\ Cardinality((0 + 1)..removals) = removals - 0
  BY IntervalSize
<1>2. IsFiniteSet(1..removals) /\ Cardinality(1..removals) = removals
  BY <1>1
<1>3. Rest(due) \in SUBSET (1..removals) /\ \A p \in Sweeps : due[p] \in SUBSET (1..removals)
  BY DEF Rest, Due
<1> QED
  BY <1>2, <1>3, FS_Subset

\* What one sweep is about to shift the cursor by was removed and not yet
\* shifted by.
LEMMA DueFits ==
  ASSUME removals \in Nat, shifts \in Nat, gone \in [Sweeps -> Nat], Accounts, NEW p \in Sweeps
  PROVE  shifts + gone[p] <= removals
<1>1. PICK due : Due(due)
  BY DEF Accounts
<1>2. IsFiniteSet(Rest(due)) /\ IsFiniteSet(due[p]) /\ Rest(due) \cap due[p] = {}
  BY <1>1, RestFinite DEF Rest
<1>3. Cardinality(Rest(due) \cup due[p]) = shifts + gone[p]
  <2>1. Cardinality(Rest(due) \cup due[p])
          = Cardinality(Rest(due)) + Cardinality(due[p]) - Cardinality({})
    BY <1>2, FS_Union
  <2>2. Cardinality({}) = 0 /\ Cardinality(Rest(due)) = shifts /\ Cardinality(due[p]) = gone[p]
    BY <1>1, FS_EmptySet DEF Due
  <2> QED
    BY <2>1, <2>2
<1>4. Rest(due) \cup due[p] \in SUBSET (1..removals)
  BY <1>1 DEF Rest, Due
<1> QED
  BY <1>1, <1>3, <1>4, RestFinite, FS_Subset

\* When no sweep is half done nothing is due.
LEMMA NothingDue ==
  ASSUME removals \in Nat, Accounts, \A p \in Sweeps : spc[p] # "adjust"
  PROVE  shifts = removals
<1>1. PICK due : Due(due)
  BY DEF Accounts
<1>2. Rest(due) = 1..removals
  BY <1>1 DEF Rest, Due
<1> QED
  BY <1>1, <1>2, RestFinite DEF Due

LEMMA DueStays ==
  ASSUME Accounts, UNCHANGED <<removals, shifts, gone>>,
         \A p \in Sweeps : spc'[p] # "adjust" => spc[p] # "adjust"
  PROVE  Accounts'
BY DEF Accounts, Due, Rest

LEMMA DueRemoved ==
  ASSUME PruneTypes, Accounts, NEW p \in Sweeps, NEW r \in Nat, spc[p] = "write",
         removals' = removals + r, shifts' = shifts,
         gone' = [gone EXCEPT ![p] = r], spc' = [spc EXCEPT ![p] = "adjust"]
  PROVE  Accounts'
<1>0. PICK R \in Nat : R = removals
  BY DEF PruneTypes
<1> DEFINE I == (R + 1)..(R + r)
<1>1. PICK due : Due(due)
  BY DEF Accounts
<1> DEFINE next == [due EXCEPT ![p] = I]
<1>2. R \in Nat /\ due \in [Sweeps -> SUBSET (1..R)] /\ due[p] = {}
  BY <1>0, <1>1 DEF Due, PruneTypes
<1>3. Cardinality(I) = r
  <2>1. Cardinality((R + 1)..(R + r)) = (R + r) - R
    BY <1>2, IntervalSize
  <2> QED
    BY <1>2, <2>1
<1>4. I \subseteq 1..(R + r) /\ 1..R \subseteq 1..(R + r) /\ I \cap (1..R) = {}
      /\ (1..(R + r)) \ I = 1..R
  BY <1>2
<1> HIDE DEF I
<1>5. next[p] = I /\ \A q \in Sweeps \ {p} : next[q] = due[q]
  BY <1>2
<1>6. next \in [Sweeps -> SUBSET (1..(R + r))]
  BY <1>2, <1>4
<1>7. ASSUME NEW q \in Sweeps, NEW u \in Sweeps, q # u  PROVE next[q] \cap next[u] = {}
  <2>1. due[q] \cap due[u] = {} /\ due[q] \subseteq 1..R /\ due[u] \subseteq 1..R
    BY <1>1, <1>2, <1>7 DEF Due
  <2> QED
    BY <1>4, <1>5, <1>7, <2>1
<1>8. ASSUME NEW q \in Sweeps
      PROVE  Cardinality(next[q]) = gone'[q] /\ (spc'[q] # "adjust" => next[q] = {})
  <2>1. Cardinality(due[q]) = gone[q] /\ (spc[q] # "adjust" => due[q] = {})
    BY <1>1 DEF Due
  <2>2. CASE q = p
    BY <1>3, <1>5, <2>2 DEF PruneTypes
  <2>3. CASE q # p
    BY <1>5, <2>1, <2>3 DEF PruneTypes
  <2> QED
    BY <2>2, <2>3
<1>9. (1..(R + r)) \ UNION {next[q] : q \in Sweeps} = (1..R) \ UNION {due[q] : q \in Sweeps}
  <2>1. \A i : (\E q \in Sweeps : i \in next[q]) <=> i \in I \/ \E q \in Sweeps : i \in due[q]
    BY <1>2, <1>5
  <2>2. \A i \in I : i \in 1..(R + r) /\ i \notin 1..R
    BY <1>4
  <2>3. \A i : i \in 1..(R + r) /\ i \notin I <=> i \in 1..R
    BY <1>4
  <2>4. ASSUME NEW i
        PROVE  i \in (1..(R + r)) \ UNION {next[q] : q \in Sweeps}
                 <=> i \in (1..R) \ UNION {due[q] : q \in Sweeps}
    BY <2>1, <2>2, <2>3
  <2> QED
    BY <2>4
<1>10. Rest(next)' = Rest(due)
  BY <1>0, <1>9 DEF Rest
<1>11. Due(next)'
  BY <1>0, <1>1, <1>6, <1>7, <1>8, <1>10 DEF Due
<1> QED
  BY <1>0, <1>6, <1>11 DEF Accounts

LEMMA DueShifted ==
  ASSUME PruneTypes, Accounts, NEW p \in Sweeps, removals' = removals,
         shifts' = shifts + gone[p], gone' = [gone EXCEPT ![p] = 0],
         spc' = [spc EXCEPT ![p] = "idle"]
  PROVE  Accounts'
<1>1. PICK due : Due(due)
  BY DEF Accounts
<1> DEFINE next == [due EXCEPT ![p] = {}]
<1>2. /\ removals \in Nat /\ due \in [Sweeps -> SUBSET (1..removals)]
      /\ next[p] = {} /\ \A q \in Sweeps \ {p} : next[q] = due[q]
      /\ next \in [Sweeps -> SUBSET (1..removals)]
  BY <1>1 DEF Due, PruneTypes
<1>3. \A q, u \in Sweeps : q # u => next[q] \cap next[u] = {}
  BY <1>1, <1>2 DEF Due
<1>4. ASSUME NEW q \in Sweeps
      PROVE  Cardinality(next[q]) = gone'[q] /\ (spc'[q] # "adjust" => next[q] = {})
  <2>1. CASE q = p
    BY <1>2, <2>1, FS_EmptySet DEF PruneTypes
  <2>2. CASE q # p
    BY <1>1, <1>2, <2>2 DEF PruneTypes, Due
  <2> QED
    BY <2>1, <2>2
<1>5. Rest(next)' = Rest(due) \cup due[p]
  <2>1. \A i : (\E q \in Sweeps : i \in due[q])
                 <=> (\E q \in Sweeps : i \in next[q]) \/ i \in due[p]
    BY <1>2
  <2>2. \A i \in due[p] : i \in 1..removals /\ \A q \in Sweeps : i \notin next[q]
    BY <1>1, <1>2 DEF Due
  <2>3. ASSUME NEW i  PROVE i \in Rest(next)' <=> i \in Rest(due) \/ i \in due[p]
    BY <2>1, <2>2 DEF Rest
  <2> QED
    BY <2>3
<1>6. Cardinality(Rest(due) \cup due[p]) = shifts + gone[p]
  <2>1. IsFiniteSet(Rest(due)) /\ IsFiniteSet(due[p]) /\ Rest(due) \cap due[p] = {}
    BY <1>1, <1>2, RestFinite DEF Rest
  <2>2. Cardinality(Rest(due) \cup due[p])
          = Cardinality(Rest(due)) + Cardinality(due[p]) - Cardinality({})
    BY <2>1, FS_Union
  <2>3. Cardinality({}) = 0 /\ Cardinality(Rest(due)) = shifts /\ Cardinality(due[p]) = gone[p]
    BY <1>1, FS_EmptySet DEF Due
  <2> QED
    BY <2>2, <2>3 DEF PruneTypes
<1>7. Due(next)'
  BY <1>2, <1>3, <1>4, <1>5, <1>6 DEF Due
<1> QED
  BY <1>2, <1>7 DEF Accounts

-----------------------------------------------------------------------------
(* Prune: the steps                                                        *)

\* A step that touches neither the log nor the cursor nor a snapshot.
LEMMA PruneStays ==
  ASSUME PruneInv, ~unordered, PruneTypes',
         UNCHANGED <<file, offset, readVars, gone, appended, ghost>>,
         \A p \in Sweeps : spc'[p] # "adjust" => spc[p] # "adjust"
  PROVE  PruneInv'
<1> USE DEF ghost, readVars
<1>1. InTimeOrder' /\ Numbered' /\ SeenNumbered'
  BY DEF PruneInv, InTimeOrder, Numbered, SeenNumbered
<1>2. Accounts'
  BY DueStays DEF PruneInv
<1>3. clash' \/ CursorFits'
  BY DEF PruneInv, CursorFits
<1> QED
  BY <1>1, <1>2, <1>3 DEF PruneInv

LEMMA AppendKeepsPrune ==
  ASSUME PruneInv, NEW s \in Senders, AppendEntry(s), ~unordered'  PROVE PruneInv'
<1> DEFINE L == Len(file)
           e == [id |-> appended + 1, ts |-> stamp[s]]
<1>1. /\ PruneTypes /\ InTimeOrder /\ Numbered /\ SeenNumbered /\ Accounts
      /\ clash \/ CursorFits
      /\ \A i \in DOMAIN file : ~(file[i].ts > stamp[s])
      /\ stamp[s] \in Nat
  BY DEF PruneInv, AppendEntry, PruneTypes
<1>2. /\ L \in Nat /\ DOMAIN file = 1..L
      /\ e \in Line /\ e.id = appended + 1 /\ e.ts = stamp[s]
      /\ \A i \in DOMAIN file : file[i].ts \in Nat
  <2>1. \A i \in DOMAIN file : file[i] \in Line
    BY <1>1 DEF PruneTypes
  <2>2. L \in Nat /\ DOMAIN file = 1..L
    BY <1>1 DEF PruneTypes
  <2>3. e \in Line /\ e.id = appended + 1 /\ e.ts = stamp[s]
    BY <1>1 DEF PruneTypes, Line
  <2> QED
    BY <2>1, <2>2, <2>3 DEF Line
<1> HIDE DEF e, L
<1>3. /\ file' \in Seq(Line) /\ Len(file') = L + 1 /\ file'[L + 1] = e
      /\ \A i \in 1..L : file'[i] = file[i]
  BY <1>1, <1>2, AppendProperties DEF AppendEntry, PruneTypes, e, L
<1>4. PruneTypes'
  BY <1>1, <1>3 DEF AppendEntry, PruneTypes, readVars, sweepVars
<1>5. InTimeOrder'
  <2> SUFFICES ASSUME NEW i \in 1..(L + 1), NEW j \in 1..(L + 1), i <= j
               PROVE  file'[i].ts <= file'[j].ts
    BY <1>3 DEF InTimeOrder
  <2>1. CASE j \in 1..L
    BY SMTT(30), <1>1, <1>2, <1>3, <2>1 DEF InTimeOrder
  <2>2. CASE j = L + 1 /\ i \in 1..L
    BY <1>1, <1>2, <1>3, <2>2
  <2>3. CASE j = L + 1 /\ i = L + 1
    BY <1>1, <1>2, <1>3, <2>3
  <2> QED
    BY <1>2, <2>1, <2>2, <2>3
<1>6. Numbered'
  <2>1. /\ L = appended - removals /\ appended' = appended + 1 /\ removals' = removals
        /\ swept' = swept /\ appended \in Nat /\ removals \in Nat
    BY <1>1 DEF Numbered, AppendEntry, PruneTypes, L
  <2>2. ASSUME NEW i \in 1..(L + 1)  PROVE file'[i].id = removals + i
    <3>1. CASE i \in 1..L
      BY <1>1, <1>2, <1>3, <3>1 DEF Numbered
    <3>2. CASE i = L + 1
      BY <1>2, <1>3, <2>1, <3>2
    <3> QED
      BY <1>2, <3>1, <3>2
  <2> QED
    BY SMTT(30), <1>1, <1>3, <2>1, <2>2 DEF Numbered
<1>7. SeenNumbered'
  BY <1>1 DEF SeenNumbered, AppendEntry, readVars, PruneTypes
<1>8. Accounts'
  BY <1>1, DueStays DEF AppendEntry, sweepVars
<1>9. clash' \/ CursorFits'
  BY <1>1 DEF CursorFits, AppendEntry, PruneTypes
<1> QED
  BY <1>4, <1>5, <1>6, <1>7, <1>8, <1>9 DEF PruneInv

LEMMA SnapshotKeepsPrune ==
  ASSUME PruneInv, ~unordered, NEW r \in Readers, Snapshot(r)  PROVE PruneInv'
<1> USE DEF senderVars, fileVars, sweepVars, ghost
<1>1. /\ PruneTypes /\ InTimeOrder /\ Numbered /\ SeenNumbered /\ Accounts
      /\ clash \/ CursorFits
  BY DEF PruneInv
<1>2. PruneTypes'
  <2>1. <<>> \in Seq(Line)
    BY EmptySeq
  <2> QED
    BY <1>1, <2>1 DEF Snapshot, PruneTypes
<1>3. InTimeOrder' /\ Numbered'
  BY <1>1 DEF InTimeOrder, Numbered, Snapshot
<1>4. SeenNumbered'
  <2>1. /\ \A q \in Readers \ {r} : seen'[q] = seen[q] /\ epoch'[q] = epoch[q]
        /\ seen'[r] \in {<<>>, file} /\ epoch'[r] = removals /\ appended' = appended
    BY <1>1 DEF Snapshot, PruneTypes
  <2>2. Len(<<>>) = 0 /\ DOMAIN <<>> = {}
    BY EmptySeq
  <2>3. /\ removals + Len(file) = appended /\ removals + 0 <= appended
        /\ \A i \in DOMAIN file : file[i].id = removals + i
    BY <1>1 DEF Numbered, PruneTypes
  <2>4. removals + Len(seen'[r]) <= appended
    <3>1. appended \in Nat
      BY <1>1 DEF PruneTypes
    <3> QED
      BY <2>1, <2>2, <2>3, <3>1
  <2>5. \A i \in DOMAIN seen'[r] : seen'[r][i].id = removals + i
    BY <2>1, <2>2, <2>3
  <2> QED
    BY <1>1, <2>1, <2>4, <2>5 DEF SeenNumbered
<1>5. Accounts'
  BY <1>1, DueStays DEF Snapshot
<1>6. clash' \/ CursorFits'
  BY <1>1 DEF CursorFits, Snapshot
<1> QED
  BY <1>2, <1>3, <1>4, <1>5, <1>6 DEF PruneInv

\* A read that meets the cursor on its snapshot's side of the sweeps takes the
\* entries between the cursor and the end of the snapshot.
LEMMA CommitKeepsPrune ==
  ASSUME PruneInv, ~unordered, NEW r \in Readers, Commit(r)  PROVE PruneInv'
<1> USE DEF senderVars, sweepVars
<1>1. /\ PruneTypes /\ InTimeOrder /\ Numbered /\ SeenNumbered /\ Accounts
      /\ clash \/ CursorFits
  BY DEF PruneInv
<1>0. PICK b : b = Slice(seen[r], offset)
  OBVIOUS
<1> DEFINE n == Len(seen[r])
<1>2. /\ seen[r] \in Seq(Line) /\ offset \in Nat /\ n \in Nat /\ DOMAIN seen[r] = 1..n
      /\ epoch[r] \in Nat
  BY <1>1 DEF PruneTypes
<1>3. /\ b \in Seq(Line) /\ Len(b) \in Nat /\ DOMAIN b = 1..Len(b)
      /\ Len(b) = IF offset + 1 <= n THEN n - offset ELSE 0
      /\ \A i \in 1..Len(b) : offset + i \in 1..n /\ b[i] = seen[r][offset + i]
  <2>1. ASSUME NEW s \in Seq(Line), NEW o \in Nat, NEW x, x = SubSeq(s, o + 1, Len(s))
        PROVE  /\ x \in Seq(Line) /\ Len(x) \in Nat /\ DOMAIN x = 1..Len(x)
               /\ Len(x) = IF o + 1 <= Len(s) THEN Len(s) - o ELSE 0
               /\ \A i \in 1..Len(x) : o + i \in 1..Len(s) /\ x[i] = s[o + i]
    <3> DEFINE m == o + 1
               l == Len(s)
    <3>1. l \in Nat /\ m \in Int /\ \A i \in m..l : s[i] \in Line
      BY ElementOfSeq
    <3>2. /\ x \in Seq(Line) /\ Len(x) = IF m <= l THEN l - m + 1 ELSE 0
          /\ \A i \in 1..(l - m + 1) : x[i] = s[m + i - 1]
      BY <2>1, <3>1, SubSeqProperties
    <3> HIDE DEF l
    <3>3. Len(x) = IF o + 1 <= l THEN l - o ELSE 0
      BY <3>1, <3>2
    <3>4. ASSUME NEW i \in 1..Len(x)
          PROVE  o + i \in 1..l /\ i \in 1..(l - m + 1) /\ m + i - 1 = o + i
      BY <3>1, <3>3
    <3>5. \A i \in 1..Len(x) : o + i \in 1..l /\ x[i] = s[o + i]
      BY <3>2, <3>4
    <3> QED
      BY <3>2, <3>3, <3>5 DEF l
  <2> QED
    BY <1>0, <1>2, <2>1 DEF Slice
<1>4. /\ offset' = offset + Len(b) /\ delivered' = delivered \cup Ids(b)
      /\ twice' = twice \cup (delivered \cap Ids(b))
      /\ clash' = (clash \/ epoch[r] # shifts)
  BY <1>0 DEF Commit
<1> HIDE DEF n
<1>5. PruneTypes'
  <2>1. <<>> \in Seq(Line)
    BY EmptySeq
  <2> QED
    BY <1>1, <1>3, <1>4, <2>1 DEF Commit, PruneTypes
<1>6. InTimeOrder' /\ Numbered'
  BY <1>1 DEF InTimeOrder, Numbered, Commit
<1>7. SeenNumbered'
  <2>1. Len(<<>>) = 0 /\ DOMAIN <<>> = {}
    BY EmptySeq
  <2>2. /\ \A q \in Readers \ {r} : seen'[q] = seen[q] /\ epoch'[q] = epoch[q]
        /\ seen'[r] = <<>> /\ epoch'[r] = 0 /\ appended' = appended /\ appended \in Nat
    BY <1>1 DEF Commit, PruneTypes
  <2> QED
    BY <1>1, <2>1, <2>2 DEF SeenNumbered
<1>8. Accounts'
  BY <1>1, DueStays DEF Commit
<1>9. ASSUME ~clash'  PROVE CursorFits'
  <2>1. CursorFits /\ epoch[r] = shifts /\ shifts \in Nat /\ appended \in Nat
    BY <1>1, <1>4, <1>9 DEF PruneTypes
  <2>2. UNCHANGED <<shifts, swept, appended>>
    BY DEF Commit
  <2>3. \A i \in 1..Len(b) : b[i].id = shifts + offset + i
    <3> SUFFICES ASSUME NEW i \in 1..Len(b)  PROVE b[i].id = shifts + offset + i
      OBVIOUS
    <3>1. offset + i \in 1..n /\ b[i] = seen[r][offset + i]
      BY <1>3
    <3>2. seen[r][offset + i].id = epoch[r] + (offset + i)
      BY <1>1, <1>2, <3>1 DEF SeenNumbered
    <3> QED
      BY <1>2, <2>1, <3>1, <3>2
  <2>4. shifts + n <= appended
    BY <1>1, <2>1 DEF SeenNumbered, n
  <2>5. Ids(b) = (shifts + offset + 1)..(shifts + offset + Len(b))
    <3>1. Ids(b) = {b[i].id : i \in 1..Len(b)}
      BY <1>3 DEF Ids
    <3>2. ASSUME NEW m \in (shifts + offset + 1)..(shifts + offset + Len(b))
          PROVE  \E i \in 1..Len(b) : b[i].id = m
      <4>1. m - (shifts + offset) \in 1..Len(b)
        BY <1>2, <1>3, <2>1
      <4>2. b[m - (shifts + offset)].id = shifts + offset + (m - (shifts + offset))
        BY <2>3, <4>1
      <4> QED
        BY <1>2, <2>1, <4>1, <4>2
    <3>3. \A i \in 1..Len(b) : b[i].id \in (shifts + offset + 1)..(shifts + offset + Len(b))
      BY <1>2, <1>3, <2>1, <2>3
    <3> QED
      BY <3>1, <3>2, <3>3
  <2>6. \A m \in Ids(b) : m <= appended
    <3>1. Len(b) = 0 \/ offset + Len(b) = n
      BY <1>2, <1>3
    <3> QED
      BY <1>2, <1>3, <2>1, <2>4, <2>5, <3>1
  <2>7. delivered' \subseteq 1..appended' /\ delivered' \subseteq 1..(shifts' + offset')
    <3>1. ASSUME NEW m \in delivered  PROVE m \in 1..appended /\ m \in 1..(shifts' + offset')
      BY <1>2, <1>3, <1>4, <2>1, <2>2 DEF CursorFits
    <3>2. ASSUME NEW m \in Ids(b)  PROVE m \in 1..appended /\ m \in 1..(shifts' + offset')
      BY <1>2, <1>3, <1>4, <2>1, <2>2, <2>5, <2>6
    <3> QED
      BY <1>4, <2>2, <3>1, <3>2
  <2>8. 1..(shifts' + offset') \subseteq delivered' \cup swept'
    BY <1>2, <1>3, <1>4, <2>1, <2>2, <2>5 DEF CursorFits
  <2>9. twice' = {}
    <3>1. delivered \cap Ids(b) = {}
      BY <1>2, <1>3, <2>1, <2>5 DEF CursorFits
    <3> QED
      BY <1>4, <2>1, <3>1 DEF CursorFits
  <2> QED
    BY <2>7, <2>8, <2>9 DEF CursorFits
<1> QED
  BY <1>5, <1>6, <1>7, <1>8, <1>9 DEF PruneInv

\* What a sweep removes of a log in time order is its beginning.
LEMMA RewriteKeepsPrune ==
  ASSUME PruneInv, ~unordered, NEW p \in Sweeps, Rewrite(p)  PROVE PruneInv'
<1> USE DEF senderVars, readVars
<1>1. /\ PruneTypes /\ InTimeOrder /\ Numbered /\ SeenNumbered /\ Accounts
      /\ clash \/ CursorFits
  BY DEF PruneInv
<1>2. PICK L \in Nat, R \in Nat : /\ L = Len(file) /\ R = removals
                                  /\ DOMAIN file = 1..L /\ L = appended - R
  BY <1>1 DEF PruneTypes, Numbered
<1>3. cutoff[p] \in Int /\ file \in Seq(Line)
  BY <1>1, PruneAssumption DEF PruneTypes
<1>4. PICK k \in 0..L : /\ Kept(file, cutoff[p]) \in Seq(Line)
                        /\ Len(Kept(file, cutoff[p])) = L - k
                        /\ \A n \in 1..(L - k) : Kept(file, cutoff[p])[n] = file[k + n]
  <2>1. \A i, j \in DOMAIN file : i <= j => file[i].ts <= file[j].ts
    BY <1>1 DEF InTimeOrder
  <2>2. \E k \in 0..Len(file) :
           /\ Kept(file, cutoff[p]) \in Seq(Line)
           /\ Len(Kept(file, cutoff[p])) = Len(file) - k
           /\ \A n \in 1..(Len(file) - k) : Kept(file, cutoff[p])[n] = file[k + n]
    BY <1>3, <2>1, KeepsEnd
  <2> QED
    BY <1>2, <2>2
<1>5. /\ file' = Kept(file, cutoff[p])
      /\ removals' = R + k /\ gone' = [gone EXCEPT ![p] = k]
      /\ swept' = swept \cup (Ids(file) \ Ids(file'))
      /\ spc[p] = "write" /\ spc' = [spc EXCEPT ![p] = "adjust"]
      /\ UNCHANGED <<senderVars, offset, readVars, cutoff, appended, delivered, twice,
                     shifts, clash, unordered>>
  <2>1. L - (L - k) = k
    BY <1>2
  <2> QED
    BY <1>2, <1>4, <2>1 DEF Rewrite, WriteBack
<1>6. /\ file' \in Seq(Line) /\ Len(file') = L - k /\ DOMAIN file' = 1..(L - k)
      /\ \A n \in 1..(L - k) : k + n \in 1..L /\ file'[n] = file[k + n]
  <2>1. \A n \in 1..(L - k) : k + n \in 1..L
    BY <1>2
  <2> QED
    BY <1>4, <1>5, <2>1
<1>7. PruneTypes'
  BY <1>1, <1>2, <1>5, <1>6 DEF PruneTypes
<1>8. InTimeOrder'
  <2> SUFFICES ASSUME NEW i \in 1..(L - k), NEW j \in 1..(L - k), i <= j
               PROVE  file[k + i].ts <= file[k + j].ts
    BY <1>6 DEF InTimeOrder
  <2>1. k + i <= k + j
    BY <1>2
  <2> QED
    BY <1>1, <1>2, <1>6, <2>1 DEF InTimeOrder
<1>9. Numbered'
  <2>1. Len(file') = appended' - removals'
    BY <1>1, <1>2, <1>5, <1>6 DEF PruneTypes
  <2>2. ASSUME NEW n \in 1..(L - k)  PROVE file'[n].id = removals' + n
    <3>1. k + n \in 1..L /\ file'[n] = file[k + n]
      BY <1>6
    <3>2. file[k + n].id = R + (k + n)
      BY <1>1, <1>2, <3>1 DEF Numbered
    <3> QED
      BY <1>2, <1>5, <3>1, <3>2
  <2>3. Ids(file) = (R + 1)..(R + L)
    <3>1. Ids(file) = {file[i].id : i \in 1..L}
      BY <1>2 DEF Ids
    <3>2. \A i \in 1..L : file[i].id = R + i
      BY <1>1, <1>2 DEF Numbered
    <3>3. \A m \in (R + 1)..(R + L) : m - R \in 1..L /\ m = R + (m - R)
      BY <1>2
    <3>4. \A i \in 1..L : R + i \in (R + 1)..(R + L)
      BY <1>2
    <3> QED
      BY <3>1, <3>2, <3>3, <3>4
  <2>4. Ids(file') = (R + k + 1)..(R + L)
    <3>1. Ids(file') = {file'[i].id : i \in 1..(L - k)}
      BY <1>6 DEF Ids
    <3>2. \A i \in 1..(L - k) : file'[i].id = R + k + i
      BY <1>5, <2>2
    <3>3. \A m \in (R + k + 1)..(R + L) : m - (R + k) \in 1..(L - k) /\ m = R + k + (m - (R + k))
      BY <1>2
    <3>4. \A i \in 1..(L - k) : R + k + i \in (R + k + 1)..(R + L)
      BY <1>2
    <3>5. \A m \in (R + k + 1)..(R + L) : \E i \in 1..(L - k) : file'[i].id = m
      BY <3>2, <3>3
    <3>6. \A i \in 1..(L - k) : file'[i].id \in (R + k + 1)..(R + L)
      BY <3>2, <3>4
    <3> QED
      BY <3>1, <3>5, <3>6
  <2>5. swept' = 1..removals'
    <3>1. swept = 1..R
      BY <1>1, <1>2 DEF Numbered
    <3>2. 1..R \cup (((R + 1)..(R + L)) \ ((R + k + 1)..(R + L))) = 1..(R + k)
      BY <1>2
    <3> QED
      BY <1>5, <2>3, <2>4, <3>1, <3>2
  <2> QED
    BY <1>6, <2>1, <2>2, <2>5 DEF Numbered
<1>10. SeenNumbered'
  BY <1>1, <1>5 DEF SeenNumbered
<1>11. Accounts'
  <2>1. k \in Nat
    BY <1>2
  <2> QED
    BY <1>1, <1>2, <1>5, <2>1, DueRemoved
<1>12. clash' \/ CursorFits'
  BY <1>1, <1>5 DEF CursorFits
<1> QED
  BY <1>7, <1>8, <1>9, <1>10, <1>11, <1>12 DEF PruneInv

\* The cursor moves back with the entries, or stops where the log begins; what
\* it then passes was swept.
LEMMA AdjustKeepsPrune ==
  ASSUME PruneInv, ~unordered, NEW p \in Sweeps, Adjust(p)  PROVE PruneInv'
<1> USE DEF senderVars, readVars
<1>1. /\ PruneTypes /\ InTimeOrder /\ Numbered /\ SeenNumbered /\ Accounts
      /\ clash \/ CursorFits
  BY DEF PruneInv
<1>2. PICK g \in Nat : g = gone[p]
  BY <1>1 DEF PruneTypes
<1>3. /\ shifts' = shifts + g /\ gone' = [gone EXCEPT ![p] = 0]
      /\ spc' = [spc EXCEPT ![p] = "idle"] /\ cutoff' = [cutoff EXCEPT ![p] = 0]
      /\ offset' = IF 0 >= offset - g THEN 0 ELSE offset - g
      /\ UNCHANGED <<senderVars, file, hollow, readVars, appended, delivered, twice, swept,
                     removals, clash, unordered>>
  BY <1>2 DEF Adjust, AdjustDone, Larger
<1>4. shifts \in Nat /\ offset \in Nat /\ removals \in Nat
  BY <1>1 DEF PruneTypes
<1>5. PruneTypes'
  <2>1. offset' \in Nat /\ shifts' \in Nat
    BY <1>3, <1>4
  <2>2. 0 \in 0..MaxTime
    BY PruneAssumption
  <2> QED
    BY <1>1, <1>3, <2>1, <2>2 DEF PruneTypes
<1>6. InTimeOrder' /\ Numbered' /\ SeenNumbered'
  BY <1>1, <1>3 DEF InTimeOrder, Numbered, SeenNumbered
<1>7. Accounts'
  BY <1>1, <1>2, <1>3, DueShifted
<1>8. ASSUME ~clash'  PROVE CursorFits'
  <2>1. CursorFits
    BY <1>1, <1>3, <1>8
  <2>2. shifts + g <= removals
    BY <1>1, <1>2, <1>4, DueFits DEF PruneTypes
  <2>3. /\ shifts + offset <= shifts' + offset'
        /\ \A i \in 1..(shifts' + offset') : i \in 1..(shifts + offset) \/ i \in 1..removals
    BY <1>3, <1>4, <2>2
  <2>4. swept = 1..removals
    BY <1>1 DEF Numbered
  <2>5. delivered \subseteq 1..(shifts' + offset')
    <3>1. 1..(shifts + offset) \subseteq 1..(shifts' + offset')
      BY <1>3, <1>4, <2>3
    <3> QED
      BY <2>1, <3>1 DEF CursorFits
  <2> QED
    BY <1>3, <2>1, <2>3, <2>4, <2>5 DEF CursorFits
<1> QED
  BY <1>5, <1>6, <1>7, <1>8 DEF PruneInv

LEMMA PruneInvNext == PruneInv /\ [PruneNext]_pruneVars => PruneInv'
<1> SUFFICES ASSUME PruneInv, [PruneNext]_pruneVars, ~unordered'  PROVE PruneInv'
  BY DEF PruneInv
<1> USE PruneAssumption DEF senderVars, fileVars, readVars, sweepVars
<1>1. CASE Tick
  <2>1. ~unordered /\ PruneTypes'
    BY <1>1 DEF Tick, PruneInv, PruneTypes, ghost
  <2> QED
    BY <1>1, <2>1, PruneStays DEF Tick
<1>2. ASSUME NEW s \in Senders, Stamp(s)  PROVE PruneInv'
  <2>1. ~unordered /\ PruneTypes'
    BY <1>2 DEF Stamp, PruneInv, PruneTypes, ghost
  <2> QED
    BY <1>2, <2>1, PruneStays DEF Stamp
<1>3. ASSUME NEW p \in Sweeps, NEW c \in 0..MaxTime, Start(p, c)  PROVE PruneInv'
  <2>1. ~unordered /\ PruneTypes'
    BY <1>3 DEF Start, PruneInv, PruneTypes, ghost
  <2>2. \A q \in Sweeps : spc'[q] # "adjust" => spc[q] # "adjust"
    BY <1>3 DEF Start, PruneInv, PruneTypes, ghost
  <2> QED
    BY <1>3, <2>1, <2>2, PruneStays DEF Start
<1>4. ASSUME NEW p \in Sweeps, Empty(p)  PROVE PruneInv'
  <2>1. ~unordered /\ PruneTypes'
    BY <1>4 DEF Empty, PruneInv, PruneTypes, ghost
  <2>2. \A q \in Sweeps : spc'[q] # "adjust" => spc[q] # "adjust"
    BY <1>4 DEF Empty, PruneInv, PruneTypes, ghost
  <2> QED
    BY <1>4, <2>1, <2>2, PruneStays DEF Empty
<1>5. ASSUME NEW s \in Senders, AppendEntry(s)  PROVE PruneInv'
  BY <1>5, AppendKeepsPrune
<1>6. ASSUME NEW r \in Readers, Snapshot(r) \/ Commit(r)  PROVE PruneInv'
  <2>1. ~unordered
    BY <1>6 DEF Snapshot, Commit, ghost
  <2> QED
    BY <1>6, <2>1, SnapshotKeepsPrune, CommitKeepsPrune
<1>7. ASSUME NEW p \in Sweeps, Rewrite(p)  PROVE PruneInv'
  BY <1>7, RewriteKeepsPrune DEF Rewrite, WriteBack
<1>8. ASSUME NEW p \in Sweeps, Adjust(p)  PROVE PruneInv'
  BY <1>8, AdjustKeepsPrune DEF Adjust, AdjustDone
<1>9. ASSUME UNCHANGED pruneVars  PROVE PruneInv'
  <2>1. ~unordered /\ PruneTypes'
    BY <1>9 DEF pruneVars, ghost, PruneInv, PruneTypes
  <2> QED
    BY <1>9, <2>1, PruneStays DEF pruneVars
<1> QED
  BY <1>1, <1>2, <1>3, <1>4, <1>5, <1>6, <1>7, <1>8, <1>9 DEF PruneNext

LEMMA PruneInvInit == PruneInit => PruneInv
<1> SUFFICES ASSUME PruneInit, clock = 1  PROVE PruneInv
  BY DEF PruneInit
<1>1. <<>> \in Seq(Line) /\ Len(<<>>) = 0 /\ DOMAIN <<>> = {}
  BY EmptySeq
<1>2. PruneTypes
  BY <1>1, PruneAssumption DEF PruneInit, PruneTypes
<1>3. InTimeOrder /\ Numbered /\ SeenNumbered
  BY <1>1 DEF PruneInit, InTimeOrder, Numbered, SeenNumbered
<1>4. Accounts
  <2> DEFINE due == [p \in Sweeps |-> {}]
  <2>1. /\ due \in [Sweeps -> SUBSET (1..removals)] /\ \A p \in Sweeps : due[p] = {}
        /\ Rest(due) = {}
    BY DEF PruneInit, Rest
  <2> HIDE DEF due
  <2>2. Due(due)
    BY <2>1, FS_EmptySet DEF Due, PruneInit
  <2> QED
    BY <2>1, <2>2 DEF Accounts
<1>5. CursorFits
  BY DEF PruneInit, CursorFits
<1> QED
  BY <1>2, <1>3, <1>4, <1>5 DEF PruneInv

LEMMA PruneInvAlways == PruneSpec => []PruneInv
<1>1. PruneInit => PruneInv
  BY PruneInvInit
<1>2. PruneInv /\ [PruneNext]_pruneVars => PruneInv'
  BY PruneInvNext
<1> QED
  BY <1>1, <1>2, PTL DEF PruneSpec

\* For any number of senders, readers and overlapping sweeps: unless a read's
\* snapshot and the cursor it meets stand on different sides of a sweep, or the
\* log is out of time order, no entry is delivered twice, and one that is gone
\* undelivered was swept.
THEOREM ReadExactlyAlways == PruneSpec => []ReadExactly
<1>1. PruneInv => ReadExactly
  <2> SUFFICES ASSUME PruneInv, SafeOverlap  PROVE ReadExactly
    BY DEF ReadExactly, NoRepeat, NoGap
  <2>1. PruneTypes /\ Numbered /\ Accounts /\ CursorFits
    BY DEF PruneInv, SafeOverlap
  <2>2. NoRepeat
    BY <2>1 DEF NoRepeat, CursorFits
  <2>3. ASSUME ~Sweeping
        PROVE  /\ \A i \in DOMAIN file : i <= offset <=> file[i].id \in delivered
               /\ 1..appended = delivered \cup swept \cup Ids(file)
    <3>1. shifts = removals
      BY <2>1, <2>3, NothingDue DEF Sweeping, PruneTypes
    <3>2. PICK R \in Nat, L \in Nat :
            /\ R = removals /\ L = Len(file) /\ DOMAIN file = 1..L /\ appended = R + L
      BY <2>1 DEF PruneTypes, Numbered
    <3>3. offset \in Nat /\ swept = 1..R /\ \A i \in 1..L : file[i].id = R + i
      BY <2>1, <3>2 DEF PruneTypes, Numbered
    <3>4. /\ delivered \subseteq 1..(R + L) /\ delivered \subseteq 1..(R + offset)
          /\ 1..(R + offset) \subseteq delivered \cup 1..R
      BY <2>1, <3>1, <3>2, <3>3 DEF CursorFits
    <3>5. ASSUME NEW i \in 1..L  PROVE i <= offset <=> R + i \in delivered
      <4>1. R + i \notin 1..R
        BY <3>2
      <4>2. i <= offset <=> R + i \in 1..(R + offset)
        BY <3>2, <3>3
      <4> QED
        BY <3>4, <4>1, <4>2
    <3>6. 1..(R + L) = delivered \cup 1..R \cup Ids(file)
      <4>1. Ids(file) = {R + i : i \in 1..L}
        BY <3>2, <3>3 DEF Ids
      <4>2. 1..(R + L) = 1..R \cup {R + i : i \in 1..L}
        <5>1. \A m \in 1..(R + L) : m \in 1..R \/ (m - R \in 1..L /\ m = R + (m - R))
          BY <3>2
        <5>2. \A i \in 1..L : R + i \in 1..(R + L)
          BY <3>2
        <5>3. 1..R \subseteq 1..(R + L)
          BY <3>2
        <5> QED
          BY <5>1, <5>2, <5>3
      <4> QED
        BY <3>4, <4>1, <4>2
    <3> QED
      BY <3>2, <3>3, <3>5, <3>6
  <2> QED
    BY <2>2, <2>3 DEF ReadExactly, NoGap
<1> QED
  BY <1>1, PruneInvAlways, PTL

\* ... and the cursor never passes an entry that was neither delivered nor
\* swept, not even while sweeps are half done.
THEOREM CursorStandsAlways == PruneSpec => []CursorStands
<1>1. PruneInv => CursorStands
  BY DEF PruneInv, SafeOverlap, CursorFits, CursorStands
<1> QED
  BY <1>1, PruneInvAlways, PTL
=============================================================================
