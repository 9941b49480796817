---------------------------- MODULE Pusher_proofs ----------------------------
(***************************************************************************)
(* What holds of the tmux pusher and of send_command for any number of     *)
(* calls, messages, failures of tmux and restarts.                         *)
(***************************************************************************)
EXTENDS Pusher, FiniteSetTheorems, FunctionTheorems, WellFoundedInduction, TLAPS

-----------------------------------------------------------------------------
(* The inductive invariant                                                 *)

Has(q, m) == \E i \in DOMAIN q : q[i] = m
InPane(m) == \E n \in DOMAIN lines : Has(lines[n], m)
InRest(m) == \E i \in at..Len(batch) : batch[i] = m

\* A message the cursor has passed, and that is one to inject.
Taken(m) == m \in Names /\ m[2] \in 1..offset[m[1]] /\ ShouldInject(m)

\* Everything the pusher has in memory or in the pane was taken from a log.
AllTaken ==
  /\ \A s \in Logs : offset[s] <= Len(log[s])
  /\ \A m : Has(batch, m) \/ Has(pending, m) \/ Has(draft, m) \/ InPane(m) => Taken(m)

\* Each log's messages stand in their order, each of them once.
Rising(q) == \A i, j \in DOMAIN q : i < j /\ q[i][1] = q[j][1] => q[i][2] < q[j][2]
Before(p, q) ==
  \A i \in DOMAIN p, j \in DOMAIN q : p[i][1] = q[j][1] => p[i][2] < q[j][2]
Ranked == Rising(batch) /\ Rising(pending) /\ Before(batch, pending)

Armed == (timer => pending # <<>>) /\ (phase = "idle" => batch = <<>>)

\* What is pasted is in the draft, then in the pane, until its receipts are there.
Pasting ==
  /\ phase = "pasted" => \A i \in at..PasteEnd : Has(draft, batch[i])
  /\ phase = "entered" => \A i \in at..PasteEnd : InPane(batch[i])
Receipted == \A m \in receipts : InPane(m)

\* A command is in its log once the call is past Issue, a reminder after that.
Issued(c) ==
  /\ issued[c][2] \in 1..Len(log[issued[c][1]])
  /\ log[issued[c][1]][issued[c][2]] = [kind |-> command[c], call |-> c]
Called ==
  /\ \A c \in Calls : call[c] \in {"waiting", "sent", "confirmed", "pending"} => Issued(c)
  /\ \A c \in Calls : call[c] = "confirmed" => issued[c] \in receipts
Reminding ==
  \A c \in Calls : \A m \in Reminders(c) :
    /\ command[c] = "clear" /\ call[c] \in {"sent", "confirmed", "pending"}
    /\ m[1] = Inbox
    /\ issued[c][1] = Inbox => issued[c][2] < m[2]

\* As long as no pusher stopped with messages in its memory, nothing is missing,
\* and of each log the pane and its draft have a beginning.
Kept == \A m : Taken(m) => InPane(m) \/ InRest(m) \/ Has(pending, m)
InTurn ==
  \A m, n : Taken(m) /\ Taken(n) /\ m[1] = n[1] /\ m[2] < n[2] =>
    /\ InPane(n) => InPane(m)
    /\ Has(draft, n) => InPane(m) \/ Has(draft, m)
Anchored ==
  \A c \in Calls : \A m \in Reminders(c) :
    issued[c][1] = Inbox /\ (InPane(m) \/ Has(draft, m)) =>
      \E n \in DOMAIN lines : /\ Has(lines[n], issued[c])
                              /\ \A k \in 1..n : ~Has(lines[k], m)

\* Where a message stands in the lines of the pane and in its draft, and how often
\* it may: once more for each failure, once less while it has yet to be pasted.
Places(L, m) ==
  {p \in Nat \X Nat : p[1] \in DOMAIN L /\ p[2] \in DOMAIN L[p[1]] /\ L[p[1]][p[2]] = m}
Standing(m) == Places(Append(lines, draft), m)
Unpasted == IF phase = "load" THEN at ELSE PasteEnd + 1
Waits(m) == Has(pending, m) \/ (phase # "idle" /\ \E i \in Unpasted..Len(batch) : batch[i] = m)
Counted ==
  \A m \in Names :
    /\ IsFiniteSet(Standing(m))
    /\ Cardinality(Standing(m)) <= 1 + failures
    /\ Waits(m) => Cardinality(Standing(m)) <= failures

\* The mail in the pusher and its pane, and the commands.
Injected ==
  /\ AllTaken /\ Ranked /\ Armed /\ Pasting /\ Receipted /\ Counted
  /\ ~lost => Kept /\ InTurn
Commanded == Called /\ Reminding /\ (~lost => Anchored)

IInv == TypeOK /\ Injected /\ Commanded

-----------------------------------------------------------------------------
(* Putting positions in order                                              *)

LEMMA LeastNatural ==
  ASSUME NEW T \in SUBSET Nat, T # {}
  PROVE  \E n \in T : \A m \in T : n <= m
<1>1. \E n \in T : \A m \in T : ~ (<<m, n>> \in OpToRel(<, Nat))
  BY NatLessThanWellFounded, WFMin
<1>2. PICK n \in T : \A m \in T : ~ (<<m, n>> \in OpToRel(<, Nat))
  BY <1>1
<1>3. \A m \in T : ~(m < n)
  BY <1>2 DEF OpToRel
<1>4. n \in Nat /\ \A m \in T : m \in Nat
  OBVIOUS
<1> QED
  BY <1>3, <1>4

\* A sequence that lists a set of positions in increasing order.
Lists(q, S) ==
  /\ q \in [1..Cardinality(S) -> S]
  /\ \A i, j \in 1..Cardinality(S) : i < j => q[i] < q[j]

LEMMA IntervalSubset ==
  ASSUME NEW n \in Nat, NEW S \in SUBSET (1..n)
  PROVE  IsFiniteSet(S) /\ Cardinality(S) \in Nat
<1>1. IsFiniteSet(1..n)
  BY FS_Interval
<1>2. IsFiniteSet(S)
  BY <1>1, FS_Subset
<1> QED
  BY <1>2, FS_CardinalityType

\* By the smallest bound of the sets that cannot be listed.
LEMMA ListExists ==
  ASSUME NEW n \in Nat, NEW S \in SUBSET (1..n)
  PROVE  \E q : Lists(q, S)
<1> DEFINE Bad == {k \in Nat : \E T \in SUBSET (1..k) : ~\E q : Lists(q, T)}
<1>1. Bad = {}
  <2> SUFFICES ASSUME Bad # {} PROVE FALSE
    OBVIOUS
  <2>1. PICK k \in Bad : \A m \in Bad : k <= m
    <3>1. Bad \in SUBSET Nat
      OBVIOUS
    <3> HIDE DEF Bad
    <3> QED
      BY <3>1, LeastNatural
  <2>2. k \in Nat
    OBVIOUS
  <2>3. PICK T \in SUBSET (1..k) : ~\E q : Lists(q, T)
    OBVIOUS
  <2>4. ~(T \subseteq 1..(k - 1) /\ k # 0)
    <3> SUFFICES ASSUME T \subseteq 1..(k - 1), k # 0 PROVE FALSE
      OBVIOUS
    <3>1. k - 1 \in Nat /\ T \in SUBSET (1..(k - 1))
      BY <2>2
    <3>2. k - 1 \in Bad
      BY <2>3, <3>1
    <3> QED
      BY <2>1, <2>2, <3>2
  <2>5. CASE k = 0
    <3>1. T = {}
      BY <2>5
    <3>2. Cardinality(T) = 0
      BY <3>1, FS_EmptySet
    <3>3. Lists([i \in 1..0 |-> 0], T)
      BY <3>1, <3>2 DEF Lists
    <3> QED
      BY <2>3, <3>3
  <2>6. CASE k # 0
    <3>1. k \in T
      BY <2>2, <2>4, <2>6
    <3> DEFINE U == T \ {k}
    <3>2. k - 1 \in Nat /\ U \in SUBSET (1..(k - 1))
      BY <2>2, <2>6
    <3>3. IsFiniteSet(U) /\ Cardinality(U) \in Nat
      BY <3>2, IntervalSubset
    <3>4. k - 1 \notin Bad
      <4> HIDE DEF Bad
      <4> QED
        BY <2>1, <2>2
    <3>5. PICK q : Lists(q, U)
      BY <3>2, <3>4
    <3>6. Cardinality(T) = Cardinality(U) + 1
      <4>1. T = U \cup {k} /\ k \notin U
        BY <3>1
      <4> QED
        BY <3>3, <4>1, FS_AddElement
    <3> DEFINE n0 == Cardinality(U)
               r == [i \in 1..(n0 + 1) |-> IF i <= n0 THEN q[i] ELSE k]
    <3>7. r \in [1..Cardinality(T) -> T]
      <4>1. \A i \in 1..n0 : q[i] \in T
        BY <3>5 DEF Lists
      <4> HIDE DEF U
      <4> QED
        BY <3>1, <3>3, <3>6, <4>1
    <3>8. \A i, j \in 1..Cardinality(T) : i < j => r[i] < r[j]
      <4>1. \A i \in 1..n0 : q[i] \in U
        BY <3>5 DEF Lists
      <4>2. \A i \in 1..n0 : q[i] < k
        <5>1. \A x \in U : x < k
          BY <3>2, <2>2
        <5> QED
          BY <4>1, <5>1
      <4>3. \A i, j \in 1..n0 : i < j => q[i] < q[j]
        BY <3>5 DEF Lists
      <4> HIDE DEF U
      <4> QED
        BY <3>3, <3>6, <4>2, <4>3
    <3>9. Lists(r, T)
      BY <3>7, <3>8 DEF Lists
    <3> QED
      BY <2>3, <3>9
  <2> QED
    BY <2>5, <2>6
<1> QED
  BY <1>1

LEMMA OrderedLists ==
  ASSUME NEW n \in Nat, NEW S \in SUBSET (1..n)
  PROVE  /\ Cardinality(S) \in Nat
         /\ Ordered(S) \in [1..Cardinality(S) -> S]
         /\ \A i, j \in 1..Cardinality(S) : i < j => Ordered(S)[i] < Ordered(S)[j]
         /\ \A x \in S : \E i \in 1..Cardinality(S) : Ordered(S)[i] = x
<1> DEFINE N == Cardinality(S)
           q == Ordered(S)
<1>1. IsFiniteSet(S) /\ N \in Nat
  BY IntervalSubset
<1>2. Lists(q, S)
  <2>1. \E f \in [1..N -> S] : \A i, j \in 1..N : i < j => f[i] < f[j]
    BY ListExists DEF Lists
  <2> QED
    BY <2>1 DEF Lists, Ordered
<1>3. q \in [1..N -> S]
  BY <1>2 DEF Lists
<1>4. \A i, j \in 1..N : i < j => q[i] < q[j]
  BY <1>2 DEF Lists
<1>5. \A i, j \in 1..N : q[i] = q[j] => i = j
  <2> SUFFICES ASSUME NEW i \in 1..N, NEW j \in 1..N, q[i] = q[j], i # j PROVE FALSE
    OBVIOUS
  <2>1. q[i] \in Nat /\ q[j] \in Nat
    <3>1. q[i] \in S /\ q[j] \in S
      BY <1>3
    <3>2. \A x \in S : x \in Nat
      OBVIOUS
    <3> QED
      BY <3>1, <3>2
  <2>2. i < j \/ j < i
    BY <1>1
  <2> HIDE DEF q, N
  <2> QED
    BY <1>4, <2>1, <2>2
<1>6. q \in Injection(1..N, S)
  <2> HIDE DEF q, N
  <2> QED
    BY <1>3, <1>5, Fun_IsInj
<1>7. Cardinality(1..N) = N
  BY <1>1, FS_Interval
<1>8. q \in Surjection(1..N, S)
  <2> HIDE DEF q
  <2> QED
    BY <1>1, <1>6, <1>7, FS_Injection
<1>9. \A x \in S : \E i \in 1..N : q[i] = x
  <2> HIDE DEF q, N
  <2> QED
    BY <1>8 DEF Surjection
<1> QED
  BY <1>1, <1>3, <1>4, <1>9

-----------------------------------------------------------------------------
(* Sequences of messages                                                   *)

LEMMA Concatenated ==
  ASSUME NEW S, NEW p \in Seq(S), NEW q \in Seq(S)
  PROVE  /\ p \o q \in Seq(S)
         /\ Len(p \o q) = Len(p) + Len(q)
         /\ \A i \in DOMAIN p : i \in DOMAIN (p \o q) /\ (p \o q)[i] = p[i]
         /\ \A i \in DOMAIN q : /\ Len(p) + i \in DOMAIN (p \o q)
                                /\ (p \o q)[Len(p) + i] = q[i]
         /\ \A i \in DOMAIN (p \o q) :
              \/ i \in DOMAIN p
              \/ i - Len(p) \in DOMAIN q /\ (p \o q)[i] = q[i - Len(p)] /\ i > Len(p)
  OBVIOUS

LEMMA HasConcatenated ==
  ASSUME NEW p \in Seq(Names), NEW q \in Seq(Names), NEW m
  PROVE  Has(p \o q, m) <=> Has(p, m) \/ Has(q, m)
<1>1. ASSUME Has(p \o q, m) PROVE Has(p, m) \/ Has(q, m)
  <2>1. PICK i \in DOMAIN (p \o q) : (p \o q)[i] = m
    BY <1>1 DEF Has
  <2>2. CASE i \in DOMAIN p
    BY <2>1, <2>2, Concatenated DEF Has
  <2>3. CASE i - Len(p) \in DOMAIN q /\ (p \o q)[i] = q[i - Len(p)]
    BY <2>1, <2>3 DEF Has
  <2> QED
    BY <2>2, <2>3, Concatenated
<1>2. ASSUME Has(p, m) PROVE Has(p \o q, m)
  BY <1>2, Concatenated DEF Has
<1>3. ASSUME Has(q, m) PROVE Has(p \o q, m)
  <2>1. PICK i \in DOMAIN q : q[i] = m
    BY <1>3 DEF Has
  <2>2. Len(p) + i \in DOMAIN (p \o q) /\ (p \o q)[Len(p) + i] = m
    BY <2>1, Concatenated
  <2> QED
    BY <2>2 DEF Has
<1> QED
  BY <1>1, <1>2, <1>3

LEMMA RisingConcatenated ==
  ASSUME NEW p \in Seq(Names), NEW q \in Seq(Names), Rising(p), Rising(q), Before(p, q)
  PROVE  Rising(p \o q)
<1> SUFFICES ASSUME NEW i \in DOMAIN (p \o q), NEW j \in DOMAIN (p \o q), i < j,
                    (p \o q)[i][1] = (p \o q)[j][1]
             PROVE  (p \o q)[i][2] < (p \o q)[j][2]
  BY DEF Rising
<1> DEFINE r == p \o q
<1>1. i \in DOMAIN p \/ (i - Len(p) \in DOMAIN q /\ r[i] = q[i - Len(p)] /\ i > Len(p))
  BY Concatenated
<1>2. j \in DOMAIN p \/ (j - Len(p) \in DOMAIN q /\ r[j] = q[j - Len(p)] /\ j > Len(p))
  BY Concatenated
<1>3. (i \in DOMAIN p => r[i] = p[i]) /\ (j \in DOMAIN p => r[j] = p[j])
  BY Concatenated
<1>4. i \in Nat /\ j \in Nat /\ Len(p) \in Nat /\ DOMAIN p = 1..Len(p)
  BY Concatenated
<1> HIDE DEF r
<1>5. CASE j \in DOMAIN p
  <2>1. i \in DOMAIN p
    BY <1>1, <1>4, <1>5
  <2> QED
    BY <1>3, <1>5, <2>1 DEF Rising, r
<1>6. CASE j \notin DOMAIN p /\ i \in DOMAIN p
  BY <1>2, <1>3, <1>6 DEF Before, r
<1>7. CASE j \notin DOMAIN p /\ i \notin DOMAIN p
  <2>1. i - Len(p) < j - Len(p)
    BY <1>4
  <2> QED
    BY <1>1, <1>2, <1>7, <2>1 DEF Rising, r
<1> QED
  BY <1>5, <1>6, <1>7

LEMMA BeforeConcatenated ==
  ASSUME NEW r \in Seq(Names), NEW p \in Seq(Names), NEW q \in Seq(Names),
         Before(r, p), Before(r, q)
  PROVE  Before(r, p \o q)
<1> SUFFICES ASSUME NEW i \in DOMAIN r, NEW j \in DOMAIN (p \o q),
                    r[i][1] = (p \o q)[j][1]
             PROVE  r[i][2] < (p \o q)[j][2]
  BY DEF Before
<1>1. CASE j \in DOMAIN p
  <2>1. (p \o q)[j] = p[j]
    BY <1>1, Concatenated
  <2> QED
    BY <1>1, <2>1 DEF Before
<1>2. CASE j - Len(p) \in DOMAIN q /\ (p \o q)[j] = q[j - Len(p)]
  BY <1>2 DEF Before
<1> QED
  BY <1>1, <1>2, Concatenated

\* Before compares any two that stand in the sequences.
LEMMA BeforeMeans ==
  ASSUME NEW p, NEW q
  PROVE  Before(p, q) <=> \A m, n : Has(p, m) /\ Has(q, n) /\ m[1] = n[1] => m[2] < n[2]
BY DEF Before, Has

LEMMA Sliced ==
  ASSUME NEW q \in Seq(Names), NEW a \in Nat \ {0}, NEW e \in 0..Len(q), a <= e + 1
  PROVE  /\ SubSeq(q, a, e) \in Seq(Names)
         /\ Len(SubSeq(q, a, e)) = e + 1 - a
         /\ \A i \in DOMAIN SubSeq(q, a, e) :
              a + i - 1 \in a..e /\ SubSeq(q, a, e)[i] = q[a + i - 1]
         /\ \A i \in a..e : /\ i + 1 - a \in DOMAIN SubSeq(q, a, e)
                            /\ SubSeq(q, a, e)[i + 1 - a] = q[i]
  OBVIOUS

LEMMA HasSliced ==
  ASSUME NEW q \in Seq(Names), NEW a \in Nat \ {0}, NEW e \in 0..Len(q), a <= e + 1, NEW m
  PROVE  Has(SubSeq(q, a, e), m) <=> \E i \in a..e : q[i] = m
<1>1. ASSUME Has(SubSeq(q, a, e), m) PROVE \E i \in a..e : q[i] = m
  BY <1>1, Sliced DEF Has
<1>2. ASSUME NEW i \in a..e, q[i] = m PROVE Has(SubSeq(q, a, e), m)
  <2>1. /\ i + 1 - a \in DOMAIN SubSeq(q, a, e)
        /\ SubSeq(q, a, e)[i + 1 - a] = q[i]
    BY Sliced
  <2> QED
    BY <1>2, <2>1 DEF Has
<1> QED
  BY <1>1, <1>2

LEMMA RisingSliced ==
  ASSUME NEW q \in Seq(Names), NEW a \in Nat \ {0}, NEW e \in 0..Len(q), a <= e + 1,
         Rising(q)
  PROVE  Rising(SubSeq(q, a, e))
<1> DEFINE s == SubSeq(q, a, e)
<1> SUFFICES ASSUME NEW i \in DOMAIN s, NEW j \in DOMAIN s, i < j, s[i][1] = s[j][1]
             PROVE  s[i][2] < s[j][2]
  BY DEF Rising
<1>1. /\ a + i - 1 \in a..e /\ s[i] = q[a + i - 1]
      /\ a + j - 1 \in a..e /\ s[j] = q[a + j - 1]
  BY Sliced
<1>2. i \in Int /\ j \in Int /\ a + i - 1 < a + j - 1
  BY Sliced
<1>3. a + i - 1 \in DOMAIN q /\ a + j - 1 \in DOMAIN q
  BY <1>1
<1> HIDE DEF s
<1> QED
  BY <1>1, <1>2, <1>3 DEF Rising

-----------------------------------------------------------------------------
(* Where messages stand in the pane                                        *)

LEMMA PlacesAreFinite ==
  ASSUME NEW L \in Seq(Seq(Names)), NEW d \in Seq(Names), NEW m
  PROVE  Places(L, m) \subseteq Places(Append(L, d), m)
<1> SUFFICES ASSUME NEW p \in Places(L, m) PROVE p \in Places(Append(L, d), m)
  OBVIOUS
<1>1. p \in Nat \X Nat /\ p[1] \in DOMAIN L /\ p[2] \in DOMAIN L[p[1]] /\ L[p[1]][p[2]] = m
  BY DEF Places
<1>2. p[1] \in DOMAIN Append(L, d) /\ Append(L, d)[p[1]] = L[p[1]]
  BY <1>1
<1> QED
  BY <1>1, <1>2 DEF Places

\* Submitting the draft moves nothing.
LEMMA PlacesSubmitted ==
  ASSUME NEW L \in Seq(Seq(Names)), NEW m
  PROVE  Places(Append(L, <<>>), m) = Places(L, m)
<1>1. ASSUME NEW p \in Places(Append(L, <<>>), m) PROVE p \in Places(L, m)
  <2>1. /\ p \in Nat \X Nat /\ p[1] \in DOMAIN Append(L, <<>>)
        /\ p[2] \in DOMAIN Append(L, <<>>)[p[1]] /\ Append(L, <<>>)[p[1]][p[2]] = m
    BY <1>1 DEF Places
  <2>2. p[1] # Len(L) + 1
    <3> SUFFICES ASSUME p[1] = Len(L) + 1 PROVE FALSE
      OBVIOUS
    <3>1. Append(L, <<>>)[p[1]] = <<>>
      OBVIOUS
    <3> QED
      BY <2>1, <3>1
  <2>3. p[1] \in DOMAIN L /\ Append(L, <<>>)[p[1]] = L[p[1]]
    BY <2>1, <2>2
  <2> QED
    BY <2>1, <2>3 DEF Places
<1>2. Places(L, m) \subseteq Places(Append(L, <<>>), m)
  <2>1. <<>> \in Seq(Names)
    OBVIOUS
  <2> QED
    BY <2>1, PlacesAreFinite
<1> QED
  BY <1>1, <1>2

\* A paste adds one place for each message in it.
LEMMA PlacesPasted ==
  ASSUME NEW L \in Seq(Seq(Names)), NEW d \in Seq(Names), NEW q \in Seq(Names), Rising(q),
         NEW m \in Names
  PROVE  /\ ~Has(q, m) => Places(Append(L, d \o q), m) = Places(Append(L, d), m)
         /\ Has(q, m) => \E p : /\ p \notin Places(Append(L, d), m)
                                /\ Places(Append(L, d \o q), m)
                                     = Places(Append(L, d), m) \cup {p}
<1> DEFINE n == Len(L) + 1
           P == Append(L, d)
           Q == Append(L, d \o q)
<1>1. /\ DOMAIN P = 1..n /\ DOMAIN Q = 1..n /\ n \in Nat
      /\ P[n] = d /\ Q[n] = d \o q
      /\ \A k \in 1..n : k # n => P[k] = Q[k]
  <2>1. d \o q \in Seq(Names)
    OBVIOUS
  <2> QED
    BY <2>1
<1>2. /\ \A i \in DOMAIN d : i \in DOMAIN (d \o q) /\ (d \o q)[i] = d[i]
      /\ \A i \in DOMAIN q : /\ Len(d) + i \in DOMAIN (d \o q) /\ Len(d) + i \notin DOMAIN d
                             /\ (d \o q)[Len(d) + i] = q[i] /\ Len(d) + i \in Nat
      /\ \A i \in DOMAIN (d \o q) :
           i \in DOMAIN d \/ (i - Len(d) \in DOMAIN q /\ (d \o q)[i] = q[i - Len(d)] /\ i \in Nat)
  OBVIOUS
<1> DEFINE r == d \o q
<1> HIDE DEF n, P, Q, r
<1>3. \A p : p \in Places(P, m) =>
        p \in Places(Q, m) /\ (p[1] = n => p[2] \in DOMAIN d)
  <2> SUFFICES ASSUME NEW p \in Places(P, m)
               PROVE  p \in Places(Q, m) /\ (p[1] = n => p[2] \in DOMAIN d)
    OBVIOUS
  <2>1. p \in Nat \X Nat /\ p[1] \in 1..n /\ p[2] \in DOMAIN P[p[1]] /\ P[p[1]][p[2]] = m
    BY <1>1 DEF Places
  <2>2. p[1] = n => p[2] \in DOMAIN d /\ d[p[2]] = m
    BY <1>1, <2>1
  <2>3. p[2] \in DOMAIN Q[p[1]] /\ Q[p[1]][p[2]] = m
    <3>1. CASE p[1] = n
      BY SMTT(30), <1>1, <1>2, <2>2, <3>1 DEF r
    <3>2. CASE p[1] # n
      BY <1>1, <2>1, <3>2
    <3> QED
      BY <3>1, <3>2
  <2> QED
    BY <1>1, <2>1, <2>2, <2>3 DEF Places
<1>4. \A p : p \in Places(Q, m) =>
        \/ p \in Places(P, m)
        \/ \E i \in DOMAIN q : q[i] = m /\ p = <<n, Len(d) + i>>
  <2> SUFFICES ASSUME NEW p \in Places(Q, m), p \notin Places(P, m)
               PROVE  \E i \in DOMAIN q : q[i] = m /\ p = <<n, Len(d) + i>>
    OBVIOUS
  <2>1. p \in Nat \X Nat /\ p[1] \in 1..n /\ p[2] \in DOMAIN Q[p[1]] /\ Q[p[1]][p[2]] = m
    BY <1>1 DEF Places
  <2>2. p[1] = n
    BY <1>1, <2>1 DEF Places
  <2>3. p[2] \in DOMAIN r /\ r[p[2]] = m /\ p[2] \notin DOMAIN d
    BY <1>1, <1>2, <2>1, <2>2 DEF Places, r
  <2>4. p[2] - Len(d) \in DOMAIN q /\ q[p[2] - Len(d)] = m
    BY <1>2, <2>3 DEF r
  <2>5. p = <<n, p[2]>> /\ p[2] \in Nat /\ Len(d) \in Nat
    BY <2>1, <2>2
  <2>6. p[2] = Len(d) + (p[2] - Len(d))
    BY <2>5
  <2> QED
    BY <2>4, <2>5, <2>6
<1>5. \A i \in DOMAIN q : q[i] = m => <<n, Len(d) + i>> \in Places(Q, m)
  <2> SUFFICES ASSUME NEW i \in DOMAIN q, q[i] = m
               PROVE  <<n, Len(d) + i>> \in Places(Q, m)
    OBVIOUS
  <2>1. Len(d) + i \in DOMAIN r /\ r[Len(d) + i] = m /\ Len(d) + i \in Nat
    BY <1>2 DEF r
  <2>2. n \in 1..n
    BY <1>1 DEF n
  <2> DEFINE p == <<n, Len(d) + i>>
  <2>3. p \in Nat \X Nat /\ p[1] = n /\ p[2] = Len(d) + i
    BY <1>1, <2>1
  <2> HIDE DEF p
  <2>4. p \in Places(Q, m)
    BY <1>1, <2>1, <2>2, <2>3 DEF Places, r
  <2> QED
    BY <2>4 DEF p
<1>6. \A i, j \in DOMAIN q : q[i] = m /\ q[j] = m => i = j
  <2> SUFFICES ASSUME NEW i \in DOMAIN q, NEW j \in DOMAIN q, q[i] = m, q[j] = m, i < j
               PROVE  FALSE
    OBVIOUS
  <2>1. m[2] < m[2] /\ m[2] \in Nat
    BY DEF Rising, Names
  <2> QED
    BY <2>1
<1>7. CASE ~Has(q, m)
  BY <1>3, <1>4, <1>7 DEF Has, P, Q, r
<1>8. CASE Has(q, m)
  <2>1. PICK i \in DOMAIN q : q[i] = m
    BY <1>8 DEF Has
  <2>2. <<n, Len(d) + i>> \notin Places(P, m)
    <3> SUFFICES ASSUME <<n, Len(d) + i>> \in Places(P, m) PROVE FALSE
      OBVIOUS
    <3> DEFINE p == <<n, Len(d) + i>>
    <3>1. p[1] = n /\ p[2] = Len(d) + i
      OBVIOUS
    <3> HIDE DEF p
    <3>2. p[2] \in DOMAIN d
      BY <1>3, <3>1 DEF p
    <3> QED
      BY <1>2, <3>1, <3>2
  <2>3. Places(Q, m) = Places(P, m) \cup {<<n, Len(d) + i>>}
    BY <1>3, <1>4, <1>5, <1>6, <2>1
  <2> QED
    BY <1>8, <2>2, <2>3 DEF P, Q, r
<1> QED
  BY <1>7, <1>8

LEMMA RunEnds ==
  ASSUME NEW commands, NEW first \in Nat, NEW last \in Nat, first <= last
  PROVE  /\ RunEnd(commands, first, last) \in first..last
         /\ \A i \in first..RunEnd(commands, first, last) :
              i \in commands => i = first /\ i = RunEnd(commands, first, last)
<1>1. CASE first \in commands
  BY <1>1 DEF RunEnd
<1>2. CASE first \notin commands
  <2> DEFINE T == {e \in first..last : e = last \/ e + 1 \in commands}
             Good(e) == (\A i \in first..e : i \notin commands) /\ (e = last \/ e + 1 \in commands)
  <2>1. T \in SUBSET Nat /\ T # {}
    OBVIOUS
  <2>2. PICK e \in T : \A k \in T : e <= k
    <3> HIDE DEF T
    <3> QED
      BY <2>1, LeastNatural
  <2>3. \A i \in first..e : i \notin commands
    <3> SUFFICES ASSUME NEW i \in first..e, i \in commands PROVE FALSE
      OBVIOUS
    <3>1. i # first
      BY <1>2
    <3>2. i - 1 \in first..last /\ (i - 1) + 1 = i /\ i - 1 < e
      BY <3>1, <2>2
    <3>3. i - 1 \in T
      BY <3>2
    <3> QED
      BY <2>2, <3>2, <3>3
  <2>4. e \in first..last /\ Good(e)
    BY <2>2, <2>3
  <2>5. RunEnd(commands, first, last) = CHOOSE k \in first..last : Good(k)
    BY <1>2 DEF RunEnd
  <2>6. RunEnd(commands, first, last) \in first..last /\ Good(RunEnd(commands, first, last))
    <3> HIDE DEF Good
    <3> QED
      BY <2>4, <2>5
  <2> QED
    BY <2>6
<1> QED
  BY <1>1, <1>2

-----------------------------------------------------------------------------
(* What a drain takes                                                      *)

LEMMA FreshFacts ==
  ASSUME TypeOK, NEW s \in Logs
  PROVE  /\ Fresh(s) \in Seq(Names) /\ Rising(Fresh(s))
         /\ \A m : Has(Fresh(s), m) <=> m \in Names /\ m[1] = s /\ m[2] \in Unread(s)
<1> DEFINE n == Len(log[s])
           U == Unread(s)
           N == Cardinality(U)
           q == Ordered(U)
<1>1. n \in Nat /\ U \in SUBSET (1..n)
  BY DEF TypeOK, Unread
<1>2. /\ N \in Nat
      /\ q \in [1..N -> U]
      /\ \A i, j \in 1..N : i < j => q[i] < q[j]
      /\ \A x \in U : \E i \in 1..N : q[i] = x
  <2> HIDE DEF n, U
  <2> QED
    BY <1>1, OrderedLists
<1>3. Fresh(s) = [k \in 1..N |-> <<s, q[k]>>]
  BY DEF Fresh
<1>4. \A x \in U : x \in Nat
  BY <1>1
<1> HIDE DEF n, U, N, q
<1>5. Fresh(s) \in Seq(Names) /\ DOMAIN Fresh(s) = 1..N /\ \A k \in 1..N : Fresh(s)[k] = <<s, q[k]>>
  <2>1. \A k \in 1..N : <<s, q[k]>> \in Names
    BY <1>2, <1>4 DEF Names
  <2> QED
    BY <1>2, <1>3, <2>1
<1>6. Rising(Fresh(s))
  BY <1>2, <1>5 DEF Rising
<1>7. ASSUME NEW m, Has(Fresh(s), m) PROVE m \in Names /\ m[1] = s /\ m[2] \in U
  <2>1. PICK k \in 1..N : Fresh(s)[k] = m
    BY <1>5, <1>7 DEF Has
  <2>2. m = <<s, q[k]>> /\ q[k] \in U
    BY <1>2, <1>5, <2>1
  <2> QED
    BY <1>4, <2>2 DEF Names
<1>8. ASSUME NEW m, m \in Names, m[1] = s, m[2] \in U PROVE Has(Fresh(s), m)
  <2>1. PICK k \in 1..N : q[k] = m[2]
    BY <1>2, <1>8
  <2>2. m = <<s, q[k]>>
    BY <1>8, <2>1 DEF Names
  <2> QED
    BY <1>5, <2>1, <2>2 DEF Has
<1> QED
  BY <1>5, <1>6, <1>7, <1>8 DEF U

LEMMA DrainedFacts ==
  ASSUME TypeOK
  PROVE  /\ Drained \in Seq(Names) /\ Rising(Drained)
         /\ \A m : Has(Drained, m) <=>
              /\ m \in Names /\ m[1] \in Followed /\ ShouldInject(m)
              /\ m[2] \in (offset[m[1]] + 1)..Len(log[m[1]])
<1> USE RoomAssumption
<1>1. /\ Fresh(Inbox) \in Seq(Names) /\ Rising(Fresh(Inbox))
      /\ Fresh(Room) \in Seq(Names) /\ Rising(Fresh(Room))
  BY FreshFacts DEF Logs
<1>2. \A s \in Logs : \A m : Has(Fresh(s), m) <=>
        /\ m \in Names /\ m[1] = s /\ ShouldInject(m)
        /\ m[2] \in (offset[m[1]] + 1)..Len(log[m[1]])
  <2> SUFFICES ASSUME NEW s \in Logs, NEW m, m \in Names, m[1] = s
               PROVE  m[2] \in Unread(s) <=>
                        /\ ShouldInject(m)
                        /\ m[2] \in (offset[m[1]] + 1)..Len(log[m[1]])
    BY FreshFacts
  <2>1. m = <<s, m[2]>>
    BY DEF Names
  <2> QED
    BY <2>1 DEF Unread
<1>3. CASE IncludeRoom
  <2>1. Before(Fresh(Inbox), Fresh(Room))
    <3>1. \A m, n : Has(Fresh(Inbox), m) /\ Has(Fresh(Room), n) => m[1] # n[1]
      BY <1>2 DEF Logs, Inbox, Room
    <3> QED
      BY <3>1, BeforeMeans
  <2>2. Drained = Fresh(Inbox) \o Fresh(Room) /\ Followed = Logs
    BY <1>3 DEF Drained, Followed
  <2>3. Drained \in Seq(Names) /\ Rising(Drained)
    BY <1>1, <2>1, <2>2, Concatenated, RisingConcatenated
  <2>4. \A m : Has(Drained, m) <=> Has(Fresh(Inbox), m) \/ Has(Fresh(Room), m)
    BY <1>1, <2>2, HasConcatenated
  <2>5. \A m \in Names : m[1] \in {Inbox, Room}
    BY DEF Names, Logs
  <2> QED
    BY <1>2, <2>2, <2>3, <2>4, <2>5 DEF Logs
<1>4. CASE ~IncludeRoom
  <2>1. Drained = Fresh(Inbox) \o <<>> /\ Followed = {Inbox}
    BY <1>4 DEF Drained, Followed
  <2>2. Drained = Fresh(Inbox)
    BY <1>1, <2>1
  <2> QED
    BY <1>1, <1>2, <2>1, <2>2 DEF Logs
<1> QED
  BY <1>3, <1>4

-----------------------------------------------------------------------------
(* What changes where                                                      *)

LEMMA MessagesAre ==
  ASSUME TypeOK
  PROVE  \A m : m \in Messages <=> m \in Names /\ m[2] \in 1..Len(log[m[1]])
<1>1. \A s \in Logs : DOMAIN log[s] = 1..Len(log[s]) /\ Len(log[s]) \in Nat
  BY DEF TypeOK
<1>2. \A m : m \in Messages <=> \E s \in Logs : m \in {s} \X DOMAIN log[s]
  BY DEF Messages
<1> QED
  BY <1>1, <1>2 DEF Names

\* With the logs and the offsets, what is taken and where a paste ends stay.
LEMMA SameMail ==
  ASSUME UNCHANGED mailVars
  PROVE  /\ \A m : Taken(m)' <=> Taken(m)
         /\ \A m : Kind(m)' = Kind(m)
         /\ \A c : Reminders(c)' = Reminders(c)
BY DEF mailVars, Taken, ShouldInject, Kind, Reminders, Messages

LEMMA SamePaste ==
  ASSUME UNCHANGED <<log, batch, at>>
  PROVE  PasteEnd' = PasteEnd /\ ControlAt' = ControlAt
<1>1. ControlAt' = ControlAt
  BY DEF ControlAt, Kind
<1> QED
  BY <1>1 DEF PasteEnd

\* The paste under way.
LEMMA PasteFacts ==
  ASSUME TypeOK, Ranked, phase # "idle"
  PROVE  /\ at \in 1..Len(batch) /\ PasteEnd \in at..Len(batch)
         /\ \A i \in at..PasteEnd : Kind(batch[i]) \in Control => at = PasteEnd
         /\ Paste \in Seq(Names) /\ Rising(Paste)
         /\ \A m : Has(Paste, m) <=> \E i \in at..PasteEnd : batch[i] = m
<1>1. at \in 1..Len(batch) /\ Len(batch) \in Nat /\ DOMAIN batch = 1..Len(batch)
      /\ batch \in Seq(Names)
  BY DEF TypeOK
<1>2. /\ PasteEnd \in at..Len(batch)
      /\ \A i \in at..PasteEnd : i \in ControlAt => i = at /\ i = PasteEnd
  BY <1>1, RunEnds DEF PasteEnd
<1>3. \A i \in at..PasteEnd : Kind(batch[i]) \in Control => i \in ControlAt
  BY <1>1, <1>2 DEF ControlAt
<1>4. PasteEnd \in 0..Len(batch) /\ at \in Nat \ {0} /\ at <= PasteEnd + 1
  BY <1>1, <1>2
<1>5. Paste \in Seq(Names) /\ Rising(Paste)
  BY <1>1, <1>4, Sliced, RisingSliced DEF Paste, Ranked
<1>6. \A m : Has(Paste, m) <=> \E i \in at..PasteEnd : batch[i] = m
  BY <1>1, <1>4, HasSliced DEF Paste
<1> QED
  BY <1>1, <1>2, <1>3, <1>5, <1>6

\* What the pusher does leaves the calls to be judged by the pane alone.
LEMMA CommandedKept ==
  ASSUME Commanded, UNCHANGED mailVars, UNCHANGED callVars, receipts \subseteq receipts',
         ~lost' => ~lost /\ Anchored'
  PROVE  Commanded'
<1>1. Called'
  BY DEF Commanded, Called, Issued, mailVars, callVars
<1>2. Reminding'
  BY SameMail DEF Commanded, Reminding, callVars
<1> QED
  BY <1>1, <1>2 DEF Commanded

\* The pane is as it was.
LEMMA AnchoredKept ==
  ASSUME Anchored, UNCHANGED mailVars, UNCHANGED callVars, UNCHANGED paneVars
  PROVE  Anchored'
BY SameMail DEF Anchored, callVars, paneVars, InPane

-----------------------------------------------------------------------------
(* The steps of the pusher                                                 *)

LEMMA IInvInit == Init => IInv
<1> SUFFICES ASSUME Init PROVE IInv
  OBVIOUS
<1> USE BoundAssumption, GraceAssumption DEF Init
<1>1. TypeOK
  <2>1. log \in [Logs -> Seq(Entries)] /\ offset \in [Logs -> Nat]
    OBVIOUS
  <2>2. pending \in Seq(Names) /\ batch \in Seq(Names) /\ draft \in Seq(Names)
        /\ lines \in Seq(Seq(Names))
    OBVIOUS
  <2>3. call \in [Calls -> CallStates] /\ command \in [Calls -> Control]
    BY DEF CallStates, Control
  <2>4. issued \in [Calls -> Names]
    BY DEF Names, Logs
  <2>5. misses \in 0..(Grace - 1) /\ failures \in 0..MaxFailures /\ stops \in Nat
    OBVIOUS
  <2> QED
    BY <2>1, <2>2, <2>3, <2>4, <2>5 DEF TypeOK
<1>2. \A m : ~InPane(m) /\ ~Has(batch, m) /\ ~Has(pending, m) /\ ~Has(draft, m)
  BY DEF InPane, Has
<1>3. AllTaken
  BY <1>2 DEF AllTaken
<1>4. Ranked /\ Armed /\ Pasting /\ Receipted
  BY DEF Ranked, Rising, Before, Armed, Pasting, Receipted
<1>5. Counted
  <2>1. ASSUME NEW m \in Names PROVE Standing(m) = {} /\ ~Waits(m)
    <3>1. \A p : p \in Places(<<>>, m) => FALSE
      BY DEF Places
    <3>2. <<>> \in Seq(Seq(Names)) /\ lines = <<>> /\ draft = <<>>
      OBVIOUS
    <3>3. Standing(m) = Places(<<>>, m)
      BY <3>2, PlacesSubmitted DEF Standing
    <3> QED
      BY <1>2, <3>1, <3>3 DEF Waits
  <2>2. failures = 0
    OBVIOUS
  <2>3. Cardinality({}) = 0 /\ IsFiniteSet({})
    BY FS_EmptySet
  <2> HIDE DEF Init
  <2>4. \A m \in Names : /\ IsFiniteSet(Standing(m)) /\ Cardinality(Standing(m)) = 0
                         /\ ~Waits(m)
    BY <2>1, <2>3
  <2> QED
    BY <2>2, <2>4 DEF Counted
<1>6. \A m : ~Taken(m)
  BY DEF Taken, Names
<1>7. Kept /\ InTurn
  BY <1>6 DEF Kept, InTurn
<1>8. \A c : Reminders(c) = {}
  BY MessagesAre, <1>1 DEF Reminders, Names
<1>9. Commanded
  BY <1>8 DEF Commanded, Called, Reminding, Anchored
<1> QED
  BY <1>1, <1>3, <1>4, <1>5, <1>7, <1>9 DEF IInv, Injected

\* The pane, the batch and what waits are as they were.
LEMMA CountedKept ==
  ASSUME Counted, UNCHANGED paneVars, failures' >= failures, failures \in Nat, failures' \in Nat,
         \A m \in Names : Waits(m)' => Waits(m) \/ Standing(m) = {} \/ failures' > failures
  PROVE  Counted'
<1> SUFFICES ASSUME NEW m \in Names
             PROVE  /\ IsFiniteSet(Standing(m))
                    /\ Cardinality(Standing(m)) <= 1 + failures'
                    /\ Waits(m)' => Cardinality(Standing(m)) <= failures'
  BY DEF Counted, paneVars, Standing
<1>1. /\ IsFiniteSet(Standing(m)) /\ Cardinality(Standing(m)) <= 1 + failures
      /\ Waits(m) => Cardinality(Standing(m)) <= failures
  BY DEF Counted
<1>2. Cardinality(Standing(m)) \in Nat
  BY <1>1, FS_CardinalityType
<1>3. Standing(m) = {} => Cardinality(Standing(m)) = 0
  BY FS_EmptySet
<1> QED
  BY <1>1, <1>2, <1>3

\* A message that was never taken stands nowhere.
LEMMA NowhereYet ==
  ASSUME TypeOK, AllTaken, NEW m, ~Taken(m)
  PROVE  Standing(m) = {} /\ ~InPane(m) /\ ~Has(draft, m)
<1>1. ~InPane(m) /\ ~Has(draft, m)
  BY DEF AllTaken
<1>2. ASSUME NEW p \in Standing(m) PROVE FALSE
  <2>1. /\ p \in Nat \X Nat /\ p[1] \in DOMAIN Append(lines, draft)
        /\ p[2] \in DOMAIN Append(lines, draft)[p[1]]
        /\ Append(lines, draft)[p[1]][p[2]] = m
    BY <1>2 DEF Standing, Places
  <2>2. CASE p[1] \in DOMAIN lines
    <3>1. Append(lines, draft)[p[1]] = lines[p[1]]
      BY <2>2 DEF TypeOK
    <3> QED
      BY <1>1, <2>1, <2>2, <3>1 DEF InPane, Has
  <2>3. CASE p[1] \notin DOMAIN lines
    <3>1. Append(lines, draft)[p[1]] = draft
      BY <2>1, <2>3 DEF TypeOK
    <3> QED
      BY <1>1, <2>1, <3>1 DEF Has
  <2> QED
    BY <2>2, <2>3
<1> QED
  BY <1>1, <1>2

LEMMA DrainKeeps ==
  ASSUME IInv, Drain,
         UNCHANGED <<log, misses, phase, batch, at, paneVars, receipts, callVars, historyVars>>,
         up' \in BOOLEAN
  PROVE  IInv'
<1> DEFINE d == Drained
<1>1. /\ d \in Seq(Names) /\ Rising(d)
      /\ \A m : Has(d, m) <=> /\ m \in Names /\ m[1] \in Followed /\ ShouldInject(m)
                              /\ m[2] \in (offset[m[1]] + 1)..Len(log[m[1]])
  BY DrainedFacts DEF IInv
<1>2. /\ pending' = pending \o d
      /\ offset' = [s \in Logs |-> IF s \in Followed THEN Len(log[s]) ELSE offset[s]]
      /\ timer' = (timer \/ pending \o d # <<>>)
      /\ UNCHANGED <<log, phase, batch, at, lines, draft, receipts, call, command, issued,
                     failures, stops, lost, misses>>
  BY DEF Drain, paneVars, callVars, historyVars
<1>3. TypeOK /\ AllTaken /\ Ranked /\ Armed /\ Pasting /\ Receipted /\ Counted
      /\ Commanded /\ (~lost => Kept /\ InTurn)
  BY DEF IInv, Injected
<1> HIDE DEF d
<1>4. /\ \A s \in Logs : offset[s] \in Nat /\ Len(log[s]) \in Nat /\ offset[s] <= Len(log[s])
      /\ \A s \in Logs : offset'[s] \in Nat /\ offset[s] <= offset'[s] /\ offset'[s] <= Len(log[s])
      /\ \A s \in Logs : offset'[s] # offset[s] => s \in Followed
      /\ \A s \in Followed : s \in Logs /\ offset'[s] = Len(log[s])
  <2>1. \A s \in Followed : s \in Logs
    BY DEF Followed, Logs
  <2> QED
    BY <1>2, <1>3, <2>1 DEF TypeOK, AllTaken
<1>5. TypeOK'
  <2>1. pending' \in Seq(Names) /\ timer' \in BOOLEAN
    BY <1>1, <1>2, <1>3 DEF TypeOK
  <2>2. offset' \in [Logs -> Nat]
    BY <1>2, <1>4
  <2> QED
    BY <1>2, <1>3, <2>1, <2>2 DEF TypeOK
<1>6. \A m : Taken(m)' <=> Taken(m) \/ Has(d, m)
  <2> SUFFICES ASSUME NEW m \in Names, ShouldInject(m)
               PROVE  m[2] \in 1..offset'[m[1]] <=>
                        \/ m[2] \in 1..offset[m[1]]
                        \/ /\ m[1] \in Followed
                           /\ m[2] \in (offset[m[1]] + 1)..Len(log[m[1]])
    BY <1>1, <1>2 DEF Taken, ShouldInject, Kind
  <2> QED
    BY <1>4 DEF Names
<1>7. \A m : Has(d, m) => m \in Names /\ ~Taken(m)
  BY <1>1, <1>4 DEF Taken, Names
<1>8. \A m : Has(pending', m) <=> Has(pending, m) \/ Has(d, m)
  BY <1>1, <1>2, <1>3, HasConcatenated DEF TypeOK
<1>9. \A m : /\ InPane(m)' <=> InPane(m)
             /\ InRest(m)' <=> InRest(m)
  BY <1>2 DEF InPane, InRest
<1>10. AllTaken'
  <2>1. \A m : Has(batch, m)' \/ Has(pending, m)' \/ Has(draft, m)' \/ InPane(m)' => Taken(m)'
    BY <1>2, <1>3, <1>6, <1>8, <1>9 DEF AllTaken
  <2> QED
    BY <1>2, <1>4, <2>1 DEF AllTaken
<1>11. Ranked'
  <2>1. \A m, n : Taken(m) /\ Has(d, n) /\ m[1] = n[1] => m[2] < n[2]
    BY <1>1, <1>4 DEF Taken, Names
  <2>2. Before(pending, d) /\ Before(batch, d)
    BY <1>3, <2>1, BeforeMeans DEF AllTaken
  <2> QED
    BY <1>1, <1>2, <1>3, <2>2, RisingConcatenated, BeforeConcatenated DEF Ranked, TypeOK
<1>12. Armed'
  <2>1. pending # <<>> => pending \o d # <<>>
    BY <1>1, <1>3 DEF TypeOK
  <2> QED
    BY <1>2, <1>3, <2>1 DEF Armed
<1>13. PasteEnd' = PasteEnd
  BY <1>2, SamePaste
<1>14. Pasting' /\ Receipted'
  BY <1>2, <1>3, <1>9, <1>13 DEF Pasting, Receipted
<1>15. Counted'
  <2>1. ASSUME NEW m \in Names, Waits(m)' PROVE Waits(m) \/ Standing(m) = {}
    <3>1. Waits(m) \/ Has(d, m)
      BY <1>2, <1>8, <1>13, <2>1 DEF Waits, Unpasted
    <3> QED
      BY <1>3, <1>7, <3>1, NowhereYet
  <2>2. failures' = failures /\ failures \in Nat
    BY <1>2, <1>3, BoundAssumption DEF TypeOK
  <2> QED
    BY <1>2, <1>3, <2>1, <2>2, CountedKept DEF paneVars
<1>16. ASSUME ~lost' PROVE Kept' /\ InTurn'
  <2>1. Kept /\ InTurn
    BY <1>2, <1>3, <1>16
  <2>2. Kept'
    BY <1>6, <1>8, <1>9, <2>1 DEF Kept
  <2>3. ASSUME NEW m, NEW n, Taken(m)', Taken(n), m[1] = n[1], m[2] < n[2] PROVE Taken(m)
    BY <1>2, <1>4, <2>3 DEF Taken, Names, ShouldInject, Kind
  <2>4. \A n : InPane(n) \/ Has(draft, n) => Taken(n)
    BY <1>3 DEF AllTaken
  <2>5. InTurn'
    BY <1>2, <1>9, <2>1, <2>3, <2>4 DEF InTurn
  <2> QED
    BY <2>2, <2>5
<1>17. Commanded'
  <2>1. \A c : Reminders(c)' = Reminders(c)
    BY <1>2 DEF Reminders, Messages
  <2>2. Called' /\ Reminding'
    BY <1>2, <1>3, <2>1 DEF Commanded, Called, Issued, Reminding
  <2>3. Anchored => Anchored'
    BY <1>2, <1>9, <2>1 DEF Anchored
  <2> QED
    BY <1>2, <1>3, <2>2, <2>3 DEF Commanded
<1> QED
  BY <1>5, <1>10, <1>11, <1>12, <1>14, <1>15, <1>16, <1>17 DEF IInv, Injected

LEMMA FlushKeeps == ASSUME IInv, Flush PROVE IInv'
<1>1. /\ timer /\ phase = "idle" /\ timer' = FALSE
      /\ batch' = pending /\ pending' = <<>> /\ at' = 1 /\ phase' = "load"
      /\ UNCHANGED <<log, offset, up, lines, draft, receipts, call, command, issued,
                     failures, stops, lost, misses>>
  BY DEF Flush, mailVars, paneVars, callVars, historyVars
<1>2. TypeOK /\ AllTaken /\ Ranked /\ Armed /\ Pasting /\ Receipted /\ Counted
      /\ Commanded /\ (~lost => Kept /\ InTurn)
  BY DEF IInv, Injected
<1>3. batch = <<>> /\ pending # <<>> /\ at = 1 /\ pending \in Seq(Names)
  BY <1>1, <1>2 DEF Armed, TypeOK
<1>4. UNCHANGED mailVars /\ UNCHANGED callVars /\ UNCHANGED paneVars
  BY <1>1 DEF mailVars, callVars, paneVars
<1>5. TypeOK'
  <2>1. 1 \in DOMAIN pending
    BY <1>3
  <2> QED
    BY <1>1, <1>2, <1>3, <2>1 DEF TypeOK
<1>6. \A m : /\ Taken(m)' <=> Taken(m)
             /\ InPane(m)' <=> InPane(m)
             /\ InRest(m)' <=> Has(pending, m)
             /\ ~Has(pending', m) /\ ~InRest(m)
  <2>1. \A m : Taken(m)' <=> Taken(m)
    BY <1>4, SameMail
  <2>2. \A m : InPane(m)' <=> InPane(m)
    BY <1>1 DEF InPane
  <2>3. \A m : InRest(m)' <=> Has(pending, m)
    <3>1. DOMAIN pending = 1..Len(pending)
      BY <1>3
    <3> QED
      BY <1>1, <3>1 DEF InRest, Has
  <2>4. \A m : ~Has(pending', m) /\ ~InRest(m)
    BY <1>1, <1>3 DEF InRest, Has
  <2> QED
    BY <2>1, <2>2, <2>3, <2>4
<1>7. AllTaken'
  BY <1>1, <1>2, <1>6 DEF AllTaken
<1>8. Ranked' /\ Armed' /\ Pasting' /\ Receipted'
  <2>1. Rising(<<>>) /\ Before(pending, <<>>)
    BY DEF Rising, Before
  <2> QED
    BY <1>1, <1>2, <1>6, <2>1 DEF Ranked, Armed, Pasting, Receipted
<1>9. Counted'
  <2>1. ASSUME NEW m \in Names, Waits(m)' PROVE Waits(m)
    <3>1. Has(pending, m)
      <4>1. DOMAIN pending = 1..Len(pending)
        BY <1>3
      <4> QED
        BY <1>1, <1>6, <2>1, <4>1 DEF Waits, Unpasted, Has
    <3> QED
      BY <3>1 DEF Waits
  <2>2. failures' = failures /\ failures \in Nat
    BY <1>1, <1>2, BoundAssumption DEF TypeOK
  <2> QED
    BY <1>2, <1>4, <2>1, <2>2, CountedKept
<1>10. ASSUME ~lost' PROVE Kept' /\ InTurn'
  <2>1. Kept /\ InTurn
    BY <1>1, <1>2, <1>10
  <2> QED
    BY <1>1, <1>6, <2>1 DEF Kept, InTurn
<1>11. Commanded'
  BY <1>1, <1>2, <1>4, AnchoredKept, CommandedKept DEF Commanded
<1> QED
  BY <1>5, <1>7, <1>8, <1>9, <1>10, <1>11 DEF IInv, Injected

LEMMA LoadAndPasteKeeps == ASSUME IInv, LoadAndPaste PROVE IInv'
<1>1. /\ phase = "load" /\ draft' = draft \o Paste /\ phase' = "pasted"
      /\ UNCHANGED <<log, offset, up, misses, pending, timer, batch, at, lines, receipts,
                     call, command, issued, failures, stops, lost>>
  BY DEF LoadAndPaste, mailVars, callVars, historyVars
<1>2. TypeOK /\ AllTaken /\ Ranked /\ Armed /\ Pasting /\ Receipted /\ Counted
      /\ Commanded /\ (~lost => Kept /\ InTurn)
  BY DEF IInv, Injected
<1>3. /\ at \in 1..Len(batch) /\ PasteEnd \in at..Len(batch) /\ Len(batch) \in Nat
      /\ \A i \in at..PasteEnd : Kind(batch[i]) \in Control => at = PasteEnd
      /\ Paste \in Seq(Names) /\ Rising(Paste)
      /\ \A m : Has(Paste, m) <=> \E i \in at..PasteEnd : batch[i] = m
  BY <1>1, <1>2, PasteFacts DEF TypeOK
<1>4. UNCHANGED mailVars /\ UNCHANGED callVars
  BY <1>1 DEF mailVars, callVars
<1>5. draft \in Seq(Names) /\ DOMAIN batch = 1..Len(batch)
  BY <1>2 DEF TypeOK
<1>6. PasteEnd' = PasteEnd
  BY <1>1, SamePaste
<1>7. /\ \A m : Has(draft', m) <=> Has(draft, m) \/ Has(Paste, m)
      /\ \A m : Taken(m)' <=> Taken(m)
      /\ \A m : InPane(m)' <=> InPane(m)
      /\ \A m : InRest(m)' <=> InRest(m)
  <2>1. \A m : Has(draft', m) <=> Has(draft, m) \/ Has(Paste, m)
    BY <1>1, <1>3, <1>5, HasConcatenated
  <2>2. \A m : Taken(m)' <=> Taken(m)
    BY <1>4, SameMail
  <2> QED
    BY <1>1, <2>1, <2>2 DEF InPane, InRest
<1>8. \A m : Has(Paste, m) => Has(batch, m) /\ Taken(m)
  <2> SUFFICES ASSUME NEW m, Has(Paste, m) PROVE Has(batch, m)
    BY <1>2 DEF AllTaken
  <2>1. PICK i \in at..PasteEnd : batch[i] = m
    BY <1>3
  <2>2. i \in DOMAIN batch
    BY <1>3, <1>5
  <2> QED
    BY <2>1, <2>2 DEF Has
<1>9. TypeOK'
  <2>1. draft' \in Seq(Names)
    BY <1>1, <1>3, <1>5
  <2> QED
    BY <1>1, <1>2, <2>1 DEF TypeOK
<1>10. AllTaken'
  BY <1>1, <1>2, <1>7, <1>8 DEF AllTaken
<1>11. Ranked' /\ Armed' /\ Receipted'
  BY <1>1, <1>2, <1>7 DEF Ranked, Armed, Receipted
<1>12. Pasting'
  BY <1>1, <1>3, <1>6, <1>7 DEF Pasting
\* Nothing in the paste comes again behind it.
<1>13. \A m : Has(Paste, m) => Waits(m) /\ ~Waits(m)'
  <2> SUFFICES ASSUME NEW m, NEW i \in at..PasteEnd, batch[i] = m
               PROVE  Waits(m) /\ ~Waits(m)'
    BY <1>3
  <2>1. Waits(m)
    BY <1>1, <1>3 DEF Waits, Unpasted
  <2>2. i \in DOMAIN batch /\ m \in Names /\ m[2] \in Nat
    <3>1. i \in DOMAIN batch
      BY <1>3, <1>5
    <3>2. batch \in Seq(Names)
      BY <1>2 DEF TypeOK
    <3>3. m \in Names
      BY <3>1, <3>2
    <3> QED
      BY <3>1, <3>3 DEF Names
  <2>3. Rising(batch) /\ Before(batch, pending)
    BY <1>2 DEF Ranked
  <2>4. \A j \in (PasteEnd + 1)..Len(batch) : batch[j] # m
    <3> SUFFICES ASSUME NEW j \in (PasteEnd + 1)..Len(batch), batch[j] = m
                 PROVE  FALSE
      OBVIOUS
    <3>1. j \in DOMAIN batch /\ i < j
      BY <1>3, <1>5
    <3>2. m[2] < m[2]
      BY <2>2, <2>3, <3>1 DEF Rising
    <3> QED
      BY <2>2, <3>2
  <2>5. ~Has(pending, m)
    <3> SUFFICES ASSUME Has(pending, m) PROVE FALSE
      OBVIOUS
    <3>1. m[2] < m[2]
      BY <2>2, <2>3 DEF Before, Has
    <3> QED
      BY <2>2, <3>1
  <2> QED
    BY <1>1, <1>6, <2>1, <2>4, <2>5 DEF Waits, Unpasted
<1>14. \A m : Waits(m)' => Waits(m)
  BY <1>1, <1>3, <1>6 DEF Waits, Unpasted
<1>15. Counted'
  <2> SUFFICES ASSUME NEW m \in Names
               PROVE  /\ IsFiniteSet(Standing(m)')
                      /\ Cardinality(Standing(m)') <= 1 + failures
                      /\ Waits(m)' => Cardinality(Standing(m)') <= failures
    BY <1>1 DEF Counted
  <2>1. /\ IsFiniteSet(Standing(m)) /\ Cardinality(Standing(m)) <= 1 + failures
        /\ Waits(m) => Cardinality(Standing(m)) <= failures
    BY <1>2 DEF Counted
  <2>2. Cardinality(Standing(m)) \in Nat /\ failures \in Nat
    BY <1>2, <2>1, FS_CardinalityType, BoundAssumption DEF TypeOK
  <2>3. /\ ~Has(Paste, m) => Standing(m)' = Standing(m)
        /\ Has(Paste, m) => \E p : p \notin Standing(m) /\ Standing(m)' = Standing(m) \cup {p}
    <3>1. lines \in Seq(Seq(Names))
      BY <1>2 DEF TypeOK
    <3> QED
      BY <1>1, <1>3, <1>5, <3>1, PlacesPasted DEF Standing
  <2>4. CASE ~Has(Paste, m)
    BY <1>14, <2>1, <2>3, <2>4
  <2>5. CASE Has(Paste, m)
    <3>1. PICK p : p \notin Standing(m) /\ Standing(m)' = Standing(m) \cup {p}
      BY <2>3, <2>5
    <3>2. IsFiniteSet(Standing(m)') /\ Cardinality(Standing(m)') = Cardinality(Standing(m)) + 1
      BY <2>1, <3>1, FS_AddElement
    <3> QED
      BY <1>13, <2>1, <2>2, <2>5, <3>2
  <2> QED
    BY <2>4, <2>5
\* What precedes a message of the paste in its log is in the pane or in the paste.
<1>16. ASSUME Kept, NEW m, NEW n, Taken(m), Has(Paste, n), m[1] = n[1], m[2] < n[2]
       PROVE  InPane(m) \/ Has(Paste, m)
  <2>1. PICK j \in at..PasteEnd : batch[j] = n
    BY <1>3, <1>16
  <2>2. j \in DOMAIN batch /\ n \in Names /\ m \in Names
    BY <1>2, <1>3, <1>5, <1>16, <2>1 DEF Taken, TypeOK
  <2>3. ~Has(pending, m)
    <3> SUFFICES ASSUME Has(pending, m) PROVE FALSE
      OBVIOUS
    <3>1. n[2] < m[2]
      BY <1>2, <1>16, <2>1, <2>2 DEF Ranked, Before, Has
    <3> QED
      BY <1>16, <2>2, <3>1 DEF Names
  <2>4. ASSUME NEW i \in at..Len(batch), batch[i] = m PROVE i \in at..PasteEnd
    <3>1. i \in DOMAIN batch
      BY <1>3, <1>5
    <3>2. ~(j < i)
      <4> SUFFICES ASSUME j < i PROVE FALSE
        OBVIOUS
      <4>1. n[2] < m[2]
        BY <1>2, <1>16, <2>1, <2>2, <2>4, <3>1 DEF Ranked, Rising
      <4> QED
        BY <1>16, <2>2, <4>1 DEF Names
    <3> QED
      BY <1>3, <2>1, <3>1, <3>2
  <2> QED
    BY <1>3, <1>16, <2>3, <2>4 DEF Kept, InRest
<1>17. ASSUME ~lost' PROVE Kept' /\ InTurn'
  <2>1. Kept /\ InTurn
    BY <1>1, <1>2, <1>17
  <2>2. Kept'
    BY <1>1, <1>7, <2>1 DEF Kept
  <2>3. InTurn'
    BY <1>7, <1>16, <2>1 DEF InTurn
  <2> QED
    BY <2>2, <2>3
<1>18. ASSUME ~lost' PROVE ~lost /\ Anchored'
  <2>1. ~lost /\ Kept /\ Anchored /\ Called /\ Reminding
    BY <1>1, <1>2, <1>18 DEF Commanded
  <2> SUFFICES ASSUME NEW c \in Calls, NEW m \in Reminders(c), issued[c][1] = Inbox,
                      InPane(m) \/ Has(draft, m) \/ Has(Paste, m)
               PROVE  \E n \in DOMAIN lines : /\ Has(lines[n], issued[c])
                                              /\ \A k \in 1..n : ~Has(lines[k], m)
    BY <1>1, <1>4, <1>7, <2>1, SameMail DEF Anchored
  <2>2. CASE InPane(m) \/ Has(draft, m)
    BY <2>1, <2>2 DEF Anchored
  <2>3. CASE Has(Paste, m) /\ ~InPane(m)
    <3> DEFINE o == issued[c]
    <3>1. /\ m \in Messages /\ m[1] = Inbox /\ o[2] < m[2] /\ command[c] = "clear"
          /\ Issued(c) /\ o \in Names /\ o[1] = Inbox
      BY <1>2, <2>1 DEF Reminding, Called, Reminders, TypeOK
    <3>2. Taken(m) /\ m \in Names
      BY <1>8, <2>3 DEF Taken
    <3>3. Kind(o) = "clear"
      BY <3>1 DEF Issued, Kind
    <3>4. Taken(o)
      <4>1. offset[Inbox] \in Nat
        BY <1>2 DEF TypeOK, Logs
      <4>2. o[2] \in 1..offset[Inbox]
        BY <3>1, <3>2, <4>1 DEF Taken, Names, Issued
      <4> QED
        BY <3>1, <3>3, <4>2 DEF Taken, ShouldInject
    <3> HIDE DEF o
    <3>5. InPane(o) \/ Has(Paste, o)
      BY <1>16, <2>1, <2>3, <3>1, <3>4
    <3>6. ~Has(Paste, o)
      <4> SUFFICES ASSUME NEW i \in at..PasteEnd, batch[i] = o,
                          NEW j \in at..PasteEnd, batch[j] = m
                   PROVE  FALSE
        BY <1>3, <2>3
      <4>1. at = PasteEnd
        BY <1>3, <3>3 DEF Control
      <4>2. i = j
        BY <1>3, <4>1
      <4> QED
        BY <3>1, <4>2 DEF Names
    <3>7. PICK n \in DOMAIN lines : Has(lines[n], o)
      BY <3>5, <3>6 DEF InPane
    <3>8. \A k \in 1..n : ~Has(lines[k], m)
      <4>1. 1..n \subseteq DOMAIN lines
        BY <1>2 DEF TypeOK
      <4> QED
        BY <2>3, <4>1 DEF InPane
    <3> QED
      BY <3>7, <3>8 DEF o
  <2> QED
    BY <2>2, <2>3
<1>19. Commanded'
  BY <1>1, <1>2, <1>4, <1>18, CommandedKept
<1> QED
  BY <1>9, <1>10, <1>11, <1>12, <1>15, <1>17, <1>19 DEF IInv, Injected

LEMMA EnterKeeps == ASSUME IInv, Enter PROVE IInv'
<1>1. /\ phase = "pasted" /\ lines' = Append(lines, draft) /\ draft' = <<>>
      /\ phase' = "entered"
      /\ UNCHANGED <<log, offset, up, misses, pending, timer, batch, at, receipts,
                     call, command, issued, failures, stops, lost>>
  BY DEF Enter, mailVars, callVars, historyVars
<1>2. TypeOK /\ AllTaken /\ Ranked /\ Armed /\ Pasting /\ Receipted /\ Counted
      /\ Commanded /\ (~lost => Kept /\ InTurn)
  BY DEF IInv, Injected
<1>3. /\ lines \in Seq(Seq(Names)) /\ draft \in Seq(Names)
      /\ DOMAIN lines = 1..Len(lines) /\ DOMAIN lines' = 1..(Len(lines) + 1)
      /\ \A n \in DOMAIN lines : lines'[n] = lines[n]
      /\ lines'[Len(lines) + 1] = draft /\ Len(lines) \in Nat
  <2>1. lines \in Seq(Seq(Names)) /\ draft \in Seq(Names)
    BY <1>2 DEF TypeOK
  <2> QED
    BY <1>1, <2>1
<1>4. UNCHANGED mailVars /\ UNCHANGED callVars
  BY <1>1 DEF mailVars, callVars
<1>5. PasteEnd' = PasteEnd
  BY <1>1, SamePaste
<1>6. /\ \A m : InPane(m)' <=> InPane(m) \/ Has(draft, m)
      /\ \A m : ~Has(draft', m)
      /\ \A m : Taken(m)' <=> Taken(m)
      /\ \A m : InRest(m)' <=> InRest(m)
  <2>1. ASSUME NEW m, InPane(m)' PROVE InPane(m) \/ Has(draft, m)
    <3>1. PICK n \in DOMAIN lines' : Has(lines'[n], m)
      BY <2>1 DEF InPane
    <3>2. n \in DOMAIN lines \/ n = Len(lines) + 1
      BY <1>3
    <3> QED
      BY <1>3, <3>1, <3>2 DEF InPane
  <2>2. ASSUME NEW m, InPane(m) PROVE InPane(m)'
    <3>1. PICK n \in DOMAIN lines : Has(lines[n], m)
      BY <2>2 DEF InPane
    <3>2. n \in DOMAIN lines' /\ lines'[n] = lines[n]
      BY <1>3
    <3> QED
      BY <3>1, <3>2 DEF InPane
  <2>3. ASSUME NEW m, Has(draft, m) PROVE InPane(m)'
    <3>1. Len(lines) + 1 \in DOMAIN lines'
      BY <1>3
    <3> QED
      BY <1>3, <2>3, <3>1 DEF InPane
  <2>4. \A m : Taken(m)' <=> Taken(m)
    BY <1>4, SameMail
  <2>5. \A m : ~Has(draft', m)
    BY <1>1 DEF Has
  <2>6. \A m : InRest(m)' <=> InRest(m)
    BY <1>1 DEF InRest
  <2> QED
    BY <2>1, <2>2, <2>3, <2>4, <2>5, <2>6
<1>7. TypeOK'
  <2>1. lines' \in Seq(Seq(Names)) /\ draft' \in Seq(Names)
    BY <1>1, <1>3
  <2> QED
    BY <1>1, <1>2, <2>1 DEF TypeOK
<1>8. AllTaken'
  BY <1>1, <1>2, <1>6 DEF AllTaken
<1>9. Ranked' /\ Armed' /\ Receipted'
  BY <1>1, <1>2, <1>6 DEF Ranked, Armed, Receipted
<1>10. Pasting'
  BY <1>1, <1>2, <1>5, <1>6 DEF Pasting
<1>11. Counted'
  <2>1. \A m : Standing(m)' = Standing(m)
    <3>1. lines' \in Seq(Seq(Names))
      BY <1>1, <1>3
    <3> QED
      BY <1>1, <3>1, PlacesSubmitted DEF Standing
  <2>2. \A m : Waits(m)' <=> Waits(m)
    BY <1>1, <1>5 DEF Waits, Unpasted
  <2> QED
    BY <1>1, <1>2, <2>1, <2>2 DEF Counted
<1>12. ASSUME ~lost' PROVE Kept' /\ InTurn'
  <2>1. Kept /\ InTurn
    BY <1>1, <1>2, <1>12
  <2> QED
    BY <1>1, <1>6, <2>1 DEF Kept, InTurn
<1>13. ASSUME ~lost' PROVE ~lost /\ Anchored'
  <2>1. ~lost /\ Anchored
    BY <1>1, <1>2, <1>13 DEF Commanded
  <2> SUFFICES ASSUME NEW c \in Calls, NEW m \in Reminders(c), issued[c][1] = Inbox,
                      InPane(m) \/ Has(draft, m)
               PROVE  \E n \in DOMAIN lines' : /\ Has(lines'[n], issued[c])
                                               /\ \A k \in 1..n : ~Has(lines'[k], m)
    BY <1>1, <1>4, <1>6, <2>1, SameMail DEF Anchored
  <2>2. PICK n \in DOMAIN lines : /\ Has(lines[n], issued[c])
                                  /\ \A k \in 1..n : ~Has(lines[k], m)
    BY <2>1 DEF Anchored
  <2>3. 1..n \subseteq DOMAIN lines /\ n \in DOMAIN lines'
    BY <1>3
  <2> QED
    BY <1>3, <2>2, <2>3
<1>14. Commanded'
  BY <1>1, <1>2, <1>4, <1>13, CommandedKept
<1> QED
  BY <1>7, <1>8, <1>9, <1>10, <1>11, <1>12, <1>14 DEF IInv, Injected

LEMMA StampKeeps == ASSUME IInv, Stamp PROVE IInv'
<1>1. /\ phase = "entered" /\ receipts' = receipts \cup ToSet(Paste)
      /\ UNCHANGED <<log, offset, up, misses, pending, timer, lines, draft,
                     call, command, issued, failures, stops, lost>>
      /\ IF PasteEnd = Len(batch)
         THEN phase' = "idle" /\ batch' = <<>> /\ at' = 1
         ELSE phase' = "load" /\ batch' = batch /\ at' = PasteEnd + 1
  BY DEF Stamp, NextPaste, mailVars, paneVars, callVars, historyVars
<1>2. TypeOK /\ AllTaken /\ Ranked /\ Armed /\ Pasting /\ Receipted /\ Counted
      /\ Commanded /\ (~lost => Kept /\ InTurn)
  BY DEF IInv, Injected
<1>3. /\ at \in 1..Len(batch) /\ PasteEnd \in at..Len(batch) /\ Len(batch) \in Nat
      /\ Paste \in Seq(Names)
      /\ \A m : Has(Paste, m) <=> \E i \in at..PasteEnd : batch[i] = m
  BY <1>1, <1>2, PasteFacts DEF TypeOK
<1>4. UNCHANGED mailVars /\ UNCHANGED callVars /\ UNCHANGED paneVars
  BY <1>1 DEF mailVars, callVars, paneVars
<1>5. batch \in Seq(Names) /\ DOMAIN batch = 1..Len(batch)
  BY <1>2 DEF TypeOK
<1>6. /\ \A m : Taken(m)' <=> Taken(m)
      /\ \A m : InPane(m)' <=> InPane(m)
      /\ \A m \in ToSet(Paste) : Has(Paste, m)
  <2>1. \A m : Taken(m)' <=> Taken(m)
    BY <1>4, SameMail
  <2> QED
    BY <1>1, <2>1 DEF InPane, ToSet, Has
\* What leaves the rest of the batch is in the pane.
<1>7. \A m : /\ InRest(m) => InPane(m) \/ InRest(m)'
             /\ Has(batch', m) => Has(batch, m)
  <2> SUFFICES ASSUME NEW m
               PROVE  /\ InRest(m) => InPane(m) \/ InRest(m)'
                      /\ Has(batch', m) => Has(batch, m)
    OBVIOUS
  <2>1. ASSUME NEW i \in at..Len(batch), batch[i] = m, ~InPane(m) PROVE InRest(m)'
    <3>1. i \notin at..PasteEnd
      BY <1>1, <1>2, <2>1 DEF Pasting
    <3>2. i \in (PasteEnd + 1)..Len(batch)
      BY <1>3, <3>1
    <3>3. batch' = batch /\ at' = PasteEnd + 1
      BY <1>1, <1>3, <3>2
    <3> QED
      BY <2>1, <3>2, <3>3 DEF InRest
  <2>2. Has(batch', m) => Has(batch, m)
    BY <1>1 DEF Has
  <2> QED
    BY <2>1, <2>2 DEF InRest
<1>8. TypeOK'
  <2>1. receipts' \subseteq Names
    BY <1>1, <1>2, <1>3 DEF TypeOK, ToSet
  <2>2. batch' \in Seq(Names) /\ at' \in (IF phase' = "idle" THEN {1} ELSE DOMAIN batch')
        /\ phase' \in {"idle", "load", "pasted", "entered"}
    <3>1. CASE PasteEnd = Len(batch)
      BY <1>1, <3>1
    <3>2. CASE PasteEnd # Len(batch)
      <4>1. PasteEnd + 1 \in 1..Len(batch)
        BY <1>3, <3>2
      <4> QED
        BY <1>1, <1>5, <3>2, <4>1
    <3> QED
      BY <3>1, <3>2
  <2> QED
    BY <1>1, <1>2, <2>1, <2>2 DEF TypeOK
<1>9. AllTaken'
  BY <1>1, <1>2, <1>6, <1>7 DEF AllTaken
<1>10. Ranked'
  <2>1. batch' = batch \/ batch' = <<>>
    BY <1>1
  <2>2. Rising(<<>>) /\ Before(<<>>, pending)
    BY DEF Rising, Before
  <2> QED
    BY <1>1, <1>2, <2>1, <2>2 DEF Ranked
<1>11. Armed' /\ Pasting'
  BY <1>1, <1>2 DEF Armed, Pasting
<1>12. Receipted'
  <2>1. \A m \in ToSet(Paste) : InPane(m)
    BY <1>1, <1>2, <1>3, <1>6 DEF Pasting
  <2> QED
    BY <1>1, <1>2, <1>6, <2>1 DEF Receipted
<1>13. Counted'
  <2>1. ASSUME NEW m \in Names, Waits(m)' PROVE Waits(m)
    BY <1>1, <2>1 DEF Waits, Unpasted
  <2>2. failures' = failures /\ failures \in Nat
    BY <1>1, <1>2, BoundAssumption DEF TypeOK
  <2> QED
    BY <1>2, <1>4, <2>1, <2>2, CountedKept
<1>14. ASSUME ~lost' PROVE Kept' /\ InTurn'
  <2>1. Kept /\ InTurn
    BY <1>1, <1>2, <1>14
  <2>2. Kept'
    BY <1>1, <1>6, <1>7, <2>1 DEF Kept
  <2>3. InTurn'
    BY <1>1, <1>6, <2>1 DEF InTurn
  <2> QED
    BY <2>2, <2>3
<1>15. Commanded'
  BY <1>1, <1>2, <1>4, AnchoredKept, CommandedKept DEF Commanded
<1> QED
  BY <1>8, <1>9, <1>10, <1>11, <1>12, <1>13, <1>14, <1>15 DEF IInv, Injected

LEMMA InjectFailsKeeps == ASSUME IInv, InjectFails PROVE IInv'
<1>1. /\ failures < MaxFailures /\ failures' = failures + 1
      /\ pending' = batch \o pending /\ batch' = <<>> /\ at' = 1
      /\ timer' = TRUE /\ phase' = "idle" /\ phase \in {"load", "pasted"}
      /\ UNCHANGED <<log, offset, up, misses, lines, draft, receipts, call, command, issued,
                     stops, lost>>
  BY DEF InjectFails, FailsWith, mailVars, paneVars, callVars
<1>2. TypeOK /\ AllTaken /\ Ranked /\ Armed /\ Pasting /\ Receipted /\ Counted
      /\ Commanded /\ (~lost => Kept /\ InTurn)
  BY DEF IInv, Injected
<1>3. UNCHANGED mailVars /\ UNCHANGED callVars /\ UNCHANGED paneVars
  BY <1>1 DEF mailVars, callVars, paneVars
<1>4. /\ batch \in Seq(Names) /\ pending \in Seq(Names) /\ pending' \in Seq(Names)
      /\ DOMAIN batch = 1..Len(batch) /\ at \in DOMAIN batch /\ pending' # <<>>
  <2>1. batch \in Seq(Names) /\ pending \in Seq(Names) /\ at \in DOMAIN batch
    BY <1>1, <1>2 DEF TypeOK
  <2>2. batch \o pending \in Seq(Names) /\ Len(batch \o pending) = Len(batch) + Len(pending)
    BY <2>1, Concatenated
  <2>3. Len(batch) # 0 /\ Len(batch) \in Nat /\ Len(pending) \in Nat
    BY <2>1
  <2>4. batch \o pending # <<>>
    BY <2>2, <2>3
  <2> QED
    BY <1>1, <2>1, <2>2, <2>4
<1>5. /\ \A m : Has(pending', m) <=> Has(batch, m) \/ Has(pending, m)
      /\ \A m : ~Has(batch', m)
      /\ \A m : Taken(m)' <=> Taken(m)
      /\ \A m : InPane(m)' <=> InPane(m)
      /\ \A m : InRest(m) => Has(batch, m)
  <2>1. \A m : Has(pending', m) <=> Has(batch, m) \/ Has(pending, m)
    BY <1>1, <1>4, HasConcatenated
  <2>2. \A m : Taken(m)' <=> Taken(m)
    BY <1>3, SameMail
  <2>3. \A m : InRest(m) => Has(batch, m)
    BY <1>4 DEF InRest, Has
  <2>4. \A m : ~Has(batch', m)
    BY <1>1 DEF Has
  <2> QED
    BY <1>1, <2>1, <2>2, <2>3, <2>4 DEF InPane
<1>6. failures \in Nat /\ failures' \in 0..MaxFailures
  BY <1>1, <1>2, BoundAssumption DEF TypeOK
<1>7. TypeOK'
  <2>1. batch' \in Seq(Names) /\ at' \in {1}
    BY <1>1
  <2> QED
    BY <1>1, <1>2, <1>4, <1>6, <2>1 DEF TypeOK
<1>8. AllTaken'
  BY <1>1, <1>2, <1>5 DEF AllTaken
<1>9. Ranked'
  <2>1. Rising(pending')
    BY <1>1, <1>2, <1>4, RisingConcatenated DEF Ranked
  <2>2. Rising(<<>>) /\ Before(<<>>, pending')
    BY DEF Rising, Before
  <2> QED
    BY <1>1, <2>1, <2>2 DEF Ranked
<1>10. Armed' /\ Pasting' /\ Receipted'
  BY <1>1, <1>2, <1>4, <1>5 DEF Armed, Pasting, Receipted
<1>11. Counted'
  <2>1. failures' > failures /\ failures' \in Nat
    BY <1>1, <1>6
  <2> QED
    BY <1>2, <1>3, <1>6, <2>1, CountedKept
<1>12. ASSUME ~lost' PROVE Kept' /\ InTurn'
  <2>1. Kept /\ InTurn
    BY <1>1, <1>2, <1>12
  <2>2. Kept'
    BY <1>5, <2>1 DEF Kept
  <2>3. InTurn'
    BY <1>1, <1>5, <2>1 DEF InTurn
  <2> QED
    BY <2>2, <2>3
<1>13. Commanded'
  BY <1>1, <1>2, <1>3, AnchoredKept, CommandedKept DEF Commanded
<1> QED
  BY <1>7, <1>8, <1>9, <1>10, <1>11, <1>12, <1>13 DEF IInv, Injected

LEMMA EndsKeeps ==
  ASSUME IInv, Ends, failures' \in 0..MaxFailures, failures' >= failures
  PROVE  IInv'
<1>1. /\ up' = FALSE /\ misses' = 0 /\ pending' = <<>> /\ timer' = FALSE
      /\ phase' = "idle" /\ batch' = <<>> /\ at' = 1 /\ stops' = stops + 1
      /\ lost' = (lost \/ pending # <<>> \/ batch # <<>>)
      /\ UNCHANGED <<log, offset, lines, draft, receipts, call, command, issued>>
  BY DEF Ends, mailVars, paneVars, callVars
<1>2. TypeOK /\ AllTaken /\ Ranked /\ Armed /\ Pasting /\ Receipted /\ Counted
      /\ Commanded /\ (~lost => Kept /\ InTurn)
  BY DEF IInv, Injected
<1>3. UNCHANGED mailVars /\ UNCHANGED callVars /\ UNCHANGED paneVars
  BY <1>1 DEF mailVars, callVars, paneVars
<1>4. /\ \A m : ~Has(pending', m) /\ ~Has(batch', m)
      /\ \A m : Taken(m)' <=> Taken(m)
      /\ \A m : InPane(m)' <=> InPane(m)
  <2>1. \A m : Taken(m)' <=> Taken(m)
    BY <1>3, SameMail
  <2> QED
    BY <1>1, <2>1 DEF InPane, Has
<1>5. failures \in Nat /\ failures' \in Nat
  BY <1>2, BoundAssumption DEF TypeOK
<1>6. TypeOK'
  <2>1. batch' \in Seq(Names) /\ pending' \in Seq(Names) /\ at' \in {1}
    BY <1>1
  <2>2. misses' \in 0..(Grace - 1) /\ stops' \in Nat /\ lost' \in BOOLEAN
    BY <1>1, <1>2, GraceAssumption DEF TypeOK
  <2> QED
    BY <1>1, <1>2, <2>1, <2>2 DEF TypeOK
<1>7. AllTaken'
  BY <1>1, <1>2, <1>4 DEF AllTaken
<1>8. Ranked' /\ Armed' /\ Pasting' /\ Receipted'
  BY <1>1, <1>2, <1>4 DEF Ranked, Rising, Before, Armed, Pasting, Receipted
<1>9. Counted'
  <2>1. \A m \in Names : ~Waits(m)'
    BY <1>1, <1>4 DEF Waits
  <2> QED
    BY <1>2, <1>3, <1>5, <2>1, CountedKept
<1>10. ASSUME ~lost' PROVE Kept' /\ InTurn'
  <2>1. ~lost /\ pending = <<>> /\ batch = <<>>
    BY <1>1, <1>2, <1>10 DEF TypeOK
  <2>2. Kept /\ InTurn
    BY <1>2, <2>1
  <2>3. \A m : ~Has(pending, m) /\ ~InRest(m)
    <3>1. \A i \in at..Len(batch) : FALSE
      BY <1>2, <2>1 DEF TypeOK
    <3> QED
      BY <2>1, <3>1 DEF Has, InRest
  <2>4. Kept'
    BY <1>4, <2>2, <2>3 DEF Kept
  <2>5. InTurn'
    BY <1>1, <1>4, <2>2 DEF InTurn
  <2> QED
    BY <2>4, <2>5
<1>11. Commanded'
  <2>1. ~lost' => ~lost
    BY <1>1, <1>2 DEF TypeOK
  <2> QED
    BY <1>1, <1>2, <1>3, <2>1, AnchoredKept, CommandedKept DEF Commanded
<1> QED
  BY <1>6, <1>7, <1>8, <1>9, <1>10, <1>11 DEF IInv, Injected

\* A probe that ends nothing.
LEMMA ProbeKeeps ==
  ASSUME IInv, misses' \in 0..(Grace - 1), failures' \in 0..MaxFailures,
         failures' >= failures,
         UNCHANGED <<mailVars, up, pending, timer, phase, batch, at, paneVars, receipts,
                     callVars, stops, lost>>
  PROVE  IInv'
<1>1. /\ UNCHANGED <<log, offset, up, pending, timer, phase, batch, at, lines, draft,
                     receipts, call, command, issued, stops, lost>>
      /\ UNCHANGED mailVars /\ UNCHANGED callVars /\ UNCHANGED paneVars
  BY DEF mailVars, paneVars, callVars
<1>2. TypeOK /\ AllTaken /\ Ranked /\ Armed /\ Pasting /\ Receipted /\ Counted
      /\ Commanded /\ (~lost => Kept /\ InTurn)
  BY DEF IInv, Injected
<1>3. /\ \A m : Taken(m)' <=> Taken(m)
      /\ \A m : InPane(m)' <=> InPane(m)
      /\ \A m : InRest(m)' <=> InRest(m)
      /\ PasteEnd' = PasteEnd
  BY <1>1, SameMail, SamePaste DEF InPane, InRest
<1>4. TypeOK'
  BY <1>1, <1>2 DEF TypeOK
<1>5. AllTaken' /\ Ranked' /\ Armed' /\ Pasting' /\ Receipted'
  BY <1>1, <1>2, <1>3 DEF AllTaken, Ranked, Armed, Pasting, Receipted
<1>6. Counted'
  <2>1. \A m \in Names : Waits(m)' => Waits(m)
    BY <1>1, <1>3 DEF Waits, Unpasted
  <2>2. failures \in Nat /\ failures' \in Nat
    BY <1>2, BoundAssumption DEF TypeOK
  <2> QED
    BY <1>1, <1>2, <2>1, <2>2, CountedKept
<1>7. ~lost' => Kept' /\ InTurn'
  BY <1>1, <1>2, <1>3 DEF Kept, InTurn
<1>8. Commanded'
  BY <1>1, <1>2, AnchoredKept, CommandedKept DEF Commanded
<1> QED
  BY <1>4, <1>5, <1>6, <1>7, <1>8 DEF IInv, Injected

-----------------------------------------------------------------------------
(* The steps of the bus and of send_command                                *)

LEMMA Deposited ==
  ASSUME TypeOK, NEW s \in Logs, NEW kind \in {"peer", "slash"} \cup Control,
         NEW c \in Calls \cup {NoCall}, Deposit(s, kind, c)
  PROVE  /\ log' \in [Logs -> Seq(Entries)]
         /\ \A t \in Logs : /\ Len(log'[t]) = IF t = s THEN Len(log[t]) + 1 ELSE Len(log[t])
                            /\ Len(log[t]) \in Nat
                            /\ \A i \in 1..Len(log[t]) : log'[t][i] = log[t][i]
         /\ log'[s][Len(log[s]) + 1] = [kind |-> kind, call |-> c]
<1>1. [kind |-> kind, call |-> c] \in Entries
  BY DEF Entries
<1> DEFINE e == [kind |-> kind, call |-> c]
<1> HIDE DEF e
<1>2. log' = [log EXCEPT ![s] = Append(log[s], e)] /\ log \in [Logs -> Seq(Entries)]
  BY DEF Deposit, TypeOK, e
<1>3. \A t \in Logs : log'[t] = IF t = s THEN Append(log[t], e) ELSE log[t]
  BY <1>2
<1>4. e \in Entries
  BY <1>1 DEF e
<1>5. \A q \in Seq(Entries) :
        /\ Append(q, e) \in Seq(Entries) /\ Len(Append(q, e)) = Len(q) + 1 /\ Len(q) \in Nat
        /\ \A i \in 1..Len(q) : Append(q, e)[i] = q[i]
        /\ Append(q, e)[Len(q) + 1] = e
  BY <1>4
<1>6. \A t \in Logs : log[t] \in Seq(Entries) /\ log'[t] \in Seq(Entries)
  BY <1>2, <1>3, <1>5
<1>7. log' \in [Logs -> Seq(Entries)]
  <2>1. log' = [t \in Logs |-> log'[t]]
    BY <1>2
  <2> QED
    BY <1>6, <2>1
<1>8. \A t \in Logs : /\ Len(log'[t]) = IF t = s THEN Len(log[t]) + 1 ELSE Len(log[t])
                      /\ Len(log[t]) \in Nat
                      /\ \A i \in 1..Len(log[t]) : log'[t][i] = log[t][i]
  <2> SUFFICES ASSUME NEW t \in Logs
               PROVE  /\ Len(log'[t]) = IF t = s THEN Len(log[t]) + 1 ELSE Len(log[t])
                      /\ Len(log[t]) \in Nat
                      /\ \A i \in 1..Len(log[t]) : log'[t][i] = log[t][i]
    OBVIOUS
  <2>1. CASE t = s
    <3>1. log'[t] = Append(log[t], e) /\ log[t] \in Seq(Entries)
      BY <1>3, <1>6, <2>1
    <3>2. /\ Len(Append(log[t], e)) = Len(log[t]) + 1 /\ Len(log[t]) \in Nat
          /\ \A i \in 1..Len(log[t]) : Append(log[t], e)[i] = log[t][i]
      BY <1>5, <3>1
    <3> QED
      BY <2>1, <3>1, <3>2
  <2>2. CASE t # s
    BY <1>3, <1>5, <1>6, <2>2
  <2> QED
    BY <2>1, <2>2
<1>9. log'[s][Len(log[s]) + 1] = e
  BY <1>3, <1>5, <1>6
<1> QED
  BY <1>7, <1>8, <1>9 DEF e

\* What the pusher and its pane hold does not depend on what comes into the logs.
LEMMA InjectedKept ==
  ASSUME TypeOK, Injected, UNCHANGED <<offset, memoryVars, paneVars, receipts, historyVars>>,
         \A t \in Logs : /\ Len(log'[t]) \in Nat /\ Len(log[t]) <= Len(log'[t])
                         /\ \A i \in 1..Len(log[t]) : log'[t][i] = log[t][i]
  PROVE  Injected'
<1>1. /\ UNCHANGED <<offset, pending, timer, phase, batch, at, lines, draft, receipts,
                     failures, stops, lost>>
      /\ UNCHANGED paneVars
  BY DEF memoryVars, paneVars, historyVars
<1>2. AllTaken /\ Ranked /\ Armed /\ Pasting /\ Receipted /\ Counted
      /\ (~lost => Kept /\ InTurn)
  BY DEF Injected
<1>3. \A t \in Logs : offset[t] \in Nat /\ Len(log[t]) \in Nat /\ offset[t] <= Len(log[t])
  BY <1>2 DEF TypeOK, AllTaken
<1>4. \A m \in Names : m[2] \in 1..offset[m[1]] => log'[m[1]][m[2]] = log[m[1]][m[2]]
  BY <1>3 DEF Names
<1>5. \A m : Taken(m)' <=> Taken(m)
  BY <1>1, <1>4 DEF Taken, ShouldInject, Kind
<1>6. PasteEnd' = PasteEnd
  <2>1. \A i \in DOMAIN batch : Taken(batch[i])
    BY <1>2 DEF AllTaken, Has
  <2>2. \A i \in DOMAIN batch : log'[batch[i][1]][batch[i][2]] = log[batch[i][1]][batch[i][2]]
    BY <1>4, <2>1 DEF Taken
  <2>3. ControlAt' = ControlAt
    BY <1>1, <2>2 DEF ControlAt, Kind
  <2> QED
    BY <1>1, <2>3 DEF PasteEnd
<1>7. \A m : (InPane(m)' <=> InPane(m)) /\ (InRest(m)' <=> InRest(m))
  BY <1>1 DEF InPane, InRest
<1>8. AllTaken'
  <2>1. \A t \in Logs : offset'[t] <= Len(log'[t])
    BY <1>1, <1>3
  <2> QED
    BY <1>1, <1>2, <1>5, <1>7, <2>1 DEF AllTaken
<1>9. Ranked' /\ Armed' /\ Pasting' /\ Receipted'
  BY <1>1, <1>2, <1>6, <1>7 DEF Ranked, Armed, Pasting, Receipted
<1>10. Counted'
  <2>1. \A m \in Names : Waits(m)' => Waits(m)
    BY <1>1, <1>6 DEF Waits, Unpasted
  <2>2. failures' = failures /\ failures \in Nat
    BY <1>1, BoundAssumption DEF TypeOK
  <2> QED
    BY <1>1, <1>2, <2>1, <2>2, CountedKept
<1>11. ~lost' => Kept' /\ InTurn'
  BY <1>1, <1>2, <1>5, <1>7 DEF Kept, InTurn
<1> QED
  BY <1>8, <1>9, <1>10, <1>11 DEF Injected

\* A reminder is the only entry that adds to a call's reminders.
LEMMA RemindersGrow ==
  ASSUME TypeOK, TypeOK', NEW s \in Logs, NEW kind \in {"peer", "slash"} \cup Control,
         NEW c \in Calls \cup {NoCall}, Deposit(s, kind, c),
         NEW d \in Calls, NEW m, m \in Reminders(d)'
  PROVE  m \in Reminders(d) \/ (kind = "peer" /\ c = d /\ m = <<s, Len(log[s]) + 1>>)
<1>1. /\ m \in Names /\ m[2] \in 1..Len(log'[m[1]])
      /\ log'[m[1]][m[2]] = [kind |-> "peer", call |-> d]
  <2>1. m \in Messages' /\ log'[m[1]][m[2]] = [kind |-> "peer", call |-> d]
    BY DEF Reminders
  <2>2. \A t \in Logs : DOMAIN log'[t] = 1..Len(log'[t]) /\ Len(log'[t]) \in Nat
    BY DEF TypeOK
  <2>3. \E t \in Logs : m \in {t} \X DOMAIN log'[t]
    BY <2>1 DEF Messages
  <2> QED
    BY <2>1, <2>2, <2>3 DEF Names
<1>2. /\ \A t \in Logs : /\ Len(log'[t]) = IF t = s THEN Len(log[t]) + 1 ELSE Len(log[t])
                         /\ Len(log[t]) \in Nat
                         /\ \A i \in 1..Len(log[t]) : log'[t][i] = log[t][i]
      /\ log'[s][Len(log[s]) + 1] = [kind |-> kind, call |-> c]
  BY Deposited
<1>3. m[1] \in Logs /\ m = <<m[1], m[2]>>
  BY <1>1 DEF Names
<1>4. CASE m[2] \in 1..Len(log[m[1]])
  <2>1. log[m[1]][m[2]] = [kind |-> "peer", call |-> d]
    BY <1>1, <1>2, <1>3, <1>4
  <2>2. m \in Messages
    BY <1>1, <1>4, MessagesAre
  <2> QED
    BY <2>1, <2>2 DEF Reminders
<1>5. CASE m[2] \notin 1..Len(log[m[1]])
  <2>1. m[1] = s /\ m[2] = Len(log[s]) + 1
    BY <1>1, <1>2, <1>3, <1>5
  <2>2. [kind |-> kind, call |-> c] = [kind |-> "peer", call |-> d]
    BY <1>1, <1>2, <2>1
  <2>3. kind = "peer" /\ c = d
    BY <2>2
  <2> QED
    BY <1>3, <2>1, <2>3
<1> QED
  BY <1>4, <1>5

\* What was issued stays where it is.
LEMMA IssuedStays ==
  ASSUME TypeOK, NEW c \in Calls, Issued(c), issued'[c] = issued[c], command'[c] = command[c],
         \A t \in Logs : /\ Len(log'[t]) \in Nat /\ Len(log[t]) <= Len(log'[t])
                         /\ \A i \in 1..Len(log[t]) : log'[t][i] = log[t][i]
  PROVE  Issued(c)'
<1>1. issued[c][1] \in Logs /\ \A t \in Logs : Len(log[t]) \in Nat
  BY SMTT(30) DEF TypeOK, Names
<1> DEFINE t == issued[c][1]
<1>2. issued[c][2] \in 1..Len(log'[t]) /\ log'[t][issued[c][2]] = log[t][issued[c][2]]
  BY <1>1 DEF Issued
<1> QED
  BY <1>2 DEF Issued

LEMMA SendKeeps == ASSUME IInv, NEW s \in Logs, NEW kind \in Traffic, Send(s, kind) PROVE IInv'
<1>1. /\ Deposit(s, kind, NoCall)
      /\ UNCHANGED <<offset, memoryVars, paneVars, receipts, historyVars>>
      /\ UNCHANGED <<up, call, command, issued, lines, draft, lost>>
      /\ UNCHANGED <<misses, pending, timer, phase, batch, at, failures, stops, receipts>>
  BY DEF Send, callVars, paneVars, historyVars, memoryVars
<1>2. TypeOK /\ Injected /\ Commanded /\ kind \in {"peer", "slash"} \cup Control
  BY TrafficAssumption DEF IInv
<1>3. /\ log' \in [Logs -> Seq(Entries)]
      /\ \A t \in Logs : /\ Len(log'[t]) \in Nat /\ Len(log[t]) <= Len(log'[t])
                         /\ \A i \in 1..Len(log[t]) : log'[t][i] = log[t][i]
  <2>1. \A t \in Logs : /\ Len(log'[t]) = IF t = s THEN Len(log[t]) + 1 ELSE Len(log[t])
                        /\ Len(log[t]) \in Nat
                        /\ \A i \in 1..Len(log[t]) : log'[t][i] = log[t][i]
    BY <1>1, <1>2, Deposited
  <2>2. log' \in [Logs -> Seq(Entries)]
    BY <1>1, <1>2, Deposited
  <2> QED
    BY <2>1, <2>2
<1>4. TypeOK'
  BY <1>1, <1>2, <1>3 DEF TypeOK
<1>5. Injected'
  BY <1>1, <1>2, <1>3, InjectedKept
<1>6. \A c \in Calls : \A m \in Reminders(c)' : m \in Reminders(c)
  BY <1>1, <1>2, <1>4, RemindersGrow, NobodyAssumption
<1>7. Called'
  <2>1. \A c \in Calls : Issued(c) => Issued(c)'
    BY <1>1, <1>2, <1>3, IssuedStays
  <2> QED
    BY <1>1, <1>2, <2>1 DEF Commanded, Called
<1>8. Reminding'
  BY <1>1, <1>2, <1>6 DEF Commanded, Reminding
<1>9. Anchored => Anchored'
  BY <1>1, <1>6 DEF Anchored, InPane
<1> QED
  BY <1>1, <1>2, <1>4, <1>5, <1>7, <1>8, <1>9 DEF IInv, Commanded

LEMMA GateKeeps ==
  ASSUME IInv, NEW c \in Calls, NEW cmd \in Commands, NEW s \in Targets, Gate(c, cmd, s)
  PROVE  IInv'
<1>1. /\ call[c] = "idle"
      /\ call' = [call EXCEPT ![c] = IF up THEN "allowed" ELSE "refused"]
      /\ command' = [command EXCEPT ![c] = cmd]
      /\ issued' = [issued EXCEPT ![c] = <<s, 0>>]
      /\ UNCHANGED <<log, offset, up, misses, pending, timer, phase, batch, at, lines, draft,
                     receipts, failures, stops, lost>>
      /\ UNCHANGED <<offset, memoryVars, paneVars, receipts, historyVars>>
  BY DEF Gate, mailVars, memoryVars, paneVars, historyVars
<1>2. TypeOK /\ Injected /\ Commanded
  BY DEF IInv
<1>3. cmd \in Control /\ <<s, 0>> \in Names
  BY CommandAssumption, TargetAssumption DEF Names
<1>4. /\ call \in [Calls -> CallStates] /\ command \in [Calls -> Control]
      /\ issued \in [Calls -> Names] /\ \A t \in Logs : Len(log[t]) \in Nat
  BY <1>2 DEF TypeOK
<1>5. TypeOK'
  <2>1. /\ call' \in [Calls -> CallStates] /\ command' \in [Calls -> Control]
        /\ issued' \in [Calls -> Names]
    BY <1>1, <1>3, <1>4 DEF CallStates
  <2> QED
    BY <1>1, <1>2, <2>1 DEF TypeOK
<1>6. Injected'
  BY <1>1, <1>2, <1>4, InjectedKept
<1>7. /\ \A d \in Calls : d # c => /\ call'[d] = call[d] /\ command'[d] = command[d]
                                   /\ issued'[d] = issued[d]
      /\ call'[c] \in {"allowed", "refused"}
  BY <1>1, <1>4
<1>8. \A d \in Calls : Reminders(d)' = Reminders(d)
  BY <1>1 DEF Reminders, Messages
<1>9. Reminders(c) = {}
  BY <1>1, <1>2 DEF Commanded, Reminding
<1>10. Called'
  BY <1>1, <1>2, <1>7 DEF Commanded, Called, Issued
<1>11. Reminding'
  BY <1>2, <1>7, <1>8, <1>9 DEF Commanded, Reminding
<1>12. Anchored => Anchored'
  BY <1>1, <1>7, <1>8, <1>9 DEF Anchored, InPane
<1> QED
  BY <1>1, <1>2, <1>5, <1>6, <1>10, <1>11, <1>12 DEF IInv, Commanded

LEMMA IssueKeeps == ASSUME IInv, NEW c \in Calls, NEW wait \in BOOLEAN, Issue(c, wait) PROVE IInv'
<1> DEFINE s == issued[c][1]
           n == Len(log[s]) + 1
<1>1. /\ call[c] = "allowed" /\ Deposit(s, command[c], c)
      /\ issued' = [issued EXCEPT ![c] = <<s, n>>]
      /\ call' = [call EXCEPT ![c] = IF wait THEN "waiting" ELSE "sent"]
      /\ UNCHANGED <<offset, up, misses, pending, timer, phase, batch, at, lines, draft,
                     receipts, command, failures, stops, lost>>
      /\ UNCHANGED <<offset, memoryVars, paneVars, receipts, historyVars>>
  BY DEF Issue, memoryVars, paneVars, historyVars
<1>2. TypeOK /\ Injected /\ Commanded
  BY DEF IInv
<1>3. /\ call \in [Calls -> CallStates] /\ command \in [Calls -> Control]
      /\ issued \in [Calls -> Names] /\ s \in Logs
  BY <1>2 DEF TypeOK, Names
<1> HIDE DEF s
<1>4. /\ log' \in [Logs -> Seq(Entries)]
      /\ \A t \in Logs : /\ Len(log'[t]) \in Nat /\ Len(log[t]) <= Len(log'[t])
                         /\ \A i \in 1..Len(log[t]) : log'[t][i] = log[t][i]
      /\ n \in 1..Len(log'[s]) /\ log'[s][n] = [kind |-> command[c], call |-> c]
  <2>1. command[c] \in {"peer", "slash"} \cup Control
    BY <1>3
  <2>2. /\ \A t \in Logs : /\ Len(log'[t]) = IF t = s THEN Len(log[t]) + 1 ELSE Len(log[t])
                           /\ Len(log[t]) \in Nat
                           /\ \A i \in 1..Len(log[t]) : log'[t][i] = log[t][i]
        /\ log'[s][n] = [kind |-> command[c], call |-> c]
        /\ log' \in [Logs -> Seq(Entries)]
    BY <1>1, <1>2, <1>3, <2>1, Deposited
  <2> QED
    BY <1>3, <2>2
<1>5. n \in Nat
  BY <1>4
<1> HIDE DEF n
<1>6. TypeOK'
  <2>1. call' \in [Calls -> CallStates] /\ issued' \in [Calls -> Names]
    BY <1>1, <1>3, <1>5 DEF CallStates, Names
  <2> QED
    BY <1>1, <1>2, <1>4, <2>1 DEF TypeOK
<1>7. Injected'
  BY <1>1, <1>2, <1>4, InjectedKept
<1>8. /\ \A d \in Calls : d # c => call'[d] = call[d] /\ issued'[d] = issued[d]
      /\ call'[c] \in {"waiting", "sent"} /\ issued'[c] = <<s, n>>
  BY <1>1, <1>3
<1>9. \A d \in Calls : \A m \in Reminders(d)' : m \in Reminders(d)
  <2>1. command[c] \in Control /\ command[c] # "peer"
    BY <1>3 DEF Control
  <2> QED
    BY <1>1, <1>2, <1>3, <1>6, <2>1, RemindersGrow
<1>10. Reminders(c) = {}
  BY <1>1, <1>2 DEF Commanded, Reminding
<1>11. Called'
  <2>1. \A d \in Calls : d # c /\ Issued(d) => Issued(d)'
    BY <1>1, <1>2, <1>4, <1>8, IssuedStays
  <2>2. Issued(c)'
    BY <1>1, <1>4, <1>8 DEF Issued
  <2> QED
    BY <1>1, <1>2, <1>8, <2>1, <2>2 DEF Commanded, Called
<1>12. Reminding'
  BY <1>1, <1>2, <1>8, <1>9, <1>10 DEF Commanded, Reminding
<1>13. Anchored => Anchored'
  BY <1>1, <1>8, <1>9, <1>10 DEF Anchored, InPane
<1> QED
  BY <1>1, <1>2, <1>6, <1>7, <1>11, <1>12, <1>13 DEF IInv, Commanded

\* A call has its receipt, or gives up waiting for it.
LEMMA AnswerKeeps == ASSUME IInv, NEW c \in Calls, Confirm(c) \/ TimeOut(c) PROVE IInv'
<1>1. /\ call[c] = "waiting"
      /\ \/ issued[c] \in receipts /\ call' = [call EXCEPT ![c] = "confirmed"]
         \/ call' = [call EXCEPT ![c] = "pending"]
      /\ UNCHANGED <<log, offset, up, misses, pending, timer, phase, batch, at, lines, draft,
                     receipts, command, issued, failures, stops, lost>>
      /\ UNCHANGED <<offset, memoryVars, paneVars, receipts, historyVars>>
  BY DEF Confirm, TimeOut, mailVars, memoryVars, paneVars, historyVars
<1>2. TypeOK /\ Injected /\ Commanded
  BY DEF IInv
<1>3. call \in [Calls -> CallStates] /\ \A t \in Logs : Len(log[t]) \in Nat
  BY <1>2 DEF TypeOK
<1>4. /\ \A d \in Calls : d # c => call'[d] = call[d]
      /\ call'[c] \in {"confirmed", "pending"}
      /\ call'[c] = "confirmed" => issued[c] \in receipts
  BY <1>1, <1>3
<1>5. TypeOK'
  <2>1. call' \in [Calls -> CallStates]
    BY <1>1, <1>3 DEF CallStates
  <2> QED
    BY <1>1, <1>2, <2>1 DEF TypeOK
<1>6. Injected'
  BY <1>1, <1>2, <1>3, InjectedKept
<1>7. \A d \in Calls : Reminders(d)' = Reminders(d)
  BY <1>1 DEF Reminders, Messages
<1>8. Called'
  BY <1>1, <1>2, <1>4 DEF Commanded, Called, Issued
<1>9. Reminding'
  BY <1>1, <1>2, <1>4, <1>7 DEF Commanded, Reminding
<1>10. Anchored => Anchored'
  BY <1>1, <1>7 DEF Anchored, InPane
<1> QED
  BY <1>1, <1>2, <1>5, <1>6, <1>8, <1>9, <1>10 DEF IInv, Commanded

LEMMA RemindKeeps == ASSUME IInv, NEW c \in Calls, Remind(c) PROVE IInv'
<1> DEFINE r == <<Inbox, Len(log[Inbox]) + 1>>
<1>1. /\ call[c] \in {"sent", "confirmed", "pending"} /\ command[c] = "clear"
      /\ Deposit(Inbox, "peer", c)
      /\ UNCHANGED <<offset, up, misses, pending, timer, phase, batch, at, lines, draft,
                     receipts, call, command, issued, failures, stops, lost>>
      /\ UNCHANGED <<offset, memoryVars, paneVars, receipts, historyVars>>
  BY DEF Remind, RemindWhen, callVars, memoryVars, paneVars, historyVars
<1>2. TypeOK /\ Injected /\ Commanded /\ Inbox \in Logs
  BY DEF IInv, Logs
<1>3. /\ log' \in [Logs -> Seq(Entries)]
      /\ \A t \in Logs : /\ Len(log'[t]) \in Nat /\ Len(log[t]) <= Len(log'[t])
                         /\ \A i \in 1..Len(log[t]) : log'[t][i] = log[t][i]
  <2>1. /\ \A t \in Logs : /\ Len(log'[t]) = IF t = Inbox THEN Len(log[t]) + 1 ELSE Len(log[t])
                           /\ Len(log[t]) \in Nat
                           /\ \A i \in 1..Len(log[t]) : log'[t][i] = log[t][i]
        /\ log' \in [Logs -> Seq(Entries)]
    BY <1>1, <1>2, Deposited
  <2> QED
    BY <2>1
<1>4. TypeOK'
  BY <1>1, <1>2, <1>3 DEF TypeOK
<1>5. Injected'
  BY <1>1, <1>2, <1>3, InjectedKept
<1>6. \A d \in Calls : \A m \in Reminders(d)' : m \in Reminders(d) \/ (d = c /\ m = r)
  BY <1>1, <1>2, <1>4, RemindersGrow
<1>7. Called'
  <2>1. \A d \in Calls : Issued(d) => Issued(d)'
    BY <1>1, <1>2, <1>3, IssuedStays
  <2> QED
    BY <1>1, <1>2, <2>1 DEF Commanded, Called
<1>8. Reminding'
  <2>1. issued[c][1] = Inbox => issued[c][2] < Len(log[Inbox]) + 1
    <3>1. Issued(c)
      BY <1>1, <1>2 DEF Commanded, Called
    <3>2. Len(log[Inbox]) \in Nat
      BY <1>2 DEF TypeOK
    <3> QED
      BY <3>1, <3>2 DEF Issued
  <2> QED
    BY <1>1, <1>2, <1>6, <2>1 DEF Commanded, Reminding
<1>9. ~InPane(r) /\ ~Has(draft, r)
  <2>1. ~Taken(r)
    <3>1. offset[Inbox] \in Nat /\ Len(log[Inbox]) \in Nat /\ offset[Inbox] <= Len(log[Inbox])
      BY <1>2 DEF TypeOK, Injected, AllTaken
    <3> QED
      BY <3>1 DEF Taken
  <2> QED
    BY <1>2, <2>1 DEF Injected, AllTaken
<1>10. Anchored => Anchored'
  BY <1>1, <1>6, <1>9 DEF Anchored, InPane
<1> QED
  BY <1>1, <1>2, <1>4, <1>5, <1>7, <1>8, <1>10 DEF IInv, Commanded

-----------------------------------------------------------------------------
(* Theorems                                                                *)

LEMMA IInvNext == IInv /\ [Next]_vars => IInv'
<1> SUFFICES ASSUME IInv, [Next]_vars PROVE IInv'
  OBVIOUS
<1>1. misses \in 0..(Grace - 1) /\ failures \in 0..MaxFailures /\ up \in BOOLEAN
      /\ MaxFailures \in Nat /\ Grace \in Nat
  BY BoundAssumption, GraceAssumption DEF IInv, TypeOK
<1>2. ASSUME NEW s \in Logs, NEW kind \in Traffic, Send(s, kind) PROVE IInv'
  BY <1>2, SendKeeps
<1>3. CASE Start
  BY <1>3, DrainKeeps DEF Start
<1>4. CASE CheckOnce
  BY <1>1, <1>4, DrainKeeps DEF CheckOnce
<1>5. CASE Flush
  BY <1>5, FlushKeeps
<1>6. CASE LoadAndPaste
  BY <1>6, LoadAndPasteKeeps
<1>7. CASE Enter
  BY <1>7, EnterKeeps
<1>8. CASE Stamp
  BY <1>8, StampKeeps
<1>9. CASE InjectFails
  BY <1>9, InjectFailsKeeps
<1>10. CASE Stop
  <2>1. Ends /\ failures' = failures
    BY <1>10 DEF Stop
  <2> QED
    BY <1>1, <2>1, EndsKeeps
<1>11. CASE ProbeOk
  <2>1. /\ misses' = 0
        /\ UNCHANGED <<mailVars, up, pending, timer, phase, batch, at, paneVars, receipts,
                       callVars, historyVars>>
    BY <1>11 DEF ProbeOk
  <2>2. misses' \in 0..(Grace - 1) /\ failures' = failures /\ UNCHANGED <<stops, lost>>
    BY <1>1, <2>1 DEF historyVars
  <2> QED
    BY <1>1, <2>1, <2>2, ProbeKeeps
<1>12. CASE ProbeMisses
  <2>1. failures' \in 0..MaxFailures /\ failures' >= failures
    BY <1>1, <1>12 DEF ProbeMisses
  <2>2. CASE misses + 1 >= Grace
    <3>1. Ends
      BY <1>12, <2>2 DEF ProbeMisses
    <3> QED
      BY <2>1, <3>1, EndsKeeps
  <2>3. CASE ~(misses + 1 >= Grace)
    <3>1. /\ misses' = misses + 1
          /\ UNCHANGED <<mailVars, up, pending, timer, phase, batch, at, paneVars,
                         receipts, callVars, stops, lost>>
      BY <1>12, <2>3 DEF ProbeMisses
    <3>2. misses' \in 0..(Grace - 1)
      BY <1>1, <2>3, <3>1
    <3> QED
      BY <2>1, <3>1, <3>2, ProbeKeeps
  <2> QED
    BY <2>2, <2>3
<1>13. ASSUME NEW c \in Calls, Command(c) PROVE IInv'
  <2>1. ASSUME NEW cmd \in Commands, NEW s \in Targets, Gate(c, cmd, s) PROVE IInv'
    BY <2>1, GateKeeps
  <2>2. ASSUME NEW wait \in BOOLEAN, Issue(c, wait) PROVE IInv'
    BY <2>2, IssueKeeps
  <2>3. CASE Confirm(c) \/ TimeOut(c)
    BY <2>3, AnswerKeeps
  <2>4. CASE Remind(c)
    BY <2>4, RemindKeeps
  <2> QED
    BY <1>13, <2>1, <2>2, <2>3, <2>4 DEF Command
<1>14. CASE UNCHANGED vars
  <2>1. /\ UNCHANGED <<mailVars, up, pending, timer, phase, batch, at, paneVars, receipts,
                       callVars, stops, lost>>
        /\ misses' = misses /\ failures' = failures
    BY <1>14 DEF vars, memoryVars, historyVars
  <2> QED
    BY <1>1, <2>1, ProbeKeeps
<1> QED
  BY <1>2, <1>3, <1>4, <1>5, <1>6, <1>7, <1>8, <1>9, <1>10, <1>11, <1>12, <1>13, <1>14
     DEF Next, Type, Fail

LEMMA IInvAlways == Spec => []IInv
BY IInvInit, IInvNext, PTL DEF Spec

\* The types of the logs, the pusher's memory, the pane and the calls.
THEOREM TypeAlways == Spec => []TypeOK
<1>1. IInv => TypeOK
  BY DEF IInv
<1> QED
  BY <1>1, IInvAlways, PTL

\* What is in the pane is a message of a log.
LEMMA InPaneTyped ==
  ASSUME IInv
  PROVE  \A m : m \in Typed <=> InPane(m)
<1>1. TypeOK /\ AllTaken
  BY DEF IInv, Injected
<1>2. \A m : InPane(m) <=> \E n \in DOMAIN lines : OnLine(m, n)
  BY DEF InPane, OnLine, ToSet, Has
<1>3. \A m : InPane(m) => m \in Messages
  <2> SUFFICES ASSUME NEW m, InPane(m) PROVE m \in Messages
    OBVIOUS
  <2>1. m \in Names /\ m[2] \in 1..offset[m[1]]
    BY <1>1 DEF AllTaken, Taken
  <2>2. \A t \in Logs : offset[t] \in Nat /\ Len(log[t]) \in Nat /\ offset[t] <= Len(log[t])
    BY <1>1 DEF TypeOK, AllTaken
  <2>3. m[2] \in 1..Len(log[m[1]])
    BY <2>1, <2>2 DEF Names
  <2> QED
    BY <1>1, <2>1, <2>3, MessagesAre
<1> QED
  BY <1>2, <1>3 DEF Typed

LEMMA IInvConfirmed == IInv => ConfirmedWasTyped
<1> SUFFICES ASSUME IInv, NEW c \in Calls, call[c] = "confirmed" PROVE InPane(issued[c])
  BY InPaneTyped DEF ConfirmedWasTyped
<1> QED
  BY DEF IInv, Injected, Commanded, Called, Receipted

\* A send_command that reports "confirmed" was typed into the pane and submitted,
\* whatever failed, was queued again, or stopped in between: receipts are stamped
\* after the Enter, and for what the paste under way holds.
THEOREM ConfirmedAlways == Spec => []ConfirmedWasTyped
BY IInvConfirmed, IInvAlways, PTL

LEMMA IInvConserved == IInv => Conserved
<1> SUFFICES ASSUME IInv, ~lost, NEW m \in Messages, m[2] <= offset[m[1]], ShouldInject(m)
             PROVE  m \in Typed \cup ToSet(SubSeq(batch, at, Len(batch))) \cup ToSet(pending)
  BY DEF Conserved
<1>1. TypeOK /\ Kept
  BY DEF IInv, Injected
<1>2. Taken(m)
  <2>1. m \in Names /\ m[2] \in 1..Len(log[m[1]])
    BY <1>1, MessagesAre
  <2>2. \A t \in Logs : offset[t] \in Nat /\ Len(log[t]) \in Nat
    BY <1>1 DEF TypeOK
  <2> QED
    BY <2>1, <2>2 DEF Taken, Names
<1>3. InPane(m) \/ InRest(m) \/ Has(pending, m)
  BY <1>1, <1>2 DEF Kept
<1>4. InRest(m) => m \in ToSet(SubSeq(batch, at, Len(batch)))
  <2>1. batch \in Seq(Names) /\ Len(batch) \in Nat
    BY <1>1 DEF TypeOK
  <2>2. at \in Nat \ {0} /\ at <= Len(batch) + 1
    BY <1>1, <2>1 DEF TypeOK
  <2>3. InRest(m) => Has(SubSeq(batch, at, Len(batch)), m)
    BY <2>1, <2>2, HasSliced DEF InRest
  <2> QED
    BY <2>3 DEF Has, ToSet
<1>5. Has(pending, m) => m \in ToSet(pending)
  BY DEF Has, ToSet
<1> QED
  BY <1>3, <1>4, <1>5, InPaneTyped

\* The cursor moves before anything is typed, so the pusher's memory is all there is
\* between the two: unless a pusher stops, every message the cursor has passed is
\* typed, or in the rest of the batch, or queued.
THEOREM ConservedAlways == Spec => []Conserved
BY IInvConserved, IInvAlways, PTL

LEMMA IInvInOrder == IInv => TypedInOrder
<1> SUFFICES ASSUME IInv PROVE NoOvertaking /\ TypedAgainOnlyOnFailure
  BY DEF TypedInOrder
<1>1. TypeOK /\ AllTaken /\ Counted /\ (~lost => InTurn)
  BY DEF IInv, Injected
<1>2. NoOvertaking
  <2> SUFFICES ASSUME ~lost, NEW m \in Messages, NEW n \in Messages, m[1] = n[1],
                      m[2] < n[2], ShouldInject(m), InPane(n)
               PROVE  InPane(m)
    BY InPaneTyped DEF NoOvertaking
  <2>1. Taken(n) /\ m \in Names /\ n \in Names /\ m[2] \in 1..Len(log[m[1]])
    BY <1>1, MessagesAre DEF AllTaken
  <2>2. \A t \in Logs : offset[t] \in Nat /\ Len(log[t]) \in Nat
    BY <1>1 DEF TypeOK
  <2>3. Taken(m)
    BY <2>1, <2>2 DEF Taken, Names
  <2> QED
    BY <1>1, <2>1, <2>3 DEF InTurn
<1>3. TypedAgainOnlyOnFailure
  <2> SUFFICES ASSUME NEW m \in Messages PROVE Times(m) <= 1 + failures
    BY DEF TypedAgainOnlyOnFailure
  <2> DEFINE W == UNION {{n} \X {i \in DOMAIN lines[n] : lines[n][i] = m} : n \in DOMAIN lines}
  <2>1. m \in Names
    BY <1>1, MessagesAre
  <2>2. lines \in Seq(Seq(Names)) /\ draft \in Seq(Names) /\ failures \in Nat
    BY <1>1, BoundAssumption DEF TypeOK
  <2>3. W \subseteq Places(lines, m)
    <3> SUFFICES ASSUME NEW n \in DOMAIN lines, NEW i \in DOMAIN lines[n], lines[n][i] = m
                 PROVE  <<n, i>> \in Places(lines, m)
      OBVIOUS
    <3>1. n \in Nat /\ i \in Nat
      BY <2>2
    <3> QED
      BY <3>1 DEF Places
  <2>4. W \subseteq Standing(m)
    BY <2>2, <2>3, PlacesAreFinite DEF Standing
  <2>5. IsFiniteSet(Standing(m)) /\ Cardinality(Standing(m)) <= 1 + failures
    BY <1>1, <2>1 DEF Counted
  <2> HIDE DEF W
  <2>6. /\ IsFiniteSet(W) /\ Cardinality(W) <= Cardinality(Standing(m))
        /\ Cardinality(W) \in Nat /\ Cardinality(Standing(m)) \in Nat
    BY <2>4, <2>5, FS_Subset, FS_CardinalityType
  <2>7. Times(m) = Cardinality(W)
    BY DEF Times, W
  <2> QED
    BY <2>2, <2>5, <2>6, <2>7
<1> QED
  BY <1>2, <1>3

\* A log's messages are typed in its order, since what failed goes back before what
\* was drained meanwhile; and a message is typed once, and once more for each failure
\* of tmux at most, over any number of restarts.
THEOREM TypedInOrderAlways == Spec => []TypedInOrder
BY IInvInOrder, IInvAlways, PTL

LEMMA IInvReminder == IInv => ReminderAfterClear
<1> SUFFICES ASSUME IInv, ~lost, NEW c \in Calls, NEW m \in Reminders(c),
                    issued[c][1] = Inbox, InPane(m)
             PROVE  \E n \in DOMAIN lines : /\ OnLine(issued[c], n)
                                            /\ \A k \in 1..n : ~OnLine(m, k)
  BY InPaneTyped DEF ReminderAfterClear
<1>1. PICK n \in DOMAIN lines : Has(lines[n], issued[c]) /\ \A k \in 1..n : ~Has(lines[k], m)
  BY DEF IInv, Commanded, Anchored
<1>2. \A k : \A o : Has(lines[k], o) <=> OnLine(o, k)
  BY DEF Has, OnLine, ToSet
<1> QED
  BY <1>1, <1>2

\* The reminder of a /clear is typed after the /clear it follows up, also when both
\* were queued again by failures: a command is pasted alone, and the reminder stands
\* behind it in the same log.
THEOREM ReminderAlways == Spec => []ReminderAfterClear
BY IInvReminder, IInvAlways, PTL
=============================================================================
