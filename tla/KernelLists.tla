---------------------------- MODULE KernelLists -----------------------------
(* What the list operations of Kernel do, for every list: the facts the    *)
(* proofs about the kernel's queues rest on.                               *)
EXTENDS Kernel, FiniteSetTheorems, SequenceTheorems, WellFoundedInduction,
        TLAPS

-----------------------------------------------------------------------------
(* Numbers: a set of naturals has a least element.                         *)

\* A non-empty set of naturals has a minimum; task_recalculate_priority and
\* the scans of alloc_task and alloc_sem compute one.
LEMMA MinExists ==
  ASSUME NEW S \in SUBSET Nat, S # {}
  PROVE  \E x \in S : \A y \in S : x <= y
<1> DEFINE R == {p \in Nat \X Nat : p[1] < p[2]}
<1>1. IsWellFoundedOn(R, Nat)
  BY NatLessThanWellFounded DEF OpToRel
<1> HIDE DEF R
<1>2. PICK x \in S : \A y \in S : ~(<<y, x>> \in R)
  BY <1>1, WFMin
<1>3. \A y \in S : ~(y < x)
  BY <1>2 DEF R
<1> QED
  BY <1>3

-----------------------------------------------------------------------------
(* Lists.                                                                  *)

\* The elements of two lists joined.
LEMMA Joined ==
  ASSUME NEW a \in Seq(Tasks), NEW b \in Seq(Tasks)
  PROVE  /\ a \o b \in Seq(Tasks) /\ Len(a \o b) = Len(a) + Len(b)
         /\ \A i \in 1..(Len(a) + Len(b)) :
              (a \o b)[i] = IF i <= Len(a) THEN a[i] ELSE b[i - Len(a)]
  OBVIOUS

\* An insertion walks past at most the whole list.
LEMMA PassedType ==
  ASSUME NEW q \in Seq(Tasks), NEW key, NEW k
  PROVE  Passed(q, key, k) \in 0..Len(q)
<1> DEFINE S == {i \in 1..Len(q) : \A j \in 1..i : key[q[j]] <= k}
<1>1. Len(q) \in Nat
  BY LenProperties
<1>2. IsFiniteSet(1..Len(q)) /\ Cardinality(1..Len(q)) = Len(q)
  <2>1. 1 \in Int /\ Len(q) \in Int
    BY <1>1
  <2>2. /\ IsFiniteSet(1..Len(q))
        /\ Cardinality(1..Len(q)) = IF 1 > Len(q) THEN 0 ELSE Len(q) - 1 + 1
    BY <2>1, FS_Interval, Zenon
  <2> QED
    BY <1>1, <2>2
<1>3. S \in SUBSET (1..Len(q)) /\ Passed(q, key, k) = Cardinality(S)
  BY DEF Passed
<1> HIDE DEF S
<1>4. IsFiniteSet(S) /\ Cardinality(S) <= Cardinality(1..Len(q))
  BY <1>2, <1>3, FS_Subset, Zenon
<1>5. Cardinality(S) \in Nat
  BY <1>4, FS_CardinalityType
<1> QED
  BY <1>1, <1>2, <1>3, <1>4, <1>5

\* priority_queue_push and sleep_queue_push add one element, wherever it goes.
LEMMA InsertProperties ==
  ASSUME NEW q \in Seq(Tasks), NEW t \in Tasks, NEW n \in 0..Len(q)
  PROVE  LET r == InsertAt(q, n + 1, t) IN
         /\ r \in Seq(Tasks)
         /\ Len(r) = Len(q) + 1
         /\ \A i \in 1..Len(r) : r[i] = IF i <= n THEN q[i]
                                        ELSE IF i = n + 1 THEN t ELSE q[i - 1]
<1> DEFINE a == SubSeq(q, 1, n)
           b == SubSeq(q, n + 1, Len(q))
           r == InsertAt(q, n + 1, t)
<1>1. Len(q) \in Nat /\ n \in Nat /\ (n + 1) - 1 = n
  BY LenProperties
<1>2. r = (a \o <<t>>) \o b
  <2>1. r = (SubSeq(q, 1, (n + 1) - 1) \o <<t>>) \o b
    BY Zenon DEF InsertAt
  <2> QED
    BY <1>1, <2>1, Zenon
<1>3. /\ a \in Seq(Tasks) /\ Len(a) = n
      /\ \A i \in 1..n : a[i] = q[i]
  BY <1>1, SubSeqProperties
<1>4. /\ b \in Seq(Tasks) /\ Len(b) = Len(q) - n
      /\ \A i \in 1..(Len(q) - n) : b[i] = q[n + i]
  BY <1>1, SubSeqProperties
<1>5. /\ a \o <<t>> \in Seq(Tasks) /\ Len(a \o <<t>>) = n + 1
      /\ \A i \in 1..(n + 1) : (a \o <<t>>)[i] = IF i <= n THEN q[i] ELSE t
  BY <1>1, <1>3
<1> DEFINE c == a \o <<t>>
<1> HIDE DEF a, b, c
<1>6. /\ r \in Seq(Tasks) /\ Len(r) = Len(q) + 1
      /\ \A i \in 1..Len(r) : r[i] = IF i <= n + 1 THEN c[i]
                                     ELSE b[i - (n + 1)]
  <2>1. r = c \o b /\ c \in Seq(Tasks) /\ Len(c) = n + 1
    BY <1>2, <1>5, Zenon DEF c
  <2>2. /\ c \o b \in Seq(Tasks) /\ Len(c \o b) = Len(c) + Len(b)
        /\ \A i \in 1..(Len(c) + Len(b)) :
             (c \o b)[i] = IF i <= Len(c) THEN c[i] ELSE b[i - Len(c)]
    BY <1>4, <2>1, Joined
  <2>3. Len(c) + Len(b) = Len(q) + 1
    BY <1>1, <1>4, <2>1
  <2> QED
    BY <2>1, <2>2, <2>3, Zenon
<1>7. ASSUME NEW i \in 1..Len(r), i > n + 1
      PROVE  r[i] = q[i - 1]
  <2>1. i - (n + 1) \in 1..(Len(q) - n) /\ n + (i - (n + 1)) = i - 1
    BY <1>1, <1>6, <1>7
  <2>2. b[i - (n + 1)] = q[i - 1]
    BY <1>4, <2>1
  <2> QED
    BY <1>1, <1>6, <1>7, <2>2
<1> HIDE DEF r
<1>8. \A i \in 1..Len(r) : r[i] = IF i <= n THEN q[i]
                                  ELSE IF i = n + 1 THEN t ELSE q[i - 1]
  <2>1. ASSUME NEW i \in 1..Len(r), i <= n + 1
        PROVE  r[i] = IF i <= n THEN q[i] ELSE t
    <3>1. r[i] = c[i] /\ i \in 1..(n + 1)
      BY <1>1, <1>6, <2>1
    <3> QED
      BY <1>5, <3>1 DEF c
  <2> QED
    BY <1>1, <1>6, <1>7, <2>1
<1> QED
  BY <1>6, <1>8 DEF r

\* A push adds its task to the list and disturbs nothing else.
LEMMA PushProperties ==
  ASSUME NEW q \in Seq(Tasks), NEW t \in Tasks, NEW key
  PROVE  LET r == OrderedPush(q, t, key) IN
         /\ r \in Seq(Tasks) /\ r # <<>>
         /\ \A u : In(u, r) <=> In(u, q) \/ u = t
         /\ IsInjective(q) /\ ~In(t, q) => IsInjective(r)
<1> DEFINE n == Passed(q, key, key[t])
           r == OrderedPush(q, t, key)
<1>1. n \in 0..Len(q) /\ Len(q) \in Nat
  BY PassedType
<1> HIDE DEF n
<1>2. /\ r \in Seq(Tasks) /\ Len(r) = Len(q) + 1
      /\ \A i \in 1..Len(r) : r[i] = IF i <= n THEN q[i]
                                     ELSE IF i = n + 1 THEN t ELSE q[i - 1]
  BY <1>1, InsertProperties DEF OrderedPush, n
<1> HIDE DEF r
<1>3. ASSUME NEW u, In(u, r)
      PROVE  In(u, q) \/ u = t
  <2>1. PICK i \in 1..Len(r) : r[i] = u
    BY <1>3 DEF In
  <2>2. CASE i <= n
    BY <1>1, <1>2, <2>1, <2>2 DEF In
  <2>3. CASE i = n + 1
    BY <1>1, <1>2, <2>1, <2>3
  <2>4. CASE i > n + 1
    <3>1. i - 1 \in 1..Len(q) /\ r[i] = q[i - 1]
      BY <1>1, <1>2, <2>4
    <3> QED
      BY <2>1, <3>1 DEF In
  <2> QED
    BY <1>1, <2>2, <2>3, <2>4
<1>4. ASSUME NEW u, In(u, q)
      PROVE  In(u, r)
  <2>1. PICK i \in 1..Len(q) : q[i] = u
    BY <1>4 DEF In
  <2>2. CASE i <= n
    BY <1>1, <1>2, <2>1, <2>2 DEF In
  <2>3. CASE i > n
    <3>1. i + 1 \in 1..Len(r) /\ r[i + 1] = q[(i + 1) - 1] /\ (i + 1) - 1 = i
      BY <1>1, <1>2, <2>3
    <3> QED
      BY <2>1, <3>1 DEF In
  <2> QED
    BY <1>1, <2>2, <2>3
<1>5. In(t, r)
  <2>1. n + 1 \in 1..Len(r) /\ r[n + 1] = t
    BY <1>1, <1>2
  <2> QED
    BY <2>1 DEF In
<1>6. ASSUME IsInjective(q), ~In(t, q)
      PROVE  IsInjective(r)
  <2> SUFFICES ASSUME NEW a \in 1..Len(r), NEW b \in 1..Len(r),
                      r[a] = r[b], a < b
               PROVE  FALSE
    BY <1>1, <1>2 DEF IsInjective
  <2>1. \A i \in 1..Len(q) : q[i] # t
    BY <1>6 DEF In
  <2>2. \A i, j \in 1..Len(q) : q[i] = q[j] => i = j
    BY <1>6 DEF IsInjective
  <2>3. CASE b <= n
    BY <1>1, <1>2, <2>2, <2>3
  <2>4. CASE b = n + 1
    BY <1>1, <1>2, <2>1, <2>4
  <2>5. CASE b > n + 1
    <3>1. b - 1 \in 1..Len(q) /\ r[b] = q[b - 1]
      BY <1>1, <1>2, <2>5
    <3>2. CASE a <= n
      BY <1>1, <1>2, <2>2, <2>5, <3>1, <3>2
    <3>3. CASE a = n + 1
      BY <1>1, <1>2, <2>1, <3>1, <3>3
    <3>4. CASE a > n + 1
      <4>1. a - 1 \in 1..Len(q) /\ r[a] = q[a - 1]
        BY <1>1, <1>2, <3>4
      <4> QED
        BY <2>2, <3>1, <4>1
    <3> QED
      BY <1>1, <3>2, <3>3, <3>4
  <2> QED
    BY <1>1, <2>3, <2>4, <2>5
<1>7. r # <<>>
  BY <1>1, <1>2
<1> QED
  BY <1>2, <1>3, <1>4, <1>5, <1>6, <1>7 DEF r

\* priority_queue_remove closes the gap that its task leaves.
LEMMA RemoveProperties ==
  ASSUME NEW q \in Seq(Tasks), NEW t \in Tasks, In(t, q)
  PROVE  \E k \in 1..Len(q) :
           /\ q[k] = t
           /\ Unlink(q, t) \in Seq(Tasks) /\ Len(Unlink(q, t)) = Len(q) - 1
           /\ \A i \in 1..(Len(q) - 1) :
                Unlink(q, t)[i] = IF i < k THEN q[i] ELSE q[i + 1]
<1> DEFINE k == CHOOSE i \in 1..Len(q) : q[i] = t
           a == SubSeq(q, 1, k - 1)
           b == SubSeq(q, k + 1, Len(q))
           r == a \o b
<1>1. k \in 1..Len(q) /\ q[k] = t
  BY DEF In
<1>2. Unlink(q, t) = r
  BY Zenon DEF Unlink, In, RemoveAt
<1> HIDE DEF k
<1>3. Len(q) \in Nat /\ k \in Nat
  BY <1>1
<1>4. /\ a \in Seq(Tasks) /\ Len(a) = k - 1
      /\ \A i \in 1..(k - 1) : a[i] = q[i]
  BY <1>1, <1>3
<1>5. /\ b \in Seq(Tasks) /\ Len(b) = Len(q) - k
      /\ \A i \in 1..(Len(q) - k) : b[i] = q[k + i]
  BY <1>1, <1>3
<1> HIDE DEF a, b
<1>6. /\ r \in Seq(Tasks) /\ Len(r) = Len(q) - 1
      /\ \A i \in 1..Len(r) : r[i] = IF i <= k - 1 THEN a[i]
                                     ELSE b[i - (k - 1)]
  <2>1. Len(a) + Len(b) = Len(q) - 1
    BY <1>1, <1>3, <1>4, <1>5
  <2> QED
    BY <1>4, <1>5, <2>1, Joined
<1> HIDE DEF r
<1>7. \A i \in 1..Len(r) : r[i] = IF i < k THEN q[i] ELSE q[i + 1]
  <2> TAKE i \in 1..Len(r)
  <2>1. CASE i < k
    BY <1>1, <1>3, <1>4, <1>6, <2>1
  <2>2. CASE i >= k
    <3>1. i - (k - 1) \in 1..(Len(q) - k) /\ k + (i - (k - 1)) = i + 1
      BY <1>1, <1>3, <1>6, <2>2
    <3>2. b[i - (k - 1)] = q[i + 1]
      BY <1>5, <3>1
    <3> QED
      BY <1>1, <1>3, <1>6, <2>2, <3>2
  <2> QED
    BY <1>3, <2>1, <2>2
<1> QED
  BY <1>1, <1>2, <1>6, <1>7

\* priority_queue_remove takes its task out of a list without duplicates.
LEMMA UnlinkProperties ==
  ASSUME NEW q \in Seq(Tasks), NEW t \in Tasks, IsInjective(q)
  PROVE  /\ Unlink(q, t) \in Seq(Tasks)
         /\ \A u : In(u, Unlink(q, t)) <=> In(u, q) /\ u # t
         /\ IsInjective(Unlink(q, t))
<1>1. CASE ~In(t, q)
  <2>1. Unlink(q, t) = q
    BY <1>1, Zenon DEF Unlink, In
  <2> QED
    BY <1>1, <2>1
<1>2. CASE In(t, q)
  <2> DEFINE r == Unlink(q, t)
  <2> HIDE DEF r
  <2>1. PICK k \in 1..Len(q) :
          /\ q[k] = t /\ r \in Seq(Tasks) /\ Len(r) = Len(q) - 1
          /\ \A i \in 1..(Len(q) - 1) : r[i] = IF i < k THEN q[i] ELSE q[i + 1]
    BY <1>2, RemoveProperties DEF r
  <2>3. Len(q) \in Nat /\ k \in Nat
    BY <2>1
  <2>6. r \in Seq(Tasks) /\ Len(r) = Len(q) - 1
    BY <2>1
  <2>7. \A i \in 1..Len(r) : r[i] = IF i < k THEN q[i] ELSE q[i + 1]
    BY <2>1
  <2>8. \A i, j \in 1..Len(q) : q[i] = q[j] => i = j
    BY DEF IsInjective
  <2>9. ASSUME NEW u, In(u, r)
        PROVE  In(u, q) /\ u # t
    <3>1. PICK i \in 1..Len(r) : r[i] = u
      BY <2>9 DEF In
    <3>2. CASE i < k
      BY <2>1, <2>3, <2>6, <2>7, <2>8, <3>1, <3>2 DEF In
    <3>3. CASE i >= k
      <4>1. i + 1 \in 1..Len(q) /\ q[i + 1] = u /\ i + 1 # k
        BY <2>1, <2>3, <2>6, <2>7, <3>1, <3>3
      <4> QED
        BY <2>1, <2>8, <4>1 DEF In
    <3> QED
      BY <2>3, <3>2, <3>3
  <2>10. ASSUME NEW u, In(u, q), u # t
         PROVE  In(u, r)
    <3>1. PICK i \in 1..Len(q) : q[i] = u
      BY <2>10 DEF In
    <3>2. CASE i < k
      <4>1. i \in 1..Len(r) /\ r[i] = u
        BY <2>1, <2>3, <2>6, <2>7, <3>1, <3>2
      <4> QED
        BY <4>1 DEF In
    <3>3. CASE i > k
      <4>1. i - 1 \in 1..Len(r) /\ (i - 1) + 1 = i /\ ~(i - 1 < k)
        BY <2>1, <2>3, <2>6, <3>3
      <4>2. r[i - 1] = u
        BY <2>7, <3>1, <4>1
      <4> QED
        BY <4>1, <4>2 DEF In
    <3> QED
      BY <2>1, <2>3, <2>10, <3>1, <3>2, <3>3
  <2>11. IsInjective(r)
    <3> SUFFICES ASSUME NEW i \in 1..Len(r), NEW j \in 1..Len(r), r[i] = r[j]
                 PROVE  i = j
      BY <2>6 DEF IsInjective
    <3> DEFINE at(x) == IF x < k THEN x ELSE x + 1
    <3>1. at(i) \in 1..Len(q) /\ at(j) \in 1..Len(q)
      BY <2>1, <2>3, <2>6
    <3>2. q[at(i)] = q[at(j)]
      BY <2>7
    <3>3. at(i) = at(j)
      BY <2>8, <3>1, <3>2
    <3> QED
      BY <2>3, <3>3
  <2> QED
    BY <2>6, <2>9, <2>10, <2>11 DEF r
<1> QED
  BY <1>1, <1>2

\* priority_queue_reoder, and the remove and push of scheduler_put_task:
\* afterwards the task is on the list, once.
LEMMA ReorderProperties ==
  ASSUME NEW q \in Seq(Tasks), NEW t \in Tasks, NEW key, IsInjective(q)
  PROVE  /\ Reorder(q, t, key) \in Seq(Tasks)
         /\ Reorder(q, t, key) # <<>>
         /\ \A u : In(u, Reorder(q, t, key)) <=> In(u, q) \/ u = t
         /\ IsInjective(Reorder(q, t, key))
<1> DEFINE p == Unlink(q, t)
<1>1. p \in Seq(Tasks) /\ IsInjective(p) /\ ~In(t, p)
      /\ \A u : In(u, p) <=> In(u, q) /\ u # t
  BY UnlinkProperties
<1> HIDE DEF p
<1>2. LET r == OrderedPush(p, t, key) IN
      /\ r \in Seq(Tasks) /\ r # <<>>
      /\ \A u : In(u, r) <=> In(u, p) \/ u = t
      /\ IsInjective(r)
  BY <1>1, PushProperties
<1> QED
  BY <1>1, <1>2, Zenon DEF Reorder, p

\* Taking the first element off a list.
LEMMA TailProperties ==
  ASSUME NEW q \in Seq(Tasks), q # <<>>, IsInjective(q)
  PROVE  /\ Head(q) \in Tasks /\ In(Head(q), q)
         /\ Tail(q) \in Seq(Tasks) /\ IsInjective(Tail(q))
         /\ \A u : In(u, Tail(q)) <=> In(u, q) /\ u # Head(q)
<1>1. /\ Len(q) \in Nat \ {0} /\ Head(q) = q[1] /\ Head(q) \in Tasks
      /\ Tail(q) \in Seq(Tasks) /\ Len(Tail(q)) = Len(q) - 1
      /\ \A i \in 1..(Len(q) - 1) : Tail(q)[i] = q[i + 1]
  OBVIOUS
<1>2. \A i, j \in 1..Len(q) : q[i] = q[j] => i = j
  BY DEF IsInjective
<1> DEFINE r == Tail(q)
<1> HIDE DEF r
<1>3. In(Head(q), q)
  BY <1>1 DEF In
<1>4. IsInjective(r)
  BY <1>1, <1>2 DEF IsInjective, r
<1>5. ASSUME NEW u, In(u, r)
      PROVE  In(u, q) /\ u # Head(q)
  BY <1>1, <1>2, <1>5 DEF In, r
<1>6. ASSUME NEW u, In(u, q), u # Head(q)
      PROVE  In(u, r)
  <2>1. PICK i \in 1..Len(q) : q[i] = u
    BY <1>6 DEF In
  <2>2. i - 1 \in 1..Len(r) /\ (i - 1) + 1 = i
    BY <1>1, <1>6, <2>1 DEF r
  <2> QED
    BY <1>1, <2>1, <2>2 DEF In, r
<1> QED
  BY <1>1, <1>3, <1>4, <1>5, <1>6 DEF r

\* queue_push: at the tail.
LEMMA AppendKeeps ==
  ASSUME NEW q \in Seq(Tasks), NEW t \in Tasks
  PROVE  /\ Append(q, t) \in Seq(Tasks)
         /\ \A u : In(u, Append(q, t)) <=> In(u, q) \/ u = t
         /\ IsInjective(q) /\ ~In(t, q) => IsInjective(Append(q, t))
<1> DEFINE r == Append(q, t)
<1>1. /\ r \in Seq(Tasks) /\ Len(r) = Len(q) + 1 /\ Len(q) \in Nat
      /\ \A i \in 1..(Len(q) + 1) : r[i] = IF i <= Len(q) THEN q[i] ELSE t
  OBVIOUS
<1> HIDE DEF r
<1>2. \A u : In(u, r) <=> In(u, q) \/ u = t
  BY <1>1 DEF In
<1>3. ASSUME IsInjective(q), ~In(t, q)
      PROVE  IsInjective(r)
  BY <1>1, <1>3 DEF In, IsInjective
<1> QED
  BY <1>1, <1>2, <1>3 DEF r

-----------------------------------------------------------------------------
(* The order of a list.                                                    *)

\* An insertion walks past exactly the elements of a prefix whose keys do not
\* exceed its own, and stops at the first one that does.
LEMMA PassedPrefix ==
  ASSUME NEW q \in Seq(Tasks), NEW key \in [Tasks -> Nat], NEW k \in Nat
  PROVE  /\ \A i \in 1..Passed(q, key, k) : key[q[i]] <= k
         /\ Passed(q, key, k) < Len(q) => key[q[Passed(q, key, k) + 1]] > k
<1> DEFINE S == {i \in 1..Len(q) : \A j \in 1..i : key[q[j]] <= k}
           C == {i \in 1..(Len(q) + 1) : i \notin S}
<1>1. Len(q) \in Nat /\ \A i \in 1..Len(q) : key[q[i]] \in Nat
  OBVIOUS
<1>2. C \in SUBSET Nat /\ Len(q) + 1 \in C
  BY <1>1
<1>3. PICK c \in C : \A x \in C : c <= x
  BY <1>2, MinExists
<1>4. c \in Nat /\ c >= 1 /\ c <= Len(q) + 1 /\ c \notin S
  BY <1>1, <1>3
<1>5. \A i \in 1..(c - 1) : i \in S
  <2> TAKE i \in 1..(c - 1)
  <2>1. i \in 1..(Len(q) + 1) /\ i < c
    BY <1>1, <1>4
  <2> QED
    BY <1>3, <1>4, <2>1
<1>6. \A i \in S : i < c
  <2> SUFFICES ASSUME NEW i \in S, i >= c
               PROVE  FALSE
    BY <1>1, <1>4
  <2>1. c \in 1..Len(q) /\ \A j \in 1..c : key[q[j]] <= k
    BY <1>1, <1>4
  <2> QED
    BY <1>4, <2>1
<1>7. S = 1..(c - 1)
  BY <1>1, <1>4, <1>5, <1>6
<1>8. Passed(q, key, k) = c - 1
  <2>1. Cardinality(1..(c - 1)) = c - 1
    BY <1>4, FS_Interval, SMT
  <2> QED
    BY <1>7, <2>1 DEF Passed
<1>9. \A i \in 1..(c - 1) : key[q[i]] <= k
  BY <1>5
<1>10. c - 1 < Len(q) => key[q[c]] > k
  <2> SUFFICES ASSUME c - 1 < Len(q), ~(key[q[c]] > k)
               PROVE  FALSE
    OBVIOUS
  <2>1. c \in 1..Len(q) /\ key[q[c]] <= k
    BY <1>1, <1>4
  <2>2. \A j \in 1..c : key[q[j]] <= k
    BY <1>4, <1>9, <2>1
  <2> QED
    BY <1>4, <2>1, <2>2
<1> HIDE DEF S, C
<1> QED
  BY <1>4, <1>8, <1>9, <1>10

\* priority_queue_push and sleep_queue_push keep a list in order.
LEMMA PushSorted ==
  ASSUME NEW q \in Seq(Tasks), NEW t \in Tasks, NEW key \in [Tasks -> Nat],
         Sorted(q, key)
  PROVE  Sorted(OrderedPush(q, t, key), key)
<1> DEFINE n == Passed(q, key, key[t])
           r == OrderedPush(q, t, key)
<1>1. n \in 0..Len(q) /\ Len(q) \in Nat
  BY PassedType
<1>2. /\ \A i \in 1..n : key[q[i]] <= key[t]
      /\ n < Len(q) => key[q[n + 1]] > key[t]
  BY PassedPrefix
<1> HIDE DEF n
<1>3. /\ Len(r) = Len(q) + 1
      /\ \A i \in 1..Len(r) : r[i] = IF i <= n THEN q[i]
                                     ELSE IF i = n + 1 THEN t ELSE q[i - 1]
  BY <1>1, InsertProperties DEF OrderedPush, n
<1> HIDE DEF r
<1>4. \A i \in 1..Len(q) : key[q[i]] \in Nat
  OBVIOUS
<1>5. \A i, j \in 1..Len(q) : i < j => key[q[i]] <= key[q[j]]
  BY DEF Sorted
<1>6. \A i \in 1..Len(q) : i > n => key[q[i]] > key[t]
  <2> SUFFICES ASSUME NEW i \in 1..Len(q), i > n
               PROVE  key[q[i]] > key[t]
    OBVIOUS
  <2>1. n + 1 \in 1..Len(q) /\ key[q[n + 1]] > key[t] /\ (i = n + 1 \/ n + 1 < i)
    BY <1>1, <1>2
  <2> QED
    BY <1>4, <1>5, <2>1
<1>7. ASSUME NEW i \in 1..Len(r), NEW j \in 1..Len(r), i < j
      PROVE  key[r[i]] <= key[r[j]]
  <2>1. CASE j <= n
    <3>1. i \in 1..Len(q) /\ j \in 1..Len(q) /\ r[i] = q[i] /\ r[j] = q[j]
      BY <1>1, <1>3, <1>7, <2>1
    <3> QED
      BY <1>5, <1>7, <3>1
  <2>2. CASE j = n + 1
    <3>1. i \in 1..n /\ i \in 1..Len(q)
      BY <1>1, <1>7, <2>2
    <3>2. r[i] = q[i] /\ r[j] = t
      BY <1>1, <1>3, <2>2, <3>1
    <3> QED
      BY <1>2, <3>1, <3>2
  <2>3. CASE j > n + 1
    <3>1. j - 1 \in 1..Len(q) /\ j - 1 > n /\ r[j] = q[j - 1]
      BY <1>1, <1>3, <2>3
    <3>2. CASE i <= n
      <4>1. i \in 1..Len(q) /\ r[i] = q[i] /\ i < j - 1
        BY <1>1, <1>3, <3>1, <3>2
      <4> QED
        BY <1>5, <3>1, <4>1
    <3>3. CASE i = n + 1
      <4>1. r[i] = t /\ key[t] \in Nat
        BY <1>1, <1>3, <3>3
      <4>2. key[q[j - 1]] > key[t] /\ key[q[j - 1]] \in Nat
        BY <1>4, <1>6, <3>1
      <4> QED
        BY <3>1, <4>1, <4>2
    <3>4. CASE i > n + 1
      <4>1. i - 1 \in 1..Len(q) /\ i - 1 < j - 1
        BY <1>1, <1>3, <1>7, <3>4
      <4>2. r[i] = q[i - 1]
        BY <1>1, <1>3, <1>7, <3>4
      <4> QED
        BY <1>5, <3>1, <4>1, <4>2
    <3> QED
      BY <1>1, <3>2, <3>3, <3>4
  <2> QED
    BY <1>1, <2>1, <2>2, <2>3
<1> QED
  BY <1>7 DEF Sorted, r

\* The order depends on the keys of the elements only.
LEMMA SortedKeys ==
  ASSUME NEW q \in Seq(Tasks), NEW key, NEW new, Sorted(q, key),
         \A t \in Tasks : In(t, q) => new[t] = key[t]
  PROVE  Sorted(q, new)
<1>1. \A i \in 1..Len(q) : q[i] \in Tasks /\ In(q[i], q)
  BY DEF In
<1> QED
  BY <1>1 DEF Sorted

\* priority_queue_remove keeps the order, also of a task whose key changed.
LEMMA UnlinkSorted ==
  ASSUME NEW q \in Seq(Tasks), NEW t \in Tasks, IsInjective(q),
         NEW key, NEW new, Sorted(q, key),
         \A u \in Tasks : u # t => new[u] = key[u]
  PROVE  Sorted(Unlink(q, t), new)
<1>1. /\ Unlink(q, t) \in Seq(Tasks)
      /\ \A u : In(u, Unlink(q, t)) <=> In(u, q) /\ u # t
  BY UnlinkProperties
<1>2. Sorted(Unlink(q, t), key)
  <2>1. CASE ~In(t, q)
    <3>1. Unlink(q, t) = q
      BY <2>1, Zenon DEF Unlink, In
    <3> QED
      BY <3>1
  <2>2. CASE In(t, q)
    <3> DEFINE r == Unlink(q, t)
    <3> HIDE DEF r
    <3>1. PICK k \in 1..Len(q) :
            /\ q[k] = t /\ r \in Seq(Tasks) /\ Len(r) = Len(q) - 1
            /\ \A i \in 1..(Len(q) - 1) : r[i] = IF i < k THEN q[i] ELSE q[i + 1]
      BY <2>2, RemoveProperties DEF r
    <3>2. Len(q) \in Nat /\ k \in Nat
      BY <3>1
    <3>3. \A i, j \in 1..Len(q) : i < j => key[q[i]] <= key[q[j]]
      BY DEF Sorted
    <3> DEFINE at(x) == IF x < k THEN x ELSE x + 1
    <3>4. ASSUME NEW i \in 1..Len(r), NEW j \in 1..Len(r), i < j
          PROVE  key[r[i]] <= key[r[j]]
      <4>1. at(i) \in 1..Len(q) /\ at(j) \in 1..Len(q) /\ at(i) < at(j)
        BY <3>1, <3>2, <3>4
      <4>2. r[i] = q[at(i)] /\ r[j] = q[at(j)]
        BY <3>1
      <4> HIDE DEF at
      <4> QED
        BY <3>3, <4>1, <4>2
    <3> QED
      BY <3>4 DEF Sorted, r
  <2> QED
    BY <2>1, <2>2
<1>3. \A u \in Tasks : In(u, Unlink(q, t)) => new[u] = key[u]
  BY <1>1
<1> QED
  BY <1>1, <1>2, <1>3, SortedKeys

\* priority_queue_reoder puts a task whose priority changed where it belongs.
LEMMA ReorderSorted ==
  ASSUME NEW q \in Seq(Tasks), NEW t \in Tasks, IsInjective(q),
         NEW key, NEW new \in [Tasks -> Nat], Sorted(q, key),
         \A u \in Tasks : u # t => new[u] = key[u]
  PROVE  Sorted(Reorder(q, t, new), new)
<1>1. Unlink(q, t) \in Seq(Tasks)
  BY UnlinkProperties
<1>2. Sorted(Unlink(q, t), new)
  BY UnlinkSorted
<1> QED
  BY <1>1, <1>2, PushSorted DEF Reorder

\* queue_pop takes the least element and keeps the order of the others.
LEMMA TailSorted ==
  ASSUME NEW q \in Seq(Tasks), q # <<>>, NEW key \in [Tasks -> Nat], Sorted(q, key)
  PROVE  /\ Sorted(Tail(q), key)
         /\ \A t : In(t, q) => key[Head(q)] <= key[t]
<1>1. /\ Len(q) \in Nat \ {0} /\ Head(q) = q[1] /\ Len(Tail(q)) = Len(q) - 1
      /\ \A i \in 1..(Len(q) - 1) : Tail(q)[i] = q[i + 1]
      /\ \A i \in 1..Len(q) : key[q[i]] \in Nat
  OBVIOUS
<1>2. \A i, j \in 1..Len(q) : i < j => key[q[i]] <= key[q[j]]
  BY DEF Sorted
<1> DEFINE r == Tail(q)
<1> HIDE DEF r
<1>3. Sorted(r, key)
  <2> SUFFICES ASSUME NEW i \in 1..Len(r), NEW j \in 1..Len(r), i < j
               PROVE  key[r[i]] <= key[r[j]]
    BY DEF Sorted
  <2>1. i + 1 \in 1..Len(q) /\ j + 1 \in 1..Len(q) /\ i + 1 < j + 1
        /\ r[i] = q[i + 1] /\ r[j] = q[j + 1]
    BY <1>1 DEF r
  <2> QED
    BY <1>2, <2>1
<1>4. \A t : In(t, q) => key[Head(q)] <= key[t]
  <2> SUFFICES ASSUME NEW i \in 1..Len(q)
               PROVE  key[q[1]] <= key[q[i]]
    BY <1>1 DEF In
  <2> QED
    BY <1>1, <1>2
<1> QED
  BY <1>3, <1>4 DEF r

=============================================================================
