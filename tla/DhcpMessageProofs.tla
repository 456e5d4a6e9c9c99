------------------------- MODULE DhcpMessageProofs --------------------------
(***************************************************************************)
(* Theorems about DhcpMessage, for any bytes in any number of datagrams    *)
(* and any sizes of the buffers: dhcp_parse reads what the bytes say, and  *)
(* a reply says what the request asks for.                                 *)
(***************************************************************************)
EXTENDS DhcpMessage, SequenceTheorems, WellFoundedInduction, TLAPS

-----------------------------------------------------------------------------
(* Options as sequences of bytes.                                          *)

\* A non-empty set of naturals has a least element.
LEMMA LeastNat ==
  ASSUME NEW S \in SUBSET Nat, S # {}
  PROVE  \E x \in S : \A y \in S : x <= y
<1> DEFINE Less == {q \in Nat \X Nat : q[1] < q[2]}
<1>1. IsWellFoundedOn(Less, Nat)
  BY NatLessThanWellFounded DEF OpToRel
<1> HIDE DEF Less
<1>2. PICK x \in S : \A y \in S : ~(<<y, x>> \in Less)
  BY <1>1, WFMin
<1>3. \A y \in S : ~(y < x)
  BY <1>2 DEF Less
<1> QED
  BY <1>3

\* What holds at the last position, and at one if it does at all later ones,
\* holds at all.
LEMMA Downward ==
  ASSUME NEW n \in Nat, NEW G \in SUBSET (1..n + 1), n + 1 \in G,
         \A m \in 1..n : (\A k \in (m + 1)..(n + 1) : k \in G) => m \in G
  PROVE  \A p \in 1..n + 1 : p \in G
<1> DEFINE Bad == {k \in 0..n : n + 1 - k \notin G}
<1> SUFFICES ASSUME NEW p \in 1..n + 1, p \notin G PROVE FALSE
  OBVIOUS
<1>1. n + 1 - p \in Bad
  BY n + 1 - (n + 1 - p) = p
<1>2. Bad \in SUBSET Nat /\ Bad # {}
  <2>1. Bad \in SUBSET Nat
    OBVIOUS
  <2> HIDE DEF Bad
  <2> QED
    BY <1>1, <2>1
<1>3. PICK k \in Bad : \A y \in Bad : k <= y
  <2> HIDE DEF Bad
  <2> QED
    BY <1>2, LeastNat
<1>4. k \in 0..n /\ n + 1 - k \notin G
  OBVIOUS
<1>5. k # 0
  BY <1>4, n + 1 - 0 = n + 1
<1>6. ASSUME NEW q \in (n + 2 - k)..(n + 1)
      PROVE  q \in G
  <2>1. n + 1 - q \in 0..n /\ n + 1 - q < k /\ n + 1 - (n + 1 - q) = q
    BY <1>4, <1>5
  <2>2. n + 1 - q \notin Bad
    <3> HIDE DEF Bad
    <3> QED
      BY <1>3, <1>4, <2>1
  <2> QED
    BY <2>1, <2>2
<1>7. n + 1 - k \in 1..n /\ (n + 1 - k) + 1 = n + 2 - k
  BY <1>4, <1>5
<1> QED
  BY <1>4, <1>6, <1>7

\* The options from position p of the bytes b on, when f says what follows each
\* later position.
Step(b, f, p) ==
  IF p >= Len(b) THEN <<>>
  ELSE IF b[p] = END THEN <<>>
  ELSE IF b[p] = PAD THEN f[p + 1]
  ELSE IF p + 1 + b[p + 1] > Len(b) THEN <<Overrun>>
  ELSE <<[code |-> b[p], data |-> SubSeq(b, p + 2, p + 1 + b[p + 1])]>>
       \o f[p + 2 + b[p + 1]]

\* Step looks only at later positions.
LEMMA StepLater ==
  ASSUME NEW b \in Seq(Nat), NEW p \in 1..Len(b) + 1, NEW f, NEW g,
         \A q \in (p + 1)..(Len(b) + 1) : f[q] = g[q]
  PROVE  Step(b, f, p) = Step(b, g, p)
<1>1. CASE p >= Len(b)
  BY <1>1 DEF Step
<1>2. CASE p < Len(b)
  <2>1. b[p] \in Nat /\ b[p + 1] \in Nat /\ Len(b) \in Nat
    BY <1>2
  <2>2. f[p + 1] = g[p + 1]
    BY <1>2, <2>1
  <2>3. ~(p + 1 + b[p + 1] > Len(b)) =>
          f[p + 2 + b[p + 1]] = g[p + 2 + b[p + 1]]
    <3>1. SUFFICES ASSUME ~(p + 1 + b[p + 1] > Len(b))
                   PROVE  p + 2 + b[p + 1] \in (p + 1)..(Len(b) + 1)
      OBVIOUS
    <3> DEFINE k == b[p + 1]
               n == Len(b)
    <3>2. k \in Nat /\ n \in Nat /\ p + 1 + k <= n /\ p \in Nat
      BY <2>1, <3>1
    <3> HIDE DEF k, n
    <3>3. p + 2 + k \in (p + 1)..(n + 1)
      BY <3>2
    <3> QED
      BY <3>3 DEF k, n
  <2> QED
    <3>1. CASE b[p] = END \/ b[p] = PAD
      <4>1. ~(p >= Len(b))
        BY <1>2, <2>1
      <4> QED
        BY <2>2, <3>1, <4>1, Zenon DEF Step
    <3>2. CASE b[p] # END /\ b[p] # PAD /\ p + 1 + b[p + 1] > Len(b)
      BY <1>2, <2>1, <3>2 DEF Step
    <3>3. CASE b[p] # END /\ b[p] # PAD /\ ~(p + 1 + b[p + 1] > Len(b))
      <4>1. ~(p >= Len(b))
        BY <1>2, <2>1
      <4>2. f[p + 2 + b[p + 1]] = g[p + 2 + b[p + 1]]
        BY <2>3, <3>3
      <4> QED
        BY <3>3, <4>1, <4>2, Zenon DEF Step
    <3> QED
      BY <3>1, <3>2, <3>3
<1> QED
  BY <1>1, <1>2

\* The recursion of OptionsFrom has a solution: it runs from the last position
\* down to the first.
LEMMA StepSolution ==
  ASSUME NEW b \in Seq(Nat)
  PROVE  \E f : f = [p \in 1..Len(b) + 1 |-> Step(b, f, p)]
<1> DEFINE n == Len(b)
           Solves(f, m) == f = [p \in m..n + 1 |-> Step(b, f, p)]
           Good == {m \in 1..n + 1 : \E f : Solves(f, m)}
<1>0. n \in Nat
  OBVIOUS
<1>1. n + 1 \in Good
  <2>1. \A f : Step(b, f, n + 1) = <<>>
    BY <1>0 DEF Step
  <2>2. Solves([p \in (n + 1)..(n + 1) |-> <<>>], n + 1)
    <3>1. \A p \in (n + 1)..(n + 1) : p = n + 1
      BY <1>0
    <3> QED
      BY <2>1, <3>1
  <2>3. \E f : Solves(f, n + 1)
    BY <2>2
  <2> HIDE DEF Solves
  <2> QED
    BY <1>0, <2>3
<1>2. ASSUME NEW m \in 1..n, m + 1 \in Good
      PROVE  m \in Good
  <2>1. PICK f : Solves(f, m + 1)
    BY <1>2
  <2> DEFINE g == [p \in m..n + 1 |-> IF p = m THEN Step(b, f, m) ELSE f[p]]
  <2>2. \A p \in m..n + 1 : g[p] = Step(b, g, p)
    <3> SUFFICES ASSUME NEW p \in m..n + 1
                 PROVE  g[p] = Step(b, g, p)
      OBVIOUS
    <3>0. p \in 1..n + 1
      BY <1>0
    <3>1. \A q \in (p + 1)..(n + 1) : f[q] = g[q]
      BY <1>0
    <3>2. Step(b, f, p) = Step(b, g, p)
      <4> HIDE DEF g
      <4> QED
        BY <3>0, <3>1, StepLater
    <3>3. CASE p = m
      BY <3>2, <3>3
    <3>4. CASE p # m
      <4>1. p \in (m + 1)..(n + 1)
        BY <1>0, <3>4
      <4>2. f[p] = Step(b, f, p)
        BY <2>1, <4>1
      <4> QED
        BY <3>2, <3>4, <4>2
    <3> QED
      BY <3>3, <3>4
  <2>3. Solves(g, m)
    <3>1. g = [p \in m..n + 1 |-> g[p]]
      OBVIOUS
    <3> HIDE DEF g
    <3> QED
      BY <2>2, <3>1
  <2>4. \E h : Solves(h, m)
    BY <2>3
  <2> HIDE DEF Solves
  <2> QED
    BY <1>0, <2>4
<1>3. \A m \in 1..n : (\A k \in (m + 1)..(n + 1) : k \in Good) => m \in Good
  <2>1. \A m \in 1..n : m + 1 \in (m + 1)..(n + 1)
    BY <1>0
  <2> HIDE DEF Good
  <2> QED
    BY <1>2, <2>1
<1>4. 1 \in Good
  <2>1. Good \in SUBSET (1..n + 1)
    OBVIOUS
  <2>2. 1 \in 1..n + 1
    BY <1>0
  <2> HIDE DEF Good, n
  <2> QED
    BY <1>0, <1>1, <1>3, <2>1, <2>2, Downward
<1> QED
  BY <1>4

\* What OptionsFrom is, at every position.
LEMMA Unfold ==
  ASSUME NEW b \in Seq(Nat), NEW p \in 1..Len(b) + 1
  PROVE  OptionsFrom(b)[p] = Step(b, OptionsFrom(b), p)
<1> DEFINE F(f) == [q \in 1..Len(b) + 1 |-> Step(b, f, q)]
<1>1. OptionsFrom(b) = CHOOSE f : f = F(f)
  BY DEF OptionsFrom, Step
<1>2. \E f : f = F(f)
  BY StepSolution
<1>3. OptionsFrom(b) = F(OptionsFrom(b))
  BY <1>1, <1>2
<1> QED
  BY <1>3

\* What the options of a message are made of.
OptionSet == [code : Nat, data : Seq(Nat)]

\* The options from any position on are a sequence of options.
LEMMA FromTyped ==
  ASSUME NEW b \in Seq(Nat)
  PROVE  \A p \in 1..Len(b) + 1 : OptionsFrom(b)[p] \in Seq(OptionSet)
<1> DEFINE n == Len(b)
           G == {p \in 1..n + 1 : OptionsFrom(b)[p] \in Seq(OptionSet)}
<1>0. n \in Nat
  OBVIOUS
<1>e. <<>> \in Seq(OptionSet)
  OBVIOUS
<1>1. n + 1 \in G
  <2>1. n + 1 \in 1..Len(b) + 1 /\ n + 1 >= Len(b)
    BY <1>0
  <2>2. OptionsFrom(b)[n + 1] = <<>>
    BY <2>1, Unfold DEF Step
  <2> QED
    BY <1>e, <2>1, <2>2
<1>2. ASSUME NEW m \in 1..n, \A k \in (m + 1)..(n + 1) : k \in G
      PROVE  m \in G
  <2>1. m \in 1..Len(b) + 1
    BY <1>0
  <2>2. OptionsFrom(b)[m] = Step(b, OptionsFrom(b), m)
    BY <2>1, Unfold
  <2>3. CASE m >= Len(b)
    BY <1>e, <2>1, <2>2, <2>3 DEF Step
  <2>4. CASE m < Len(b) /\ b[m] = END
    BY <1>0, <1>e, <2>1, <2>2, <2>4 DEF Step
  <2>5. CASE m < Len(b) /\ b[m] = PAD
    <3>1. m + 1 \in (m + 1)..(n + 1)
      BY <1>0
    <3>2. OptionsFrom(b)[m + 1] \in Seq(OptionSet)
      BY <1>2, <3>1
    <3> QED
      BY <1>0, <2>1, <2>2, <2>5, <3>2 DEF Step, PAD, END
  <2>6. CASE m < Len(b) /\ b[m] \notin {END, PAD} /\ m + 1 + b[m + 1] > Len(b)
    <3>1. OptionsFrom(b)[m] = <<Overrun>>
      BY <1>0, <2>1, <2>2, <2>6 DEF Step
    <3>2. Overrun \in OptionSet
      BY DEF Overrun, OptionSet, PAD
    <3>3. <<Overrun>> \in Seq(OptionSet)
      BY <3>2
    <3> QED
      BY <2>1, <3>1, <3>3
  <2>7. CASE m < Len(b) /\ b[m] \notin {END, PAD} /\ ~(m + 1 + b[m + 1] > Len(b))
    <3>0. b[m] \in Nat /\ b[m + 1] \in Nat
      BY <2>7
    <3> DEFINE k == b[m + 1]
    <3>7. k \in Nat /\ m + 1 + k <= n
      BY <1>0, <2>7, <3>0
    <3> HIDE DEF k
    <3>8. /\ m + 2 + k \in (m + 1)..(n + 1) /\ m + 2 \in 1..n + 1
          /\ m + 1 + k \in (m + 2 - 1)..n
      BY <1>0, <3>7
    <3>1. m + 2 + b[m + 1] \in (m + 1)..(n + 1)
      BY <3>8 DEF k
    <3> DEFINE d == SubSeq(b, m + 2, m + 1 + b[m + 1])
               rest == OptionsFrom(b)[m + 2 + b[m + 1]]
    <3>2. rest \in Seq(OptionSet)
      BY <1>2, <3>1
    <3>3. d \in Seq(Nat)
      <4>1. m + 2 \in Int /\ m + 1 + k \in Int /\ \A i \in (m + 2)..(m + 1 + k) : i \in 1..n
        BY <1>0, <3>7
      <4>2. \A i \in (m + 2)..(m + 1 + k) : b[i] \in Nat
        BY <1>0, <4>1
      <4>3. SubSeq(b, m + 2, m + 1 + k) \in Seq(Nat)
        BY <4>1, <4>2, SubSeqProperties
      <4> QED
        BY <4>3 DEF k
    <3>4. OptionsFrom(b)[m] = <<[code |-> b[m], data |-> d]>> \o rest
      BY <1>0, <2>2, <2>7 DEF Step
    <3> HIDE DEF d, rest
    <3>5. <<[code |-> b[m], data |-> d]>> \in Seq(OptionSet)
      BY <3>0, <3>3 DEF OptionSet
    <3>6. <<[code |-> b[m], data |-> d]>> \o rest \in Seq(OptionSet)
      BY <3>2, <3>5, ConcatProperties
    <3> QED
      BY <2>1, <3>4, <3>6
  <2> QED
    BY <1>0, <2>3, <2>4, <2>5, <2>6, <2>7
<1>3. \A p \in 1..n + 1 : p \in G
  <2>1. G \in SUBSET (1..n + 1)
    OBVIOUS
  <2>2. \A m \in 1..n : (\A k \in (m + 1)..(n + 1) : k \in G) => m \in G
    BY <1>2
  <2> HIDE DEF G, n
  <2> QED
    BY <1>0, <1>1, <2>1, <2>2, Downward
<1> QED
  BY <1>3

-----------------------------------------------------------------------------
(* What sequences of options say.                                          *)

\* The last option with a code, if one finds it, is the one ValueOf takes.
LEMMA LastIs ==
  ASSUME NEW os \in Seq(OptionSet), NEW code, NEW i \in 1..Len(os), os[i].code = code,
         \A j \in 1..Len(os) : j > i => os[j].code # code
  PROVE  LastOf(os, code) = i /\ ValueOf(os, code) = os[i].data /\ Has(os, code)
<1> DEFINE P(k) == os[k].code = code /\ \A j \in DOMAIN os : j > k => os[j].code # code
<1>0. DOMAIN os = 1..Len(os) /\ Len(os) \in Nat
  OBVIOUS
<1>1. i \in DOMAIN os /\ P(i)
  BY <1>0
<1>2. \A k \in DOMAIN os : P(k) => k = i
  <2> SUFFICES ASSUME NEW k \in DOMAIN os, P(k), k # i PROVE FALSE
    OBVIOUS
  <2>1. k > i \/ i > k
    BY <1>0
  <2> QED
    BY <1>0, <1>1, <2>1
<1>3. LastOf(os, code) = CHOOSE k \in DOMAIN os : P(k)
  BY DEF LastOf
<1>4. (CHOOSE k \in DOMAIN os : P(k)) = i
  <2> HIDE DEF P
  <2> QED
    BY <1>1, <1>2
<1> QED
  BY <1>1, <1>3, <1>4 DEF ValueOf, Has

\* There is a last option with a code if there is one.
LEMMA LastExists ==
  ASSUME NEW os \in Seq(OptionSet), NEW code, Has(os, code)
  PROVE  \E i \in 1..Len(os) : /\ os[i].code = code
                               /\ \A j \in 1..Len(os) : j > i => os[j].code # code
<1> DEFINE n == Len(os)
           S == {k \in 0..n : n - k \in 1..n /\ os[n - k].code = code}
<1>0. n \in Nat /\ DOMAIN os = 1..n
  OBVIOUS
<1>1. PICK i \in 1..n : os[i].code = code
  BY <1>0 DEF Has
<1>2. n - i \in S
  BY <1>0, <1>1, n - (n - i) = i
<1>3. S \in SUBSET Nat /\ S # {}
  <2>1. S \in SUBSET Nat
    OBVIOUS
  <2> HIDE DEF S
  <2> QED
    BY <1>2, <2>1
<1>4. PICK k \in S : \A y \in S : k <= y
  <2> HIDE DEF S
  <2> QED
    BY <1>3, LeastNat
<1>5. k \in 0..n /\ n - k \in 1..n /\ os[n - k].code = code
  OBVIOUS
<1>6. \A j \in 1..n : j > n - k => os[j].code # code
  <2> SUFFICES ASSUME NEW j \in 1..n, j > n - k, os[j].code = code
               PROVE  FALSE
    OBVIOUS
  <2>1. n - (n - j) = j /\ n - j \in 0..n /\ n - j < k
    BY <1>0, <1>5
  <2>2. n - j \in S
    BY <2>1
  <2> HIDE DEF S
  <2> QED
    BY <1>0, <1>4, <1>5, <2>1, <2>2
<1> QED
  BY <1>5, <1>6

\* One more option at the end.
LEMMA OneMore ==
  ASSUME NEW os \in Seq(OptionSet), NEW o \in OptionSet
  PROVE  /\ \A code : Has(Append(os, o), code) = (Has(os, code) \/ o.code = code)
         /\ \A code : o.code = code => ValueOf(Append(os, o), code) = o.data
         /\ \A code : o.code # code /\ Has(os, code) =>
              ValueOf(Append(os, o), code) = ValueOf(os, code)
         /\ AllRight(Append(os, o)) = (AllRight(os) /\ Right(o))
         /\ Listed(Append(os, o)) = IF o.code = PARAMETER_LIST
                                    THEN Listed(os) \cup ToSet(o.data) ELSE Listed(os)
<1> DEFINE n == Len(os)
           ms == Append(os, o)
<1>1. /\ n \in Nat /\ DOMAIN os = 1..n
      /\ ms \in Seq(OptionSet) /\ Len(ms) = n + 1 /\ DOMAIN ms = 1..n + 1
      /\ ms[n + 1] = o /\ \A i \in 1..n : ms[i] = os[i]
  OBVIOUS
<1>2. \A i \in 1..n + 1 : i \in 1..n \/ i = n + 1
  BY <1>1
<1>3. 1..n \subseteq 1..n + 1 /\ n + 1 \in 1..n + 1
  BY <1>1
<1> HIDE DEF n, ms
<1>4. ASSUME NEW code
      PROVE  Has(ms, code) = (Has(os, code) \/ o.code = code)
  BY <1>1, <1>2, <1>3 DEF Has
<1>5. ASSUME NEW code, o.code = code
      PROVE  ValueOf(ms, code) = o.data
  <2>1. \A j \in 1..Len(ms) : ~(j > n + 1)
    BY <1>1
  <2> QED
    BY <1>1, <1>3, <1>5, <2>1, LastIs
<1>6. ASSUME NEW code, o.code # code, Has(os, code)
      PROVE  ValueOf(ms, code) = ValueOf(os, code)
  <2>1. PICK i \in 1..n : /\ os[i].code = code
                          /\ \A j \in 1..n : j > i => os[j].code # code
    BY <1>6, LastExists DEF n
  <2>2. ValueOf(os, code) = os[i].data
    BY <2>1, LastIs DEF n
  <2>3. i \in 1..Len(ms) /\ ms[i] = os[i] /\ ms[i].code = code
    BY <1>1, <1>3, <2>1
  <2>4. \A j \in 1..Len(ms) : j > i => ms[j].code # code
    BY <1>1, <1>2, <1>6, <2>1
  <2>5. ValueOf(ms, code) = ms[i].data
    BY <1>1, <2>3, <2>4, LastIs
  <2> QED
    BY <2>2, <2>3, <2>5
<1>7. AllRight(ms) = (AllRight(os) /\ Right(o))
  <2>1. AllRight(ms) <=> \A i \in 1..n + 1 : Right(ms[i])
    BY <1>1 DEF AllRight
  <2>2. AllRight(os) <=> \A i \in 1..n : Right(os[i])
    BY <1>1 DEF AllRight
  <2>3. AllRight(ms) <=> AllRight(os) /\ Right(o)
    BY <1>1, <1>2, <1>3, <2>1, <2>2
  <2> QED
    BY <2>3 DEF AllRight, Right
<1>8. Listed(ms) = IF o.code = PARAMETER_LIST
                   THEN Listed(os) \cup ToSet(o.data) ELSE Listed(os)
  <2>1. \A x : x \in Listed(ms) <=>
          \E i \in 1..n + 1 : ms[i].code = PARAMETER_LIST /\ x \in ToSet(ms[i].data)
    BY <1>1 DEF Listed
  <2>2. \A x : x \in Listed(os) <=>
          \E i \in 1..n : os[i].code = PARAMETER_LIST /\ x \in ToSet(os[i].data)
    BY <1>1 DEF Listed
  <2>3. \A x : x \in Listed(ms) <=>
          x \in Listed(os) \/ (o.code = PARAMETER_LIST /\ x \in ToSet(o.data))
    <3> HIDE DEF ToSet
    <3> QED
      BY <1>1, <1>2, <1>3, <2>1, <2>2
  <2>4. CASE o.code = PARAMETER_LIST
    <3>1. \A x : x \in Listed(ms) <=> x \in Listed(os) \cup ToSet(o.data)
      BY <2>3, <2>4
    <3> QED
      BY <2>4, <3>1
  <2>5. CASE o.code # PARAMETER_LIST
    <3>1. \A x : x \in Listed(ms) <=> x \in Listed(os)
      BY <2>3, <2>5
    <3>2. Listed(ms) = Listed(os)
      BY <3>1 DEF Listed
    <3> QED
      BY <2>5, <3>2
  <2> QED
    BY <2>4, <2>5
<1> QED
  BY <1>4, <1>5, <1>6, <1>7, <1>8 DEF ms

\* No option at all.
LEMMA NoneSaid ==
  /\ \A code : Has(<<>>, code) = FALSE
  /\ AllRight(<<>>) = TRUE
  /\ Listed(<<>>) = {}
<1>1. DOMAIN <<>> = {}
  OBVIOUS
<1>2. Listed(<<>>) = {}
  BY <1>1 DEF Listed
<1> QED
  BY <1>1, <1>2 DEF Has, AllRight

-----------------------------------------------------------------------------
(* The inductive invariant.                                                *)

Keys == {c \in Seq(Bytes) : Len(c) <= CidCap}
FieldSet ==
  [requested_ip : Seq(Bytes), has_requested_ip : BOOLEAN,
   message_type : Bytes, has_message_type : BOOLEAN,
   server_id : Seq(Bytes), has_server_id : BOOLEAN,
   client_id : Keys, has_client_id : BOOLEAN,
   requested : SUBSET Bytes]
Received == [fixed : FixedParts, fields : FieldSet, lease_key : Keys]
Buffers == [fixed : FixedParts, options : [1..Cap -> Bytes]]

\* What the variables hold; the parser is within what was received.
Typed ==
  /\ net_buffer \in Buffers
  /\ got \in -1..Cap /\ pos \in 1..Cap + 1
  /\ pc \in {"recv", "check", "parse", "handle"}
  /\ pc = "parse" => got >= 0 /\ pos <= got + 1
  /\ received_msg \in Received
  /\ asked \in Messages
  /\ rounds \in 0..Rounds

\* A reply fits its buffer.
SentFits == sent # None => Len(sent.options) <= ReplyCap

\* Until it is answered or dropped, the datagram is at the start of net_buffer,
\* whatever follows it.
Delivered ==
  pc # "recv" =>
    /\ got = IF asked.short THEN -1 ELSE Len(asked.options)
    /\ ~asked.short =>
         /\ net_buffer.fixed = asked.fixed
         /\ \A i \in 1..Len(asked.options) : net_buffer.options[i] = asked.options[i]
    /\ sent = None

\* parse_options has read some of the options, all of them right, the others
\* begin at pos, and the fields say what those it has read say.
ReadSoFar ==
  pc = "parse" =>
    /\ received_msg.fixed = asked.fixed
    /\ \E read \in Seq(OptionSet) :
         /\ OptionsIn(asked.options) = read \o OptionsFrom(asked.options)[pos]
         /\ AllRight(read)
         /\ FieldsSay(received_msg.fields, read)

\* dhcp_task's switch has the message that the datagram says.
Understood ==
  pc = "handle" =>
    ~asked.short /\ WellFormed(asked.options) /\ Says(received_msg, asked)

Inv == Typed /\ SentFits /\ Delivered /\ ReadSoFar /\ Understood

-----------------------------------------------------------------------------
(* Types.                                                                  *)

\* The initial state.
LEMMA InitTyped ==
  ASSUME Init
  PROVE  Typed /\ SentFits
<1>1. NoFixed \in FixedParts
  <2>1. NoAddr \in Addresses
    BY DEF NoAddr, Addresses, Bytes, AddrLen
  <2>2. <<>> \in {c \in Seq(Bytes) : Len(c) <= CidCap}
    BY MessageAssumption
  <2> QED
    BY <2>1, <2>2 DEF NoFixed, FixedParts, Bytes
<1>2. <<>> \in Keys /\ <<>> \in Seq(Bytes)
  BY MessageAssumption DEF Keys
<1>3. NoFields \in FieldSet
  BY <1>2 DEF NoFields, FieldSet, Bytes
<1>4. Cap \in Nat \ {0} /\ Rounds \in Nat \ {0}
  BY MessageAssumption
<1>5. net_buffer \in Buffers
  BY <1>1 DEF Init, Buffers, Bytes, PAD
<1>6. received_msg \in Received
  BY <1>1, <1>2, <1>3 DEF Init, Received
<1>7. asked \in Messages
  <2>1. <<>> \in {o \in Seq(Bytes) : Len(o) <= Cap}
    BY <1>4
  <2> QED
    BY <1>1, <2>1 DEF Init, Messages
<1>8. /\ got \in -1..Cap /\ pos \in 1..Cap + 1 /\ pc = "recv"
      /\ rounds \in 0..Rounds /\ sent = None
  BY <1>4 DEF Init
<1> QED
  BY <1>5, <1>6, <1>7, <1>8 DEF Typed, SentFits

\* The data of an option that ends within the datagram.
LEMMA DataFacts ==
  ASSUME Typed, Parsing, ~Overruns
  PROVE  /\ Code \in Bytes /\ DataLen \in Bytes
         /\ Data \in Seq(Bytes) /\ Len(Data) = DataLen
         /\ \A i \in 1..DataLen : Data[i] = Byte[pos + 1 + i]
         /\ pos + 1 + DataLen <= got
<1>1. /\ net_buffer.options \in [1..Cap -> Bytes]
      /\ got \in -1..Cap /\ pos \in 1..Cap + 1 /\ pos < got
      /\ Cap \in Nat \ {0}
  BY MessageAssumption DEF Typed, Buffers, Parsing
<1>2. Code \in Bytes /\ DataLen \in Bytes
  BY <1>1 DEF Code, DataLen, Byte
<1>3. pos + 1 + DataLen <= got
  BY <1>1, <1>2 DEF Overruns, Bytes
<1>4. \A i \in (pos + 2)..(pos + 1 + DataLen) : Byte[i] \in Bytes
  <2>1. \A i \in (pos + 2)..(pos + 1 + DataLen) : i \in 1..Cap
    BY <1>1, <1>2, <1>3 DEF Bytes
  <2> QED
    BY <1>1, <2>1 DEF Byte
<1>5. pos + 2 \in Int /\ pos + 1 + DataLen \in Int
  BY <1>1, <1>2 DEF Bytes
<1>6. /\ Data \in Seq(Bytes)
      /\ Len(Data) = IF pos + 2 <= pos + 1 + DataLen
                     THEN (pos + 1 + DataLen) - (pos + 2) + 1 ELSE 0
      /\ \A i \in 1..((pos + 1 + DataLen) - (pos + 2) + 1) :
           Data[i] = Byte[pos + 2 + i - 1]
  BY <1>4, <1>5, SubSeqProperties DEF Data
<1>7. (pos + 1 + DataLen) - (pos + 2) + 1 = DataLen
  BY <1>1, <1>2 DEF Bytes
<1>8. \A i \in 1..DataLen : pos + 2 + i - 1 = pos + 1 + i
  BY <1>1, <1>2 DEF Bytes
<1>9. Len(Data) = DataLen
  BY <1>1, <1>2, <1>6, <1>7 DEF Bytes
<1> QED
  BY <1>2, <1>3, <1>6, <1>7, <1>8, <1>9

\* The message after an option was stored in it.
LEMMA StoredTyped ==
  ASSUME Typed, Parsing, ~Overruns, ~Malformed
  PROVE  /\ Stored(received_msg.fields) \in FieldSet
         /\ [received_msg EXCEPT !.fields = Stored(@)] \in Received
<1> DEFINE f == received_msg.fields
<1>1. /\ received_msg \in Received /\ f \in FieldSet
  BY DEF Typed, Received
<1>2. /\ Code \in Bytes /\ DataLen \in Bytes
      /\ Data \in Seq(Bytes) /\ Len(Data) = DataLen
  BY DataFacts
<1>3. Code = MESSAGE_TYPE => Data[1] \in Bytes
  BY <1>2 DEF Malformed
<1>4. Code = CLIENT_ID => Data \in Keys
  BY <1>2, MessageAssumption DEF Malformed, Keys, Bytes
<1>5. ToSet(Data) \in SUBSET Bytes
  BY <1>2 DEF ToSet
<1> HIDE DEF f
<1>6. Stored(f) \in FieldSet
  <2>1. CASE Code = REQUESTED_IP
    <3>1. Stored(f) = [f EXCEPT !.has_requested_ip = TRUE, !.requested_ip = Data]
      BY <2>1 DEF Stored, REQUESTED_IP, MESSAGE_TYPE, SERVER_ID, PARAMETER_LIST, CLIENT_ID
    <3> QED
      BY <1>1, <1>2, <3>1 DEF FieldSet
  <2>2. CASE Code = MESSAGE_TYPE
    <3>1. Stored(f) = [f EXCEPT !.has_message_type = TRUE, !.message_type = Data[1]]
      BY <2>2 DEF Stored, REQUESTED_IP, MESSAGE_TYPE, SERVER_ID, PARAMETER_LIST, CLIENT_ID
    <3> QED
      BY <1>1, <1>3, <2>2, <3>1 DEF FieldSet
  <2>3. CASE Code = SERVER_ID
    <3>1. Stored(f) = [f EXCEPT !.has_server_id = TRUE, !.server_id = Data]
      BY <2>3 DEF Stored, REQUESTED_IP, MESSAGE_TYPE, SERVER_ID, PARAMETER_LIST, CLIENT_ID
    <3> QED
      BY <1>1, <1>2, <3>1 DEF FieldSet
  <2>4. CASE Code = PARAMETER_LIST
    <3>1. Stored(f) = [f EXCEPT !.requested = @ \cup ToSet(Data)]
      BY <2>4 DEF Stored, REQUESTED_IP, MESSAGE_TYPE, SERVER_ID, PARAMETER_LIST, CLIENT_ID
    <3> QED
      BY <1>1, <1>5, <3>1 DEF FieldSet
  <2>5. CASE Code = CLIENT_ID
    <3>1. Stored(f) = [f EXCEPT !.has_client_id = TRUE, !.client_id = Data]
      BY <2>5 DEF Stored, REQUESTED_IP, MESSAGE_TYPE, SERVER_ID, PARAMETER_LIST, CLIENT_ID
    <3> QED
      BY <1>1, <1>4, <2>5, <3>1 DEF FieldSet
  <2>6. CASE Code \notin {REQUESTED_IP, MESSAGE_TYPE, SERVER_ID, PARAMETER_LIST, CLIENT_ID}
    <3>1. Stored(f) = f
      BY <2>6 DEF Stored
    <3> QED
      BY <1>1, <3>1
  <2> QED
    BY <2>1, <2>2, <2>3, <2>4, <2>5, <2>6
<1>7. [received_msg EXCEPT !.fields = Stored(@)] \in Received
  BY <1>1, <1>6 DEF Received, f
<1> QED
  BY <1>6, <1>7 DEF f

\* A datagram comes.
LEMMA RecvTyped ==
  ASSUME Typed, NEW d \in Messages, Recv(d)
  PROVE  Typed' /\ Delivered'
<1>1. /\ net_buffer \in Buffers /\ net_buffer.fixed \in FixedParts
      /\ net_buffer.options \in [1..Cap -> Bytes]
      /\ d.fixed \in FixedParts /\ d.short \in BOOLEAN
      /\ d.options \in Seq(Bytes) /\ Len(d.options) <= Cap
      /\ Cap \in Nat \ {0} /\ Rounds \in Nat \ {0}
  BY MessageAssumption DEF Typed, Buffers, Messages
<1>2. /\ rounds' = rounds - 1 /\ rounds > 0 /\ asked' = d /\ sent' = None
      /\ pc' = "check" /\ received_msg' = received_msg /\ pos' = pos
      /\ got' = IF d.short THEN -1 ELSE Len(d.options)
  BY DEF Recv
<1>3. got' \in -1..Cap
  BY <1>1, <1>2
<1>4. rounds' \in 0..Rounds
  BY <1>1, <1>2 DEF Typed
<1>5. CASE d.short
  <2>1. net_buffer' = net_buffer
    BY <1>5 DEF Recv
  <2> QED
    BY <1>1, <1>2, <1>3, <1>4, <1>5, <2>1 DEF Typed, Delivered
<1>6. CASE ~d.short
  <2> DEFINE o == [i \in 1..Cap |-> IF i <= Len(d.options) THEN d.options[i] ELSE Byte[i]]
  <2>1. net_buffer' = [fixed |-> d.fixed, options |-> o]
    BY <1>6 DEF Recv
  <2>2. ASSUME NEW i \in 1..Cap
        PROVE  o[i] \in Bytes
    <3>1. i <= Len(d.options) => i \in 1..Len(d.options)
      BY <1>1
    <3> QED
      BY <1>1, <3>1 DEF Byte
  <2>3. o \in [1..Cap -> Bytes]
    BY <2>2
  <2>4. \A i \in 1..Len(d.options) : o[i] = d.options[i]
    BY <1>1
  <2> HIDE DEF o
  <2>5. net_buffer' \in Buffers
    BY <1>1, <2>1, <2>3 DEF Buffers
  <2>6. net_buffer'.fixed = d.fixed /\ net_buffer'.options = o
    BY <2>1
  <2>7. Typed'
    BY <1>2, <1>3, <1>4, <2>5 DEF Typed
  <2> QED
    BY <1>2, <1>6, <2>4, <2>6, <2>7 DEF Delivered
<1> QED
  BY <1>5, <1>6

\* The parser.
LEMMA ParseTyped ==
  ASSUME Typed, Parse
  PROVE  Typed'
<1>0. /\ net_buffer \in Buffers /\ received_msg \in Received
      /\ got \in -1..Cap /\ pos \in 1..Cap + 1 /\ Cap \in Nat \ {0}
      /\ net_buffer.options \in [1..Cap -> Bytes]
  BY MessageAssumption DEF Typed, Buffers
<1>1. CASE CheckBad \/ ParseError
  BY <1>1 DEF CheckBad, ParseError, Drop, Typed
<1>2. CASE CheckGood
  <2>1. Cleared(received_msg.fields) \in FieldSet
    BY <1>0 DEF Received, FieldSet, Cleared
  <2>2. received_msg' \in Received
    BY <1>0, <1>2, <2>1 DEF CheckGood, Received, Buffers
  <2>3. pos' = 1 /\ 1 \in 1..Cap + 1 /\ got >= 0 /\ 1 <= got + 1
    BY <1>0, <1>2 DEF CheckGood
  <2> QED
    BY <1>2, <2>2, <2>3 DEF CheckGood, Typed
<1>3. CASE ParsePad
  <2>1. pos < got /\ pos' = pos + 1
    BY <1>3 DEF ParsePad, Parsing
  <2>2. pos' \in 1..Cap + 1 /\ pos' <= got + 1 /\ got >= 0
    BY <1>0, <2>1
  <2> QED
    BY <1>3, <2>2 DEF ParsePad, Typed
<1>4. CASE ParseOption
  <2>0. Parsing /\ ~Overruns /\ ~Malformed
    BY <1>4 DEF ParseOption
  <2>1. received_msg' \in Received
    BY <1>4, <2>0, StoredTyped DEF ParseOption
  <2>2. pos' = pos + 2 + DataLen /\ DataLen \in Bytes /\ pos + 1 + DataLen <= got
    BY <1>4, <2>0, DataFacts DEF ParseOption
  <2>3. pos' \in 1..Cap + 1 /\ pos' <= got + 1 /\ got >= 0
    BY <1>0, <2>2 DEF Bytes
  <2> QED
    BY <1>4, <2>1, <2>3 DEF ParseOption, Typed
<1>5. CASE ParseDone
  <2>1. received_msg.fields.client_id \in Keys /\ received_msg.fixed.chaddr \in Keys
    BY <1>0 DEF Received, FieldSet, FixedParts, Keys
  <2>2. received_msg' \in Received
    BY <1>0, <1>5, <2>1 DEF ParseDone, Received
  <2> QED
    BY <1>5, <2>2 DEF ParseDone, Typed
<1> QED
  BY <1>1, <1>2, <1>3, <1>4, <1>5 DEF Parse

-----------------------------------------------------------------------------
(* The bytes of a reply.                                                   *)

\* Bytes are numbers.
LEMMA BytesAreNat ==
  ASSUME NEW s \in Seq(Bytes)
  PROVE  s \in Seq(Nat)
<1>1. Bytes \subseteq Nat
  BY DEF Bytes
<1>2. \A i \in 1..Len(s) : s[i] \in Bytes
  OBVIOUS
<1>3. \A i \in 1..Len(s) : s[i] \in Nat
  BY <1>1, <1>2
<1> QED
  BY <1>3

\* Two sequences one after the other.
LEMMA Joined ==
  ASSUME NEW s \in Seq(Nat), NEW t \in Seq(Nat)
  PROVE  /\ s \o t \in Seq(Nat) /\ Len(s \o t) = Len(s) + Len(t)
         /\ \A i \in 1..Len(s) : (s \o t)[i] = s[i]
         /\ \A i \in 1..Len(t) : (s \o t)[Len(s) + i] = t[i]
<1>1. /\ s \o t \in Seq(Nat) /\ Len(s \o t) = Len(s) + Len(t)
      /\ \A i \in 1..Len(s) + Len(t) :
           (s \o t)[i] = IF i <= Len(s) THEN s[i] ELSE t[i - Len(s)]
  BY ConcatProperties
<1> DEFINE p == Len(s)
           q == Len(t)
<1>0. p \in Nat /\ q \in Nat
  OBVIOUS
<1> HIDE DEF p, q
<1>2. \A i \in 1..p : i \in 1..p + q /\ i <= p
  BY <1>0
<1>3. \A i \in 1..q : p + i \in 1..p + q /\ ~(p + i <= p) /\ (p + i) - p = i
  BY <1>0
<1> DEFINE st == s \o t
<1> HIDE DEF st
<1>4. /\ st \in Seq(Nat) /\ Len(st) = p + q
      /\ \A i \in 1..p + q : st[i] = IF i <= p THEN s[i] ELSE t[i - p]
  BY <1>1 DEF st, p, q
<1>5. \A i \in 1..p : st[i] = s[i]
  BY <1>2, <1>4
<1>6. \A i \in 1..q : st[p + i] = t[i]
  BY <1>3, <1>4
<1> QED
  BY <1>4, <1>5, <1>6 DEF st, p, q

\* The three options every reply has.
LEMMA FirstOptions ==
  ASSUME NEW type \in Nat
  PROVE  LET h == <<MESSAGE_TYPE, 1, type>> \o <<SERVER_ID, AddrLen>> \o Server
                  \o <<LEASE_TIME, 1, END>>
         IN /\ h \in Seq(Nat) /\ Len(h) = 10
            /\ h[1] = MESSAGE_TYPE /\ h[2] = 1 /\ h[3] = type
            /\ h[4] = SERVER_ID /\ h[5] = 2 /\ h[6] = Server[1] /\ h[7] = Server[2]
            /\ h[8] = LEASE_TIME /\ h[9] = 1 /\ h[10] = END
<1> DEFINE a == <<MESSAGE_TYPE, 1, type>>
           b == <<SERVER_ID, AddrLen>>
           c == <<LEASE_TIME, 1, END>>
<1>1. /\ a \in Seq(Nat) /\ Len(a) = 3 /\ a[1] = MESSAGE_TYPE /\ a[2] = 1 /\ a[3] = type
      /\ b \in Seq(Nat) /\ Len(b) = 2 /\ b[1] = SERVER_ID /\ b[2] = 2
      /\ c \in Seq(Nat) /\ Len(c) = 3 /\ c[1] = LEASE_TIME /\ c[2] = 1 /\ c[3] = END
  BY DEF MESSAGE_TYPE, SERVER_ID, AddrLen, LEASE_TIME, END
<1>2. Server \in Seq(Nat) /\ Len(Server) = 2
  BY MessageAssumption, BytesAreNat DEF Addresses, AddrLen
<1> HIDE DEF a, b, c
<1> DEFINE ab == a \o b
           abs == ab \o Server
           h == abs \o c
<1>3. /\ ab \in Seq(Nat) /\ Len(ab) = Len(a) + Len(b)
      /\ \A i \in 1..Len(a) : ab[i] = a[i]
      /\ \A j \in 1..Len(b) : ab[Len(a) + j] = b[j]
  BY <1>1, Joined
<1>4. /\ ab \in Seq(Nat) /\ Len(ab) = 5 /\ ab[1] = a[1] /\ ab[2] = a[2] /\ ab[3] = a[3]
      /\ ab[4] = b[1] /\ ab[5] = b[2]
  <2> HIDE DEF ab
  <2> QED
    BY <1>1, <1>3, 3 + 1 = 4, 3 + 2 = 5
<1> HIDE DEF ab
<1>5. /\ abs \in Seq(Nat) /\ Len(abs) = Len(ab) + Len(Server)
      /\ \A i \in 1..Len(ab) : abs[i] = ab[i]
      /\ \A j \in 1..Len(Server) : abs[Len(ab) + j] = Server[j]
  BY <1>2, <1>4, Joined
<1>6. /\ abs \in Seq(Nat) /\ Len(abs) = 7
      /\ abs[1] = a[1] /\ abs[2] = a[2] /\ abs[3] = a[3] /\ abs[4] = b[1] /\ abs[5] = b[2]
      /\ abs[6] = Server[1] /\ abs[7] = Server[2]
  <2> HIDE DEF abs
  <2> QED
    BY <1>2, <1>4, <1>5, 5 + 1 = 6, 5 + 2 = 7
<1> HIDE DEF abs
<1>7. /\ h \in Seq(Nat) /\ Len(h) = Len(abs) + Len(c)
      /\ \A i \in 1..Len(abs) : h[i] = abs[i]
      /\ \A j \in 1..Len(c) : h[Len(abs) + j] = c[j]
  BY <1>1, <1>6, Joined
<1>8. /\ h[1] = a[1] /\ h[2] = a[2] /\ h[3] = a[3] /\ h[4] = b[1] /\ h[5] = b[2]
      /\ h[6] = Server[1] /\ h[7] = Server[2] /\ h[8] = c[1] /\ h[9] = c[2] /\ h[10] = c[3]
  <2> HIDE DEF h
  <2> QED
    BY <1>1, <1>6, <1>7, 7 + 1 = 8, 7 + 2 = 9, 7 + 3 = 10
<1>9. h = <<MESSAGE_TYPE, 1, type>> \o <<SERVER_ID, AddrLen>> \o Server
          \o <<LEASE_TIME, 1, END>>
  BY DEF a, b, c, ab, abs
<1> HIDE DEF h
<1>10. h \in Seq(Nat) /\ Len(h) = 10
  BY <1>1, <1>6, <1>7, 7 + 3 = 10
<1> QED
  BY <1>1, <1>8, <1>9, <1>10

\* The bytes of embedd_options before it fills up: with the client identifier
\* if the request has one.
LEMMA BytesOfReply ==
  ASSUME NEW type \in Nat, NEW m \in Received
  PROVE  LET o == OptionBytes(type, m)
             id == m.fields.client_id
         IN /\ o \in Seq(Nat) /\ Len(o) <= 12 + CidCap
            /\ id \in Seq(Nat) /\ Len(id) \in Nat /\ Len(id) <= CidCap
            /\ o[1] = MESSAGE_TYPE /\ o[2] = 1 /\ o[3] = type
            /\ o[4] = SERVER_ID /\ o[5] = 2 /\ o[6] = Server[1] /\ o[7] = Server[2]
            /\ o[8] = LEASE_TIME /\ o[9] = 1 /\ o[10] = END
            /\ ~m.fields.has_client_id => Len(o) = 10
            /\ m.fields.has_client_id =>
                 /\ Len(o) = 12 + Len(id)
                 /\ o[11] = CLIENT_ID /\ o[12] = Len(id)
                 /\ \A i \in 1..Len(id) : o[12 + i] = id[i]
<1> DEFINE o == OptionBytes(type, m)
           id == m.fields.client_id
           h == <<MESSAGE_TYPE, 1, type>> \o <<SERVER_ID, AddrLen>> \o Server
                \o <<LEASE_TIME, 1, END>>
           t == IF m.fields.has_client_id THEN <<CLIENT_ID, Len(id)>> \o id ELSE <<>>
<1>1. /\ h \in Seq(Nat) /\ Len(h) = 10
      /\ h[1] = MESSAGE_TYPE /\ h[2] = 1 /\ h[3] = type
      /\ h[4] = SERVER_ID /\ h[5] = 2 /\ h[6] = Server[1] /\ h[7] = Server[2]
      /\ h[8] = LEASE_TIME /\ h[9] = 1 /\ h[10] = END
  BY FirstOptions
<1>2. /\ id \in Seq(Nat) /\ Len(id) \in Nat /\ Len(id) <= CidCap
      /\ CidCap \in Nat /\ m.fields.has_client_id \in BOOLEAN
  <2>1. id \in Seq(Bytes) /\ Len(id) <= CidCap /\ m.fields.has_client_id \in BOOLEAN
    BY DEF Received, FieldSet, Keys
  <2> HIDE DEF id
  <2> QED
    BY <2>1, MessageAssumption, BytesAreNat
<1>3. o = h \o t
  BY DEF OptionBytes
<1> HIDE DEF h, id, o
<1> SUFFICES /\ o \in Seq(Nat) /\ Len(o) <= 12 + CidCap
             /\ \A i \in 1..10 : o[i] = h[i]
             /\ ~m.fields.has_client_id => Len(o) = 10
             /\ m.fields.has_client_id =>
                  /\ Len(o) = 12 + Len(id)
                  /\ o[11] = CLIENT_ID /\ o[12] = Len(id)
                  /\ \A i \in 1..Len(id) : o[12 + i] = id[i]
  <2>1. ASSUME \A i \in 1..10 : o[i] = h[i]
        PROVE  /\ o[1] = MESSAGE_TYPE /\ o[2] = 1 /\ o[3] = type
               /\ o[4] = SERVER_ID /\ o[5] = 2 /\ o[6] = Server[1] /\ o[7] = Server[2]
               /\ o[8] = LEASE_TIME /\ o[9] = 1 /\ o[10] = END
    <3>1. o[1] = h[1] /\ o[2] = h[2] /\ o[3] = h[3] /\ o[4] = h[4] /\ o[5] = h[5]
      BY <2>1
    <3>2. o[6] = h[6] /\ o[7] = h[7] /\ o[8] = h[8] /\ o[9] = h[9] /\ o[10] = h[10]
      BY <2>1
    <3> QED
      BY <1>1, <3>1, <3>2
  <2> QED
    BY <1>2, <2>1 DEF o, id
<1>4. CASE ~m.fields.has_client_id
  <2>1. t = <<>>
    BY <1>4
  <2>2. o = h
    BY <1>1, <1>3, <2>1, ConcatEmptySeq
  <2>3. Len(o) = 10 /\ 10 <= 12 + CidCap
    BY <1>1, <1>2, <2>2
  <2>4. m.fields.has_client_id = FALSE
    BY <1>2, <1>4
  <2> QED
    BY <1>1, <2>2, <2>3, <2>4
<1>5. CASE m.fields.has_client_id
  <2> DEFINE k == <<CLIENT_ID, Len(id)>>
  <2>1. k \in Seq(Nat) /\ Len(k) = 2 /\ k[1] = CLIENT_ID /\ k[2] = Len(id)
    BY <1>2 DEF CLIENT_ID
  <2>2. t = k \o id
    BY <1>5
  <2> HIDE DEF k, t
  <2>3. /\ t \in Seq(Nat) /\ Len(t) = 2 + Len(id)
        /\ \A i \in 1..2 : t[i] = k[i]
        /\ \A i \in 1..Len(id) : t[2 + i] = id[i]
    <3>1. /\ k \o id \in Seq(Nat) /\ Len(k \o id) = Len(k) + Len(id)
          /\ \A i \in 1..Len(k) : (k \o id)[i] = k[i]
          /\ \A i \in 1..Len(id) : (k \o id)[Len(k) + i] = id[i]
      BY <1>2, <2>1, Joined
    <3> QED
      BY <2>1, <2>2, <3>1
  <2>4. 2 + Len(id) \in Nat
    BY <1>2
  <2>5. /\ o \in Seq(Nat) /\ Len(o) = 10 + (2 + Len(id))
        /\ \A i \in 1..10 : o[i] = h[i]
        /\ \A i \in 1..2 + Len(id) : o[10 + i] = t[i]
    <3>1. /\ h \o t \in Seq(Nat) /\ Len(h \o t) = Len(h) + Len(t)
          /\ \A i \in 1..Len(h) : (h \o t)[i] = h[i]
          /\ \A i \in 1..Len(t) : (h \o t)[Len(h) + i] = t[i]
      BY <1>1, <2>3, Joined
    <3> QED
      BY <1>1, <1>3, <2>3, <3>1
  <2>6. Len(o) = 12 + Len(id) /\ Len(o) <= 12 + CidCap
    BY <1>2, <2>5
  <2>7. o[11] = CLIENT_ID /\ o[12] = Len(id)
    <3>1. 1 \in 1..2 + Len(id) /\ 2 \in 1..2 + Len(id) /\ 10 + 1 = 11 /\ 10 + 2 = 12
      BY <1>2
    <3>2. o[11] = t[1] /\ o[12] = t[2]
      BY <2>5, <3>1
    <3> QED
      BY <2>1, <2>3, <3>2
  <2>8. ASSUME NEW i \in 1..Len(id)
        PROVE  o[12 + i] = id[i]
    <3>1. 2 + i \in 1..2 + Len(id) /\ 10 + (2 + i) = 12 + i
      BY <1>2
    <3>2. o[10 + (2 + i)] = t[2 + i]
      BY <2>5, <3>1
    <3> QED
      BY <2>3, <3>1, <3>2
  <2> QED
    BY <1>5, <2>5, <2>6, <2>7, <2>8
<1> QED
  BY <1>2, <1>4, <1>5

\* embedd_options keeps the options, fills up with padding and ends with END.
LEMMA PaddedFacts ==
  ASSUME NEW o \in Seq(Nat), Len(o) <= 12 + CidCap
  PROVE  LET b == Padded(o)
         IN /\ b \in Seq(Nat) /\ Len(b) > Len(o) /\ Len(b) <= ReplyCap
            /\ \A i \in 1..Len(o) : b[i] = o[i]
            /\ b[Len(b)] = END
            /\ \A i \in (Len(o) + 1)..(Len(b) - 1) : b[i] = PAD
<1> DEFINE b == Padded(o)
           n == Len(o)
<1>0. /\ n \in Nat /\ MinReply \in Nat \ {0} /\ CidCap \in Nat /\ ReplyCap \in Nat
      /\ MinReply <= ReplyCap /\ 13 + CidCap <= ReplyCap /\ n <= 12 + CidCap
      /\ \A i \in 1..n : o[i] \in Nat
  BY MessageAssumption, RoomAssumption
<1>1. CASE n < MinReply
  <2>1. b = [i \in 1..MinReply |-> IF i = MinReply THEN END
                                   ELSE IF i <= n THEN o[i] ELSE PAD]
    BY <1>1 DEF Padded
  <2>2. \A i \in 1..MinReply : b[i] = IF i = MinReply THEN END
                                      ELSE IF i <= n THEN o[i] ELSE PAD
    BY <2>1
  <2>3. ASSUME NEW i \in 1..MinReply
        PROVE  b[i] \in Nat
    <3>1. i <= n => i \in 1..n
      BY <1>0
    <3> QED
      BY <1>0, <2>2, <3>1 DEF END, PAD
  <2>4. b \in Seq(Nat) /\ Len(b) = MinReply
    <3>1. b \in [1..MinReply -> Nat]
      BY <2>1, <2>3
    <3>2. MinReply \in Nat
      BY <1>0
    <3> HIDE DEF b
    <3> QED
      BY <3>1, <3>2
  <2> HIDE DEF b, n
  <2>5. \A i \in 1..n : i \in 1..MinReply /\ i # MinReply /\ i <= n
    BY <1>0, <1>1
  <2>6. \A i \in (n + 1)..(MinReply - 1) : i \in 1..MinReply /\ i # MinReply /\ ~(i <= n)
    BY <1>0, <1>1
  <2>7. MinReply \in 1..MinReply
    BY <1>0
  <2>8. \A i \in 1..n : b[i] = o[i]
    BY <2>2, <2>5
  <2>9. b[MinReply] = END /\ \A i \in (n + 1)..(MinReply - 1) : b[i] = PAD
    BY <2>2, <2>6, <2>7
  <2> QED
    BY <1>0, <1>1, <2>4, <2>8, <2>9 DEF b, n
<1>2. CASE ~(n < MinReply)
  <2>1. b = Append(o, END) /\ END \in Nat
    BY <1>2 DEF Padded, END
  <2> HIDE DEF b
  <2>2. /\ b \in Seq(Nat) /\ Len(b) = n + 1 /\ b[n + 1] = END
        /\ \A i \in 1..n : b[i] = o[i]
    BY <2>1
  <2>3. (n + 1)..(Len(b) - 1) = {}
    BY <1>0, <2>2
  <2>4. Len(b) > n /\ Len(b) <= ReplyCap
    BY <1>0, <2>2
  <2> QED
    BY <2>2, <2>3, <2>4 DEF b
<1> QED
  BY <1>1, <1>2

-----------------------------------------------------------------------------
(* What bytes say.                                                         *)

\* The elements of a sequence.
LEMMA ElementsTyped ==
  ASSUME NEW S, NEW s \in Seq(S)
  PROVE  \A i \in 1..Len(s) : s[i] \in S
  OBVIOUS

\* An option and what follows it.
LEMMA OneOption ==
  ASSUME NEW b \in Seq(Nat), NEW p \in 1..Len(b), NEW d \in Seq(Nat),
         p < Len(b), b[p] \notin {END, PAD}, b[p + 1] = Len(d),
         p + 1 + Len(d) <= Len(b),
         \A i \in 1..Len(d) : b[p + 1 + i] = d[i]
  PROVE  OptionsFrom(b)[p] =
           <<[code |-> b[p], data |-> d]>> \o OptionsFrom(b)[p + 2 + Len(d)]
<1> DEFINE l == Len(d)
           n == Len(b)
           t == SubSeq(b, p + 2, p + 1 + l)
<1>0. l \in Nat /\ n \in Nat /\ p \in 1..n + 1
  OBVIOUS
<1>1. \A i \in (p + 2)..(p + 1 + l) : b[i] \in Nat
  <2>2. p + 1 + l <= n
    OBVIOUS
  <2> HIDE DEF l, n
  <2>1. \A i \in (p + 2)..(p + 1 + l) : i \in 1..n
    BY <1>0, <2>2
  <2>3. \A i \in 1..n : b[i] \in Nat
    BY ElementsTyped DEF n
  <2> QED
    BY <2>1, <2>3, Zenon
<1>2. /\ p + 2 \in Int /\ p + 1 + l \in Int /\ (p + 1 + l) - (p + 2) + 1 = l
      /\ p + 2 <= p + 1 + l <=> l >= 1
  <2> HIDE DEF l, n
  <2> QED
    BY <1>0
<1>3. /\ t \in Seq(Nat)
      /\ Len(t) = IF p + 2 <= p + 1 + l THEN (p + 1 + l) - (p + 2) + 1 ELSE 0
      /\ \A i \in 1..((p + 1 + l) - (p + 2) + 1) : t[i] = b[p + 2 + i - 1]
  <2> DEFINE u == p + 2
             v == p + 1 + l
  <2>1. u \in Int /\ v \in Int /\ \A i \in u..v : b[i] \in Nat
    BY <1>1, <1>2
  <2> HIDE DEF u, v
  <2>2. /\ SubSeq(b, u, v) \in Seq(Nat)
        /\ Len(SubSeq(b, u, v)) = IF u <= v THEN v - u + 1 ELSE 0
        /\ \A i \in 1..(v - u + 1) : SubSeq(b, u, v)[i] = b[u + i - 1]
    BY <2>1, SubSeqProperties
  <2> QED
    BY <2>2 DEF u, v
<1>4. t = d
  <2> HIDE DEF t
  <2>1. Len(t) = Len(d)
    BY <1>0, <1>2, <1>3
  <2>2. \A i \in 1..l : t[i] = d[i]
    <3>1. \A i \in 1..l : p + 2 + i - 1 = p + 1 + i
      BY <1>0
    <3> QED
      BY <1>2, <1>3, <3>1
  <2> QED
    BY <1>3, <2>1, <2>2, SeqEqual
<1>5. OptionsFrom(b)[p] = Step(b, OptionsFrom(b), p)
  BY <1>0, Unfold
<1>6. ~(p >= Len(b)) /\ ~(p + 1 + b[p + 1] > Len(b))
  BY <1>0
<1>7. Step(b, OptionsFrom(b), p) =
        <<[code |-> b[p], data |-> t]>> \o OptionsFrom(b)[p + 2 + b[p + 1]]
  BY <1>6 DEF Step
<1> QED
  BY <1>4, <1>5, <1>7

\* Padding up to the last byte, which is END, has no options.
LEMMA OnlyPadding ==
  ASSUME NEW b \in Seq(Nat), NEW q \in 1..Len(b), b[Len(b)] = END,
         \A i \in q..(Len(b) - 1) : b[i] = PAD
  PROVE  OptionsFrom(b)[q] = <<>>
<1> DEFINE n == Len(b)
           G == {p \in 1..n + 1 : p >= q => OptionsFrom(b)[p] = <<>>}
<1>0. n \in Nat
  OBVIOUS
<1>1. n + 1 \in G
  <2>1. n + 1 \in 1..Len(b) + 1 /\ n + 1 >= Len(b)
    BY <1>0
  <2>2. OptionsFrom(b)[n + 1] = <<>>
    BY <2>1, Unfold DEF Step
  <2> QED
    BY <2>1, <2>2
<1>2. ASSUME NEW m \in 1..n, \A k \in (m + 1)..(n + 1) : k \in G
      PROVE  m \in G
  <2>1. m \in 1..Len(b) + 1
    BY <1>0
  <2>2. OptionsFrom(b)[m] = Step(b, OptionsFrom(b), m)
    BY <2>1, Unfold
  <2> SUFFICES ASSUME m >= q PROVE OptionsFrom(b)[m] = <<>>
    BY <2>1
  <2>3. CASE m >= Len(b)
    BY <2>2, <2>3 DEF Step
  <2>4. CASE m < Len(b)
    <3>1. m \in q..(Len(b) - 1) /\ m + 1 \in (m + 1)..(n + 1) /\ m + 1 >= q
      BY <1>0, <2>4
    <3>2. OptionsFrom(b)[m + 1] = <<>>
      BY <1>2, <3>1
    <3>3. b[m] = PAD /\ b[m] # END /\ ~(m >= Len(b))
      BY <1>0, <2>4, <3>1 DEF PAD, END
    <3> QED
      BY <2>2, <3>2, <3>3 DEF Step
  <2> QED
    BY <1>0, <2>3, <2>4
<1>3. \A p \in 1..n + 1 : p \in G
  <2>1. G \in SUBSET (1..n + 1)
    OBVIOUS
  <2>2. \A m \in 1..n : (\A k \in (m + 1)..(n + 1) : k \in G) => m \in G
    BY <1>2
  <2> HIDE DEF G, n
  <2> QED
    BY <1>0, <1>1, <2>1, <2>2, Downward
<1> QED
  BY <1>0, <1>3

\* An option at the head of the rest, moved to the end of what was read.
LEMMA Shifted ==
  ASSUME NEW read \in Seq(OptionSet), NEW o \in OptionSet, NEW rest \in Seq(OptionSet)
  PROVE  read \o (<<o>> \o rest) = Append(read, o) \o rest
<1>1. <<o>> \in Seq(OptionSet) /\ Append(read, o) = read \o <<o>>
  OBVIOUS
<1> QED
  BY <1>1, ConcatAssociative

\* A reply, read as a client reads it: its type, this server, and the client
\* identifier of the message it answers if that has one.
LEMMA ReplySays ==
  ASSUME NEW type \in Nat, NEW m \in Received
  PROVE  LET b == Padded(OptionBytes(type, m))
             r == OptionsIn(b)
         IN /\ Len(b) <= ReplyCap /\ b[Len(b)] = END
            /\ AllRight(r)
            /\ ValueOf(r, MESSAGE_TYPE) = <<type>> /\ ValueOf(r, SERVER_ID) = Server
            /\ Has(r, CLIENT_ID) = m.fields.has_client_id
            /\ m.fields.has_client_id => ValueOf(r, CLIENT_ID) = m.fields.client_id
<1> DEFINE o == OptionBytes(type, m)
           b == Padded(o)
           r == OptionsIn(b)
           id == m.fields.client_id
           F == OptionsFrom(b)
           o1 == [code |-> MESSAGE_TYPE, data |-> <<type>>]
           o2 == [code |-> SERVER_ID, data |-> Server]
           o3 == [code |-> LEASE_TIME, data |-> <<END>>]
           o4 == [code |-> CLIENT_ID, data |-> id]
           os1 == Append(<<>>, o1)
           os2 == Append(os1, o2)
           os3 == Append(os2, o3)
           os4 == Append(os3, o4)
<1>1. /\ o \in Seq(Nat) /\ Len(o) <= 12 + CidCap
      /\ id \in Seq(Nat) /\ Len(id) \in Nat /\ Len(id) <= CidCap
      /\ o[1] = MESSAGE_TYPE /\ o[2] = 1 /\ o[3] = type
      /\ o[4] = SERVER_ID /\ o[5] = 2 /\ o[6] = Server[1] /\ o[7] = Server[2]
      /\ o[8] = LEASE_TIME /\ o[9] = 1 /\ o[10] = END
      /\ ~m.fields.has_client_id => Len(o) = 10
      /\ m.fields.has_client_id =>
           /\ Len(o) = 12 + Len(id)
           /\ o[11] = CLIENT_ID /\ o[12] = Len(id)
           /\ \A i \in 1..Len(id) : o[12 + i] = id[i]
  BY BytesOfReply
<1>2. m.fields.has_client_id \in BOOLEAN
  BY DEF Received, FieldSet
<1> HIDE DEF o, id
<1>3. /\ b \in Seq(Nat) /\ Len(b) > Len(o) /\ Len(b) <= ReplyCap
      /\ \A i \in 1..Len(o) : b[i] = o[i]
      /\ b[Len(b)] = END
      /\ \A i \in (Len(o) + 1)..(Len(b) - 1) : b[i] = PAD
  BY <1>1, PaddedFacts
<1> HIDE DEF b
<1>4. Len(o) \in Nat /\ Len(o) >= 10 /\ Len(b) \in Nat /\ Len(b) > 10
  <2>0. o \in Seq(Nat) /\ b \in Seq(Nat) /\ Len(id) \in Nat
    BY <1>1, <1>3
  <2>1. Len(o) \in Nat /\ Len(b) \in Nat
    BY <2>0
  <2>2. Len(o) = 10 \/ Len(o) = 12 + Len(id)
    BY <1>1
  <2>3. Len(o) >= 10
    <3>1. CASE Len(o) = 10
      BY <3>1
    <3>2. CASE Len(o) = 12 + Len(id)
      <4>1. 12 + Len(id) >= 10
        BY <2>0
      <4> QED
        BY <3>2, <4>1
    <3> QED
      BY <2>2, <3>1, <3>2
  <2> QED
    BY <1>3, <2>1, <2>3
<1>5. /\ b[1] = MESSAGE_TYPE /\ b[2] = 1 /\ b[3] = type
      /\ b[4] = SERVER_ID /\ b[5] = 2 /\ b[6] = Server[1] /\ b[7] = Server[2]
      /\ b[8] = LEASE_TIME /\ b[9] = 1 /\ b[10] = END
  <2>1. \A i \in 1..10 : b[i] = o[i]
    BY <1>3, <1>4
  <2>2. b[1] = o[1] /\ b[2] = o[2] /\ b[3] = o[3] /\ b[4] = o[4] /\ b[5] = o[5]
    BY <2>1
  <2>3. b[6] = o[6] /\ b[7] = o[7] /\ b[8] = o[8] /\ b[9] = o[9] /\ b[10] = o[10]
    BY <2>1
  <2> QED
    BY <1>1, <2>2, <2>3
<1>6. Server \in Seq(Nat) /\ Len(Server) = 2
  BY MessageAssumption, BytesAreNat DEF Addresses, AddrLen
<1>7. /\ <<type>> \in Seq(Nat) /\ Len(<<type>>) = 1 /\ <<type>>[1] = type
      /\ <<END>> \in Seq(Nat) /\ Len(<<END>>) = 1 /\ <<END>>[1] = END
  BY DEF END
<1>8. o1 \in OptionSet /\ o2 \in OptionSet /\ o3 \in OptionSet /\ o4 \in OptionSet
  BY <1>1, <1>6, <1>7 DEF OptionSet, MESSAGE_TYPE, SERVER_ID, LEASE_TIME, CLIENT_ID
<1>9. F[1] = <<o1>> \o F[4]
  <2>1. /\ 1 \in 1..Len(b) /\ 1 < Len(b) /\ b[1] \notin {END, PAD}
        /\ b[1 + 1] = Len(<<type>>) /\ 1 + 1 + Len(<<type>>) <= Len(b)
    <3>1. 1 \in 1..Len(b) /\ 1 < Len(b) /\ 1 + 1 + Len(<<type>>) <= Len(b)
      BY <1>4, <1>7
    <3>2. b[1] \notin {END, PAD} /\ b[1 + 1] = Len(<<type>>)
      BY <1>5, <1>7 DEF END, PAD, MESSAGE_TYPE
    <3> QED
      BY <3>1, <3>2
  <2>2. \A i \in 1..Len(<<type>>) : b[1 + 1 + i] = <<type>>[i]
    BY <1>5, <1>7
  <2>3. F[1] = <<[code |-> b[1], data |-> <<type>>]>> \o F[1 + 2 + Len(<<type>>)]
    BY <1>3, <1>7, <2>1, <2>2, OneOption
  <2>4. 1 + 2 + Len(<<type>>) = 4 /\ o1 = [code |-> b[1], data |-> <<type>>]
    BY <1>5, <1>7
  <2> QED
    BY <2>3, <2>4, Zenon
<1>10. F[4] = <<o2>> \o F[8]
  <2>1. /\ 4 \in 1..Len(b) /\ 4 < Len(b) /\ b[4] \notin {END, PAD}
        /\ b[4 + 1] = Len(Server) /\ 4 + 1 + Len(Server) <= Len(b)
    <3>1. 4 \in 1..Len(b) /\ 4 < Len(b) /\ 4 + 1 + Len(Server) <= Len(b)
      BY <1>4, <1>6
    <3>2. b[4] \notin {END, PAD} /\ b[4 + 1] = Len(Server)
      BY <1>5, <1>6 DEF END, PAD, SERVER_ID
    <3> QED
      BY <3>1, <3>2
  <2>2. \A i \in 1..Len(Server) : b[4 + 1 + i] = Server[i]
    <3>1. \A i \in 1..2 : i = 1 \/ i = 2
      OBVIOUS
    <3> QED
      BY <1>5, <1>6, <3>1
  <2>3. F[4] = <<[code |-> b[4], data |-> Server]>> \o F[4 + 2 + Len(Server)]
    BY <1>3, <1>6, <2>1, <2>2, OneOption
  <2> QED
    BY <1>5, <1>6, <2>3
<1>11. F[8] = <<o3>> \o F[11]
  <2>1. /\ 8 \in 1..Len(b) /\ 8 < Len(b) /\ b[8] \notin {END, PAD}
        /\ b[8 + 1] = Len(<<END>>) /\ 8 + 1 + Len(<<END>>) <= Len(b)
    <3>1. 8 \in 1..Len(b) /\ 8 < Len(b) /\ 8 + 1 + Len(<<END>>) <= Len(b)
      BY <1>4, <1>7
    <3>2. b[8] \notin {END, PAD} /\ b[8 + 1] = Len(<<END>>)
      BY <1>5, <1>7 DEF END, PAD, LEASE_TIME
    <3> QED
      BY <3>1, <3>2
  <2>2. \A i \in 1..Len(<<END>>) : b[8 + 1 + i] = <<END>>[i]
    BY <1>5, <1>7
  <2>3. F[8] = <<[code |-> b[8], data |-> <<END>>]>> \o F[8 + 2 + Len(<<END>>)]
    BY <1>3, <1>7, <2>1, <2>2, OneOption
  <2>4. 8 + 2 + Len(<<END>>) = 11 /\ o3 = [code |-> b[8], data |-> <<END>>]
    BY <1>5, <1>7
  <2> QED
    BY <2>3, <2>4, Zenon
<1>12. F[1] \in Seq(OptionSet) /\ F[4] \in Seq(OptionSet) /\ F[8] \in Seq(OptionSet)
       /\ F[11] \in Seq(OptionSet)
  <2>1. 1 \in 1..Len(b) + 1 /\ 4 \in 1..Len(b) + 1 /\ 8 \in 1..Len(b) + 1
        /\ 11 \in 1..Len(b) + 1
    BY <1>3, <1>4
  <2> QED
    BY <1>3, <2>1, FromTyped
<1>13. r = F[1]
  BY DEF OptionsIn
<1> HIDE DEF o1, o2, o3, o4, F, r
<1>14. /\ os1 \in Seq(OptionSet) /\ os2 \in Seq(OptionSet)
       /\ os3 \in Seq(OptionSet) /\ os4 \in Seq(OptionSet)
  BY <1>8
<1>15. r = os3 \o F[11]
  <2> HIDE DEF os1, os2, os3
  <2>1. r = <<>> \o F[1] /\ <<>> \in Seq(OptionSet)
    BY <1>12, <1>13, ConcatEmptySeq
  <2>2. r = os1 \o F[4]
    BY <1>8, <1>9, <1>12, <2>1, Shifted DEF os1
  <2>3. r = os2 \o F[8]
    <3>1. os1 \o (<<o2>> \o F[8]) = Append(os1, o2) \o F[8]
      <4>1. os1 \in Seq(OptionSet) /\ o2 \in OptionSet /\ F[8] \in Seq(OptionSet)
        BY <1>8, <1>12, <1>14
      <4> QED
        BY <4>1, Shifted, Zenon
    <3> QED
      BY <1>10, <2>2, <3>1, Zenon DEF os2
  <2>4. os2 \o (<<o3>> \o F[11]) = Append(os2, o3) \o F[11]
    <3>1. os2 \in Seq(OptionSet) /\ o3 \in OptionSet /\ F[11] \in Seq(OptionSet)
      BY <1>8, <1>12, <1>14
    <3> QED
      BY <3>1, Shifted, Zenon
  <2> QED
    BY <1>11, <2>3, <2>4, Zenon DEF os3
<1> DEFINE Fine(s) == /\ AllRight(s)
                      /\ ValueOf(s, MESSAGE_TYPE) = <<type>>
                      /\ ValueOf(s, SERVER_ID) = Server
                      /\ Has(s, MESSAGE_TYPE) /\ Has(s, SERVER_ID)
<1>16. Fine(os3) /\ Has(os3, CLIENT_ID) = FALSE
  <2>0. /\ o1.code = MESSAGE_TYPE /\ o1.data = <<type>>
        /\ o2.code = SERVER_ID /\ o2.data = Server
        /\ o3.code = LEASE_TIME /\ o3.data = <<END>>
    BY DEF o1, o2, o3
  <2>d. /\ MESSAGE_TYPE # SERVER_ID /\ MESSAGE_TYPE # LEASE_TIME /\ SERVER_ID # LEASE_TIME
        /\ CLIENT_ID # MESSAGE_TYPE /\ CLIENT_ID # SERVER_ID /\ CLIENT_ID # LEASE_TIME
    BY DEF MESSAGE_TYPE, SERVER_ID, LEASE_TIME, CLIENT_ID
  <2>r. Right(o1) /\ Right(o2) /\ Right(o3)
    <3>1. o1 # Overrun /\ o2 # Overrun /\ o3 # Overrun
      BY <2>0 DEF Overrun, PAD, MESSAGE_TYPE, SERVER_ID, LEASE_TIME
    <3> QED
      BY <1>6, <1>7, <2>0, <3>1
      DEF Right, AddrLen, MESSAGE_TYPE, SERVER_ID, LEASE_TIME, CLIENT_ID, REQUESTED_IP
  <2>1. /\ AllRight(os1) /\ ValueOf(os1, MESSAGE_TYPE) = <<type>>
        /\ Has(os1, MESSAGE_TYPE) /\ Has(os1, CLIENT_ID) = FALSE
    <3>1. <<>> \in Seq(OptionSet)
      OBVIOUS
    <3> HIDE DEF os1
    <3> QED
      BY <1>8, <2>0, <2>d, <2>r, <3>1, OneMore, NoneSaid DEF os1
  <2>2. Fine(os2) /\ Has(os2, CLIENT_ID) = FALSE
    <3> HIDE DEF os1, os2
    <3> QED
      BY <1>8, <1>14, <2>0, <2>d, <2>r, <2>1, OneMore DEF os2
  <2> HIDE DEF os2, os3
  <2> QED
    BY <1>8, <1>14, <2>0, <2>d, <2>r, <2>2, OneMore DEF os3
<1>17. CASE ~m.fields.has_client_id
  <2>1. Len(o) = 10 /\ 11 \in 1..Len(b)
    BY <1>1, <1>3, <1>4, <1>17
  <2>2. F[11] = <<>>
    BY <1>3, <2>1, OnlyPadding DEF F
  <2>3. r = os3
    <3> HIDE DEF os3
    <3> QED
      BY <1>14, <1>15, <2>2, ConcatEmptySeq
  <2>4. m.fields.has_client_id = FALSE
    BY <1>2, <1>17
  <2> HIDE DEF os3
  <2> QED
    BY <1>3, <1>16, <2>3, <2>4 DEF b, r, o, id
<1>18. CASE m.fields.has_client_id
  <2>1. /\ Len(o) = 12 + Len(id)
        /\ o[11] = CLIENT_ID /\ o[12] = Len(id)
        /\ \A i \in 1..Len(id) : o[12 + i] = id[i]
    BY <1>1, <1>18
  <2>2. b[11] = CLIENT_ID /\ b[11 + 1] = Len(id)
    <3>1. 11 \in 1..Len(o) /\ 12 \in 1..Len(o) /\ 11 + 1 = 12
      BY <1>1, <2>1
    <3> QED
      BY <1>3, <2>1, <3>1
  <2>3. \A i \in 1..Len(id) : b[11 + 1 + i] = id[i]
    <3>1. \A i \in 1..Len(id) : 12 + i \in 1..Len(o) /\ 11 + 1 + i = 12 + i
      BY <1>1, <2>1
    <3> QED
      BY <1>3, <2>1, <3>1
  <2>4. /\ 11 \in 1..Len(b) /\ 11 < Len(b) /\ b[11] \notin {END, PAD}
        /\ 11 + 1 + Len(id) <= Len(b)
    <3>1. b[11] \notin {END, PAD}
      BY <2>2 DEF END, PAD, CLIENT_ID
    <3>2. Len(b) \in Nat /\ Len(id) \in Nat /\ Len(b) > 12 + Len(id)
      BY <1>1, <1>3, <1>4, <2>1
    <3> QED
      BY <3>1, <3>2
  <2>5. F[11] = <<[code |-> b[11], data |-> id]>> \o F[11 + 2 + Len(id)]
    BY <1>1, <1>3, <2>2, <2>3, <2>4, OneOption DEF F
  <2>6. /\ 13 + Len(id) \in 1..Len(b) /\ 11 + 2 + Len(id) = 13 + Len(id)
        /\ Len(o) + 1 = 13 + Len(id)
    <3>1. Len(b) \in Nat /\ Len(id) \in Nat /\ Len(b) > 12 + Len(id)
      BY <1>1, <1>3, <1>4, <2>1
    <3> QED
      BY <2>1, <3>1
  <2>7. F[13 + Len(id)] = <<>>
    BY <1>3, <2>6, OnlyPadding DEF F
  <2>8. F[11] = <<o4>> \o <<>>
    BY <2>2, <2>5, <2>6, <2>7 DEF o4
  <2>9. r = os4
    <3>1. <<>> \in Seq(OptionSet)
      OBVIOUS
    <3> HIDE DEF os3, os4
    <3>2. r = os4 \o <<>>
      BY <1>8, <1>14, <1>15, <2>8, <3>1, Shifted DEF os4
    <3> QED
      BY <1>14, <3>2, ConcatEmptySeq
  <2>10. /\ o4.code = CLIENT_ID /\ o4.data = id
         /\ CLIENT_ID # MESSAGE_TYPE /\ CLIENT_ID # SERVER_ID
    BY DEF o4, CLIENT_ID, MESSAGE_TYPE, SERVER_ID
  <2>11. Right(o4)
    <3>1. o4 # Overrun
      BY <2>10 DEF Overrun, PAD, CLIENT_ID
    <3> QED
      BY <1>1, <2>10, <3>1 DEF Right, MESSAGE_TYPE, SERVER_ID, CLIENT_ID, REQUESTED_IP
  <2>12. Fine(os4) /\ Has(os4, CLIENT_ID) /\ ValueOf(os4, CLIENT_ID) = id
    <3> HIDE DEF os3, os4
    <3> QED
      BY <1>8, <1>14, <1>16, <2>10, <2>11, OneMore DEF os4
  <2>13. m.fields.has_client_id = TRUE /\ Has(os4, CLIENT_ID) = TRUE
    BY <1>2, <1>18, <2>12 DEF Has
  <2> HIDE DEF os4
  <2> QED
    BY <1>3, <2>9, <2>12, <2>13 DEF b, r, o, id
<1> QED
  BY <1>17, <1>18

-----------------------------------------------------------------------------
(* dhcp_parse.                                                             *)

\* While it parses, the bytes are those of the datagram.
LEMMA AtParse ==
  ASSUME Typed, Delivered, pc = "parse"
  PROVE  /\ asked.options \in Seq(Nat) /\ Len(asked.options) \in Nat
         /\ ~asked.short /\ got = Len(asked.options) /\ got <= Cap
         /\ pos \in 1..Len(asked.options) + 1
         /\ \A i \in 1..Len(asked.options) : Byte[i] = asked.options[i]
         /\ net_buffer.fixed = asked.fixed /\ sent = None
<1>1. /\ asked.options \in Seq(Bytes) /\ asked.short \in BOOLEAN
      /\ got \in -1..Cap /\ pos \in 1..Cap + 1 /\ got >= 0 /\ pos <= got + 1
      /\ Cap \in Nat
  BY MessageAssumption DEF Typed, Messages
<1>2. /\ got = IF asked.short THEN -1 ELSE Len(asked.options)
      /\ ~asked.short =>
           /\ net_buffer.fixed = asked.fixed
           /\ \A i \in 1..Len(asked.options) : net_buffer.options[i] = asked.options[i]
      /\ sent = None
  BY DEF Delivered
<1>3. ~asked.short
  BY <1>1, <1>2
<1>4. asked.options \in Seq(Nat) /\ Len(asked.options) \in Nat
  BY <1>1, BytesAreNat
<1>5. got = Len(asked.options)
  BY <1>2, <1>3
<1>6. pos \in 1..Len(asked.options) + 1 /\ got <= Cap
  BY <1>1, <1>4, <1>5
<1> QED
  BY <1>2, <1>3, <1>4, <1>5, <1>6 DEF Byte

\* The option at pos.
TheOption == [code |-> Code, data |-> Data]

\* The option the code reads is the one that the bytes have at pos.
LEMMA OptionAtPos ==
  ASSUME Typed, Delivered, Parsing, Code \notin {PAD, END}, ~Overruns
  PROVE  /\ TheOption \in OptionSet
         /\ OptionsFrom(asked.options)[pos] =
              <<TheOption>> \o OptionsFrom(asked.options)[pos + 2 + DataLen]
         /\ pos + 2 + DataLen \in 1..Len(asked.options) + 1
         /\ Right(TheOption) = ~Malformed
<1> DEFINE b == asked.options
<1>1. /\ b \in Seq(Nat) /\ Len(b) \in Nat /\ got = Len(b) /\ pos \in 1..Len(b) + 1
      /\ \A i \in 1..Len(b) : Byte[i] = b[i]
  BY AtParse DEF Parsing
<1>2. /\ Code \in Bytes /\ DataLen \in Bytes
      /\ Data \in Seq(Bytes) /\ Len(Data) = DataLen
      /\ \A i \in 1..DataLen : Data[i] = Byte[pos + 1 + i]
      /\ pos + 1 + DataLen <= got
  BY DataFacts
<1>3. pos < Len(b) /\ DataLen \in Nat /\ Code \in Nat
  BY <1>1, <1>2 DEF Parsing, Bytes
<1>4. Data \in Seq(Nat)
  BY <1>2, BytesAreNat
<1> HIDE DEF b
<1>5. pos \in 1..Len(b) /\ pos + 1 \in 1..Len(b)
  BY <1>1, <1>3
<1>6. b[pos] = Code /\ b[pos + 1] = DataLen
  BY <1>1, <1>5 DEF Code, DataLen
<1>7. \A i \in 1..Len(Data) : b[pos + 1 + i] = Data[i]
  <2>1. \A i \in 1..DataLen : pos + 1 + i \in 1..Len(b)
    BY <1>1, <1>2, <1>3
  <2> QED
    BY <1>1, <1>2, <2>1
<1>8. OptionsFrom(b)[pos] =
        <<[code |-> b[pos], data |-> Data]>> \o OptionsFrom(b)[pos + 2 + Len(Data)]
  <2>1. /\ b[pos] \notin {END, PAD} /\ b[pos + 1] = Len(Data)
        /\ pos + 1 + Len(Data) <= Len(b)
    BY <1>1, <1>2, <1>6
  <2> QED
    BY <1>1, <1>3, <1>4, <1>5, <1>7, <2>1, OneOption
<1>9. pos + 2 + DataLen \in 1..Len(b) + 1
  BY <1>1, <1>2, <1>3
<1>10. TheOption \in OptionSet /\ TheOption.code = Code /\ TheOption.data = Data
  BY <1>3, <1>4 DEF TheOption, OptionSet
<1>11. Right(TheOption) = ~Malformed
  <2>1. TheOption # Overrun
    BY <1>10 DEF Overrun
  <2>2. Right(TheOption) <=>
          /\ Code \in {REQUESTED_IP, SERVER_ID} => DataLen = AddrLen
          /\ Code = MESSAGE_TYPE => DataLen = 1
          /\ Code = CLIENT_ID => DataLen <= CidCap
    BY <1>2, <1>10, <2>1 DEF Right
  <2>3. CidCap \in Nat
    BY MessageAssumption
  <2>4. DataLen <= CidCap <=> ~(DataLen > CidCap)
    BY <1>3, <2>3
  <2>5. Right(TheOption) <=> ~Malformed
    BY <2>2, <2>4 DEF Malformed
  <2> QED
    BY <2>5 DEF Right
<1> QED
  BY <1>2, <1>6, <1>8, <1>9, <1>10, <1>11 DEF b, TheOption

\* The fields say one option more after it was stored.
LEMMA FieldsStored ==
  ASSUME NEW f \in FieldSet, NEW read \in Seq(OptionSet), FieldsSay(f, read),
         TheOption \in OptionSet, Data \in Seq(Bytes), Len(Data) = DataLen, ~Malformed
  PROVE  FieldsSay(Stored(f), Append(read, TheOption))
<1> DEFINE o == TheOption
           more == Append(read, o)
<1>1. o.code = Code /\ o.data = Data
  BY DEF TheOption
<1>2. /\ \A code : Has(more, code) = (Has(read, code) \/ Code = code)
      /\ \A code : Code = code => ValueOf(more, code) = Data
      /\ \A code : Code # code /\ Has(read, code) =>
           ValueOf(more, code) = ValueOf(read, code)
      /\ Listed(more) = IF Code = PARAMETER_LIST
                        THEN Listed(read) \cup ToSet(Data) ELSE Listed(read)
  BY <1>1, OneMore
<1>3. \A code : Has(read, code) \in BOOLEAN
  BY DEF Has
<1>4. /\ f.has_requested_ip \in BOOLEAN /\ f.has_message_type \in BOOLEAN
      /\ f.has_server_id \in BOOLEAN /\ f.has_client_id \in BOOLEAN
  BY DEF FieldSet
<1> HIDE DEF o, more
<1>5. CASE Code = REQUESTED_IP
  <2>1. /\ Stored(f) = [f EXCEPT !.has_requested_ip = TRUE, !.requested_ip = Data]
        /\ Code # MESSAGE_TYPE /\ Code # SERVER_ID /\ Code # PARAMETER_LIST
        /\ Code # CLIENT_ID
    BY <1>5 DEF Stored, REQUESTED_IP, MESSAGE_TYPE, SERVER_ID, PARAMETER_LIST, CLIENT_ID
  <2>2. /\ Stored(f).has_requested_ip = TRUE /\ Stored(f).requested_ip = Data
        /\ Stored(f).has_message_type = f.has_message_type
        /\ Stored(f).message_type = f.message_type
        /\ Stored(f).has_server_id = f.has_server_id /\ Stored(f).server_id = f.server_id
        /\ Stored(f).has_client_id = f.has_client_id /\ Stored(f).client_id = f.client_id
        /\ Stored(f).requested = f.requested
    BY <2>1 DEF FieldSet
  <2> QED
    BY <1>2, <1>3, <1>4, <1>5, <2>1, <2>2 DEF FieldsSay, more, o
<1>6. CASE Code = MESSAGE_TYPE
  <2>1. /\ Stored(f) = [f EXCEPT !.has_message_type = TRUE, !.message_type = Data[1]]
        /\ Code # REQUESTED_IP /\ Code # SERVER_ID /\ Code # PARAMETER_LIST
        /\ Code # CLIENT_ID
    BY <1>6 DEF Stored, REQUESTED_IP, MESSAGE_TYPE, SERVER_ID, PARAMETER_LIST, CLIENT_ID
  <2>2. /\ Stored(f).has_message_type = TRUE /\ Stored(f).message_type = Data[1]
        /\ Stored(f).has_requested_ip = f.has_requested_ip
        /\ Stored(f).requested_ip = f.requested_ip
        /\ Stored(f).has_server_id = f.has_server_id /\ Stored(f).server_id = f.server_id
        /\ Stored(f).has_client_id = f.has_client_id /\ Stored(f).client_id = f.client_id
        /\ Stored(f).requested = f.requested
    BY <2>1 DEF FieldSet
  <2>3. <<Data[1]>> = Data
    <3>1. Len(Data) = 1
      BY <1>6 DEF Malformed
    <3> QED
      BY <3>1
  <2> QED
    BY <1>2, <1>3, <1>4, <1>6, <2>1, <2>2, <2>3 DEF FieldsSay, more, o
<1>7. CASE Code = SERVER_ID
  <2>1. /\ Stored(f) = [f EXCEPT !.has_server_id = TRUE, !.server_id = Data]
        /\ Code # REQUESTED_IP /\ Code # MESSAGE_TYPE /\ Code # PARAMETER_LIST
        /\ Code # CLIENT_ID
    BY <1>7 DEF Stored, REQUESTED_IP, MESSAGE_TYPE, SERVER_ID, PARAMETER_LIST, CLIENT_ID
  <2>2. /\ Stored(f).has_server_id = TRUE /\ Stored(f).server_id = Data
        /\ Stored(f).has_requested_ip = f.has_requested_ip
        /\ Stored(f).requested_ip = f.requested_ip
        /\ Stored(f).has_message_type = f.has_message_type
        /\ Stored(f).message_type = f.message_type
        /\ Stored(f).has_client_id = f.has_client_id /\ Stored(f).client_id = f.client_id
        /\ Stored(f).requested = f.requested
    BY <2>1 DEF FieldSet
  <2> QED
    BY <1>2, <1>3, <1>4, <1>7, <2>1, <2>2 DEF FieldsSay, more, o
<1>8. CASE Code = PARAMETER_LIST
  <2>1. /\ Stored(f) = [f EXCEPT !.requested = @ \cup ToSet(Data)]
        /\ Code # REQUESTED_IP /\ Code # MESSAGE_TYPE /\ Code # SERVER_ID
        /\ Code # CLIENT_ID
    BY <1>8 DEF Stored, REQUESTED_IP, MESSAGE_TYPE, SERVER_ID, PARAMETER_LIST, CLIENT_ID
  <2>2. /\ Stored(f).requested = f.requested \cup ToSet(Data)
        /\ Stored(f).has_requested_ip = f.has_requested_ip
        /\ Stored(f).requested_ip = f.requested_ip
        /\ Stored(f).has_message_type = f.has_message_type
        /\ Stored(f).message_type = f.message_type
        /\ Stored(f).has_server_id = f.has_server_id /\ Stored(f).server_id = f.server_id
        /\ Stored(f).has_client_id = f.has_client_id /\ Stored(f).client_id = f.client_id
    BY <2>1 DEF FieldSet
  <2> QED
    BY <1>2, <1>3, <1>4, <1>8, <2>1, <2>2 DEF FieldsSay, more, o
<1>9. CASE Code = CLIENT_ID
  <2>1. /\ Stored(f) = [f EXCEPT !.has_client_id = TRUE, !.client_id = Data]
        /\ Code # REQUESTED_IP /\ Code # MESSAGE_TYPE /\ Code # SERVER_ID
        /\ Code # PARAMETER_LIST
    BY <1>9 DEF Stored, REQUESTED_IP, MESSAGE_TYPE, SERVER_ID, PARAMETER_LIST, CLIENT_ID
  <2>2. /\ Stored(f).has_client_id = TRUE /\ Stored(f).client_id = Data
        /\ Stored(f).has_requested_ip = f.has_requested_ip
        /\ Stored(f).requested_ip = f.requested_ip
        /\ Stored(f).has_message_type = f.has_message_type
        /\ Stored(f).message_type = f.message_type
        /\ Stored(f).has_server_id = f.has_server_id /\ Stored(f).server_id = f.server_id
        /\ Stored(f).requested = f.requested
    BY <2>1 DEF FieldSet
  <2> QED
    BY <1>2, <1>3, <1>4, <1>9, <2>1, <2>2 DEF FieldsSay, more, o
<1>10. CASE Code \notin {REQUESTED_IP, MESSAGE_TYPE, SERVER_ID, PARAMETER_LIST, CLIENT_ID}
  <2>1. Stored(f) = f
    BY <1>10 DEF Stored
  <2> QED
    BY <1>2, <1>3, <1>4, <1>10, <2>1 DEF FieldsSay, more, o
<1> QED
  BY <1>5, <1>6, <1>7, <1>8, <1>9, <1>10

\* The fields are cleared before the first option.
LEMMA CheckGoodReads ==
  ASSUME Inv, CheckGood
  PROVE  ReadSoFar'
<1> DEFINE b == asked.options
           f == received_msg.fields
<1>1. /\ received_msg \in Received /\ f \in FieldSet
      /\ b \in Seq(Nat) /\ asked.short \in BOOLEAN
  BY BytesAreNat DEF Inv, Typed, Received, Messages
<1>2. /\ pc = "check" /\ got >= 0 /\ pos' = 1 /\ pc' = "parse" /\ asked' = asked
      /\ received_msg' = [received_msg EXCEPT !.fixed = net_buffer.fixed,
                                              !.fields = Cleared(@)]
  BY DEF CheckGood
<1>3. net_buffer.fixed = asked.fixed
  BY <1>1, <1>2 DEF Inv, Delivered
<1>4. received_msg'.fixed = asked.fixed /\ received_msg'.fields = Cleared(f)
  BY <1>1, <1>2, <1>3 DEF Received
<1>5. FieldsSay(Cleared(f), <<>>)
  <2>1. /\ Cleared(f).has_requested_ip = FALSE /\ Cleared(f).has_message_type = FALSE
        /\ Cleared(f).has_server_id = FALSE /\ Cleared(f).has_client_id = FALSE
        /\ Cleared(f).requested = {}
    BY <1>1 DEF Cleared, FieldSet
  <2> QED
    BY <2>1, NoneSaid DEF FieldsSay
<1>6. OptionsIn(b) = <<>> \o OptionsFrom(b)[1] /\ <<>> \in Seq(OptionSet)
  <2>1. 1 \in 1..Len(b) + 1
    BY <1>1
  <2>2. OptionsFrom(b)[1] \in Seq(OptionSet)
    BY <1>1, <2>1, FromTyped
  <2> QED
    BY <2>2, ConcatEmptySeq DEF OptionsIn
<1>7. AllRight(<<>>)
  BY NoneSaid
<1> HIDE DEF f
<1>8. \E read \in Seq(OptionSet) :
        /\ OptionsIn(b) = read \o OptionsFrom(b)[1]
        /\ AllRight(read) /\ FieldsSay(received_msg'.fields, read)
  BY <1>4, <1>5, <1>6, <1>7
<1> QED
  BY <1>2, <1>4, <1>8 DEF ReadSoFar

\* Padding is no option.
LEMMA ParsePadReads ==
  ASSUME Inv, ParsePad
  PROVE  ReadSoFar'
<1> DEFINE b == asked.options
<1>1. /\ pc = "parse" /\ pos < got /\ Code = PAD /\ pos' = pos + 1
      /\ UNCHANGED <<received_msg, pc, asked>>
  BY DEF ParsePad, Parsing
<1>2. /\ b \in Seq(Nat) /\ Len(b) \in Nat /\ got = Len(b) /\ pos \in 1..Len(b) + 1
      /\ \A i \in 1..Len(b) : Byte[i] = b[i]
  BY <1>1, AtParse DEF Inv
<1>3. b[pos] = PAD
  BY <1>1, <1>2 DEF Code
<1>4. OptionsFrom(b)[pos] = OptionsFrom(b)[pos + 1]
  <2>1. OptionsFrom(b)[pos] = Step(b, OptionsFrom(b), pos)
    BY <1>2, Unfold
  <2>2. ~(pos >= Len(b)) /\ b[pos] # END
    BY <1>1, <1>2, <1>3 DEF PAD, END
  <2> QED
    BY <1>3, <2>1, <2>2 DEF Step
<1> QED
  BY <1>1, <1>4 DEF Inv, ReadSoFar

\* An option.
LEMMA ParseOptionReads ==
  ASSUME Inv, ParseOption
  PROVE  ReadSoFar'
<1> DEFINE b == asked.options
           f == received_msg.fields
           q == pos + 2 + DataLen
<1>1. /\ Parsing /\ Code \notin {PAD, END} /\ ~Overruns /\ ~Malformed
      /\ received_msg' = [received_msg EXCEPT !.fields = Stored(@)]
      /\ pos' = q /\ UNCHANGED <<pc, asked>>
  BY DEF ParseOption
<1>2. PICK read \in Seq(OptionSet) :
        /\ OptionsIn(b) = read \o OptionsFrom(b)[pos]
        /\ AllRight(read) /\ FieldsSay(f, read)
  BY <1>1 DEF Inv, ReadSoFar, Parsing
<1>3. /\ TheOption \in OptionSet
      /\ OptionsFrom(b)[pos] = <<TheOption>> \o OptionsFrom(b)[q]
      /\ q \in 1..Len(b) + 1
      /\ Right(TheOption) = ~Malformed
  BY <1>1, OptionAtPos DEF Inv
<1>4. /\ received_msg \in Received /\ f \in FieldSet /\ b \in Seq(Nat)
  BY BytesAreNat DEF Inv, Typed, Received, Messages
<1>5. received_msg'.fixed = received_msg.fixed /\ received_msg'.fields = Stored(f)
  BY <1>1, <1>4 DEF Received
<1>6. Data \in Seq(Bytes) /\ Len(Data) = DataLen
  BY <1>1, DataFacts DEF Inv
<1> DEFINE more == Append(read, TheOption)
<1>7. more \in Seq(OptionSet)
  BY <1>3
<1>8. FieldsSay(Stored(f), more)
  BY <1>1, <1>2, <1>3, <1>4, <1>6, FieldsStored
<1>9. AllRight(more)
  BY <1>1, <1>2, <1>3, OneMore
<1>10. OptionsIn(b) = more \o OptionsFrom(b)[q]
  <2>1. OptionsFrom(b)[q] \in Seq(OptionSet)
    BY <1>3, <1>4, FromTyped
  <2>2. read \o (<<TheOption>> \o OptionsFrom(b)[q]) = more \o OptionsFrom(b)[q]
    BY <1>3, <2>1, Shifted
  <2> QED
    BY <1>2, <1>3, <2>2
<1> HIDE DEF f, more, q
<1>11. \E r \in Seq(OptionSet) :
         /\ OptionsIn(b) = r \o OptionsFrom(b)[q]
         /\ AllRight(r) /\ FieldsSay(received_msg'.fields, r)
  BY <1>5, <1>7, <1>8, <1>9, <1>10
<1>12. received_msg.fixed = asked.fixed
  BY <1>1 DEF Inv, ReadSoFar, Parsing
<1> QED
  BY <1>1, <1>5, <1>11, <1>12 DEF ReadSoFar

\* An option that is wrong at the head of the rest makes the whole wrong.
LEMMA WrongOption ==
  ASSUME NEW read \in Seq(OptionSet), NEW o \in OptionSet, NEW rest \in Seq(OptionSet),
         ~Right(o)
  PROVE  ~AllRight(read \o (<<o>> \o rest))
<1> DEFINE more == Append(read, o)
           s == more \o rest
           k == Len(read) + 1
<1>1. /\ more \in Seq(OptionSet) /\ Len(read) \in Nat /\ Len(more) = k /\ more[k] = o
  OBVIOUS
<1> HIDE DEF more
<1>2. s \in Seq(OptionSet) /\ k \in DOMAIN s /\ s[k] = more[k]
  <2>1. /\ s \in Seq(OptionSet) /\ Len(s) = Len(more) + Len(rest)
        /\ \A i \in 1..Len(more) + Len(rest) :
             s[i] = IF i <= Len(more) THEN more[i] ELSE rest[i - Len(more)]
    BY <1>1, ConcatProperties
  <2>2. Len(rest) \in Nat
    OBVIOUS
  <2>3. k \in 1..Len(more) + Len(rest) /\ k <= Len(more)
    BY <1>1, <2>2
  <2> HIDE DEF s, k
  <2> QED
    BY <2>1, <2>3
<1>3. read \o (<<o>> \o rest) = s
  BY Shifted DEF more
<1> HIDE DEF s, k
<1> QED
  BY <1>1, <1>2, <1>3 DEF AllRight

\* What dhcp_parse refuses is not well-formed.
LEMMA RefusedIsWrong ==
  ASSUME Inv, ParseError
  PROVE  ~WellFormed(asked.options)
<1> DEFINE b == asked.options
<1>1. Parsing /\ Code \notin {PAD, END} /\ (Overruns \/ Malformed)
  BY DEF ParseError
<1>2. PICK read \in Seq(OptionSet) : OptionsIn(b) = read \o OptionsFrom(b)[pos]
  BY <1>1 DEF Inv, ReadSoFar, Parsing
<1>3. /\ b \in Seq(Nat) /\ Len(b) \in Nat /\ got = Len(b) /\ pos \in 1..Len(b) + 1
      /\ \A i \in 1..Len(b) : Byte[i] = b[i]
  BY <1>1, AtParse DEF Inv, Parsing
<1>4. CASE Overruns
  <2>1. pos < Len(b) /\ pos \in 1..Len(b) /\ pos + 1 \in 1..Len(b)
    BY <1>1, <1>3 DEF Parsing
  <2>2. b[pos] = Code /\ b[pos + 1] = DataLen
    BY <1>3, <2>1 DEF Code, DataLen
  <2>3. OptionsFrom(b)[pos] = Step(b, OptionsFrom(b), pos)
    BY <1>3, Unfold
  <2>4. ~(pos >= Len(b)) /\ pos + 1 + b[pos + 1] > Len(b)
    BY <1>3, <1>4, <2>1, <2>2 DEF Overruns
  <2>5. OptionsFrom(b)[pos] = <<Overrun>>
    BY <1>1, <2>2, <2>3, <2>4 DEF Step
  <2>6. Overrun \in OptionSet /\ ~Right(Overrun)
    BY DEF Overrun, OptionSet, PAD, Right
  <2>7. <<Overrun>> = <<Overrun>> \o <<>> /\ <<>> \in Seq(OptionSet)
    BY <2>6
  <2> QED
    BY <1>2, <2>5, <2>6, <2>7, WrongOption DEF WellFormed
<1>5. CASE ~Overruns
  <2>1. /\ TheOption \in OptionSet
        /\ OptionsFrom(b)[pos] = <<TheOption>> \o OptionsFrom(b)[pos + 2 + DataLen]
        /\ pos + 2 + DataLen \in 1..Len(b) + 1
        /\ Right(TheOption) = ~Malformed
    BY <1>1, <1>5, OptionAtPos DEF Inv
  <2>2. OptionsFrom(b)[pos + 2 + DataLen] \in Seq(OptionSet)
    BY <1>3, <2>1, FromTyped
  <2>3. ~Right(TheOption)
    BY <1>1, <1>5, <2>1
  <2> QED
    BY <1>2, <2>1, <2>2, <2>3, WrongOption DEF WellFormed
<1> QED
  BY <1>4, <1>5

\* What it accepts is, and the message says what the datagram says.
LEMMA AcceptedIsSaid ==
  ASSUME Inv, ParseDone
  PROVE  ~asked.short /\ WellFormed(asked.options) /\ Says(received_msg', asked)
<1> DEFINE b == asked.options
           f == received_msg.fields
<1>1. /\ pc = "parse" /\ (Parsing => Code = END)
      /\ received_msg' = [received_msg EXCEPT
           !.lease_key = IF f.has_client_id THEN f.client_id ELSE received_msg.fixed.chaddr]
  BY DEF ParseDone
<1>2. PICK read \in Seq(OptionSet) :
        /\ OptionsIn(b) = read \o OptionsFrom(b)[pos]
        /\ AllRight(read) /\ FieldsSay(f, read)
  BY <1>1 DEF Inv, ReadSoFar
<1>3. /\ b \in Seq(Nat) /\ Len(b) \in Nat /\ got = Len(b) /\ pos \in 1..Len(b) + 1
      /\ ~asked.short /\ \A i \in 1..Len(b) : Byte[i] = b[i]
  BY <1>1, AtParse DEF Inv
<1>4. OptionsFrom(b)[pos] = <<>>
  <2>1. OptionsFrom(b)[pos] = Step(b, OptionsFrom(b), pos)
    BY <1>3, Unfold
  <2>2. CASE pos >= Len(b)
    BY <2>1, <2>2 DEF Step
  <2>3. CASE pos < Len(b)
    <3>1. Byte[pos] = END /\ pos \in 1..Len(b)
      BY <1>1, <1>3, <2>3 DEF Parsing, Code
    <3>2. b[pos] = END
      BY <1>3, <3>1
    <3> QED
      BY <1>3, <2>1, <2>3, <3>2 DEF Step
  <2> QED
    BY <1>3, <2>2, <2>3
<1>5. OptionsIn(b) = read
  BY <1>2, <1>4, ConcatEmptySeq
<1>6. received_msg \in Received /\ f \in FieldSet
  BY DEF Inv, Typed, Received
<1>7. /\ received_msg'.fixed = received_msg.fixed /\ received_msg'.fields = f
      /\ received_msg'.lease_key = IF f.has_client_id THEN f.client_id
                                   ELSE received_msg.fixed.chaddr
  BY <1>1, <1>6 DEF Received
<1>8. received_msg.fixed = asked.fixed
  BY <1>1 DEF Inv, ReadSoFar
<1> HIDE DEF f
<1>9. /\ f.has_client_id = Has(read, CLIENT_ID)
      /\ f.has_client_id => f.client_id = ValueOf(read, CLIENT_ID)
  BY <1>2 DEF FieldsSay
<1>10. received_msg'.lease_key = ClientOf(asked)
  BY <1>5, <1>7, <1>8, <1>9 DEF ClientOf
<1>11. Says(received_msg', asked)
  BY <1>2, <1>5, <1>7, <1>8, <1>10 DEF Says
<1> QED
  BY <1>2, <1>3, <1>5, <1>11 DEF WellFormed

-----------------------------------------------------------------------------
(* dhcp_task's switch.                                                     *)

\* A reply goes through the relay, or by hardware address to who asked.
LEMMA DestinationFacts ==
  ASSUME NEW m \in Received, NEW a
  PROVE  LET d == Destination(m, a)
         IN /\ m.fixed.giaddr # NoAddr => d.ip = m.fixed.giaddr
            /\ d.mac # <<>> => /\ d.mac = m.fixed.chaddr /\ d.ip = a
                               /\ m.fixed.ciaddr = NoAddr
<1> DEFINE d == Destination(m, a)
<1>1. m.fixed.broadcast \in BOOLEAN
  BY DEF Received, FixedParts
<1>2. CASE m.fixed.giaddr # NoAddr
  <2>1. d = [ip |-> m.fixed.giaddr, port |-> "server", mac |-> <<>>]
    BY <1>2 DEF Destination
  <2> QED
    BY <2>1
<1>3. CASE m.fixed.giaddr = NoAddr /\ m.fixed.ciaddr # NoAddr
  <2>1. d = [ip |-> m.fixed.ciaddr, port |-> "client", mac |-> <<>>]
    BY <1>3 DEF Destination
  <2> QED
    BY <1>3, <2>1
<1>4. CASE m.fixed.giaddr = NoAddr /\ m.fixed.ciaddr = NoAddr /\ m.fixed.broadcast
  <2>1. d = [ip |-> Broadcast, port |-> "client", mac |-> <<>>]
    BY <1>4 DEF Destination
  <2> QED
    BY <1>4, <2>1
<1>5. CASE m.fixed.giaddr = NoAddr /\ m.fixed.ciaddr = NoAddr /\ ~m.fixed.broadcast
  <2>1. d = [ip |-> a, port |-> "client", mac |-> m.fixed.chaddr]
    BY <1>5 DEF Destination
  <2> QED
    BY <1>5, <2>1
<1> QED
  BY <1>1, <1>2, <1>3, <1>4, <1>5

\* The reply to a request that was understood.
LEMMA ReplyMatches ==
  ASSUME Inv, Handling, NEW type \in {OFFER, ACK}, NEW yiaddr, Reply(type, yiaddr),
         type = OFFER => Type \in {DISCOVER, DECLINE},
         type = ACK => Type = REQUEST /\ ForUs /\ yiaddr = Requested,
         asked' = asked
  PROVE  SentFits' /\ RepliesMatchRequest'
<1> DEFINE m == received_msg
           f == m.fields
           o == OptionBytes(type, m)
           b == Padded(o)
           reply == OptionsIn(b)
           request == OptionsIn(asked.options)
           dest == Destination(m, yiaddr)
<1>1. /\ m \in Received /\ f \in FieldSet
  BY DEF Inv, Typed, Received
<1>2. /\ pc = "handle" /\ m.fixed.op = BOOTREQUEST /\ f.has_message_type
  BY DEF Handling
<1>3. ~asked.short /\ Says(m, asked)
  BY <1>2 DEF Inv, Understood
<1>4. m.fixed = asked.fixed /\ FieldsSay(f, request)
  BY <1>3 DEF Says
<1>5. net_buffer.fixed = asked.fixed
  BY <1>2, <1>3 DEF Inv, Delivered
<1>6. SUFFICES ASSUME sent' # None
               PROVE  SentFits' /\ RepliesMatchRequest'
  BY DEF SentFits, RepliesMatchRequest
<1>7. sent' = [type |-> type, op |-> BOOTREPLY, xid |-> net_buffer.fixed.xid,
               chaddr |-> net_buffer.fixed.chaddr, yiaddr |-> yiaddr,
               options |-> b, dest |-> dest]
  BY <1>6 DEF Reply
<1>8. type \in Nat
  BY DEF OFFER, ACK
<1>9. /\ Len(b) <= ReplyCap /\ b[Len(b)] = END
      /\ AllRight(reply)
      /\ ValueOf(reply, MESSAGE_TYPE) = <<type>> /\ ValueOf(reply, SERVER_ID) = Server
      /\ Has(reply, CLIENT_ID) = f.has_client_id
      /\ f.has_client_id => ValueOf(reply, CLIENT_ID) = f.client_id
  BY <1>1, <1>8, ReplySays
<1>10. /\ m.fixed.giaddr # NoAddr => dest.ip = m.fixed.giaddr
       /\ dest.mac # <<>> => /\ dest.mac = m.fixed.chaddr /\ dest.ip = yiaddr
                             /\ m.fixed.ciaddr = NoAddr
  BY <1>1, DestinationFacts
<1> HIDE DEF b, dest, f
<1>11. /\ sent'.op = BOOTREPLY /\ sent'.xid = net_buffer.fixed.xid
       /\ sent'.chaddr = net_buffer.fixed.chaddr /\ sent'.yiaddr = yiaddr
       /\ sent'.options = b /\ sent'.dest = dest
  BY <1>7
<1>12. SentFits'
  BY <1>9, <1>11 DEF SentFits
<1> HIDE DEF reply, request
<1>13. ValueOf(request, MESSAGE_TYPE)[1] = Type
  <2>1. ValueOf(request, MESSAGE_TYPE) = <<f.message_type>>
    BY <1>2, <1>4 DEF FieldsSay, f
  <2> QED
    BY <2>1 DEF Type, f
<1>14. Requested = IF Has(request, REQUESTED_IP)
                   THEN ValueOf(request, REQUESTED_IP) ELSE asked.fixed.ciaddr
  BY <1>4 DEF Requested, FieldsSay, f
<1>15. ForUs => (Has(request, SERVER_ID) => ValueOf(request, SERVER_ID) = Server)
  BY <1>4 DEF ForUs, FieldsSay, f
<1>16. Has(reply, CLIENT_ID) = Has(request, CLIENT_ID)
  BY <1>4, <1>9 DEF FieldsSay
<1>17. Has(reply, CLIENT_ID) => ValueOf(reply, CLIENT_ID) = ValueOf(request, CLIENT_ID)
  BY <1>4, <1>9 DEF FieldsSay
<1>18. \/ /\ Type \in {DISCOVER, DECLINE}
          /\ ValueOf(reply, MESSAGE_TYPE) = <<OFFER>>
       \/ /\ Type = REQUEST /\ yiaddr = Requested /\ ForUs
          /\ ValueOf(reply, MESSAGE_TYPE) = <<ACK>>
  BY <1>9
<1>19. request' = request /\ reply = OptionsIn(sent'.options)
  BY <1>11 DEF request, reply
<1>20. LET t == ValueOf(request, MESSAGE_TYPE)[1]
           Named == IF Has(request, REQUESTED_IP)
                    THEN ValueOf(request, REQUESTED_IP) ELSE asked.fixed.ciaddr
       IN /\ asked.fixed.op = BOOTREQUEST /\ sent'.op = BOOTREPLY
          /\ AllRight(reply) /\ sent'.options[Len(sent'.options)] = END
          /\ ValueOf(reply, SERVER_ID) = Server
          /\ \/ /\ t \in {DISCOVER, DECLINE}
                /\ ValueOf(reply, MESSAGE_TYPE) = <<OFFER>>
             \/ /\ t = REQUEST /\ sent'.yiaddr = Named
                /\ ValueOf(reply, MESSAGE_TYPE) = <<ACK>>
                /\ Has(request, SERVER_ID) => ValueOf(request, SERVER_ID) = Server
          /\ Has(reply, CLIENT_ID) = Has(request, CLIENT_ID)
          /\ Has(reply, CLIENT_ID) =>
               ValueOf(reply, CLIENT_ID) = ValueOf(request, CLIENT_ID)
          /\ sent'.xid = asked.fixed.xid /\ sent'.chaddr = asked.fixed.chaddr
          /\ asked.fixed.giaddr # NoAddr => sent'.dest.ip = asked.fixed.giaddr
          /\ sent'.dest.mac # <<>> => /\ sent'.dest.mac = asked.fixed.chaddr
                                     /\ sent'.dest.ip = sent'.yiaddr
                                     /\ asked.fixed.ciaddr = NoAddr
  BY <1>2, <1>4, <1>5, <1>9, <1>10, <1>11, <1>13, <1>14, <1>15, <1>16, <1>17, <1>18
<1>21. RepliesMatchRequest'
  BY <1>19, <1>20 DEF RepliesMatchRequest, request, reply
<1> QED
  BY <1>12, <1>21

\* A step of the switch: it answers or it drops the message.
LEMMA HandleStep ==
  ASSUME Inv, RepliesMatchRequest, Handle
  PROVE  Inv' /\ RepliesMatchRequest'
<1>1. pc = "handle" /\ pc' = "recv"
      /\ UNCHANGED <<net_buffer, got, received_msg, pos, asked, rounds>>
  BY DEF Handle, NotRequest, Offer, NoOffer, Acknowledge, NoAcknowledge, NoReply, Handling,
         Drop, Done
<1>2. Typed' /\ Delivered' /\ ReadSoFar' /\ Understood'
  BY <1>1 DEF Inv, Typed, Delivered, ReadSoFar, Understood
<1>3. SentFits' /\ RepliesMatchRequest'
  <2>1. CASE NotRequest \/ NoOffer \/ NoAcknowledge \/ NoReply
    <3>1. sent' = sent /\ asked' = asked
      BY <2>1 DEF NotRequest, NoOffer, NoAcknowledge, NoReply, Drop
    <3> QED
      BY <3>1 DEF Inv, SentFits, RepliesMatchRequest
  <2>2. CASE Offer
    <3>1. Handling /\ Type \in {DISCOVER, DECLINE} /\ asked' = asked
      BY <1>1, <2>2 DEF Offer
    <3>2. PICK host \in Pool : Reply(OFFER, <<Net, host>>)
      BY <2>2 DEF Offer
    <3>3. OFFER \in {OFFER, ACK} /\ OFFER # ACK
      BY DEF OFFER, ACK
    <3> QED
      BY <3>1, <3>2, <3>3, ReplyMatches
  <2>3. CASE Acknowledge
    <3>1. /\ Handling /\ Type = REQUEST /\ ForUs /\ Reply(ACK, Requested) /\ asked' = asked
      BY <1>1, <2>3 DEF Acknowledge
    <3>2. ACK \in {OFFER, ACK} /\ ACK # OFFER
      BY DEF OFFER, ACK
    <3> QED
      BY <3>1, <3>2, ReplyMatches
  <2> QED
    BY <2>1, <2>2, <2>3 DEF Handle
<1> QED
  BY <1>2, <1>3 DEF Inv

\* A step of the parser.
LEMMA ParseStep ==
  ASSUME Inv, RepliesMatchRequest, Parse
  PROVE  Inv' /\ RepliesMatchRequest'
<1>1. Typed'
  BY ParseTyped DEF Inv
<1>2. UNCHANGED <<net_buffer, got, sent, asked>> /\ pc \in {"check", "parse"}
  BY DEF Parse, CheckBad, CheckGood, ParsePad, ParseError, ParseOption, ParseDone, Drop,
         Parsing
<1>3. SentFits' /\ Delivered' /\ RepliesMatchRequest'
  BY <1>2 DEF Inv, SentFits, Delivered, RepliesMatchRequest
<1>4. CASE CheckBad \/ ParseError
  <2>1. pc' = "recv"
    BY <1>4 DEF CheckBad, ParseError, Drop
  <2> QED
    BY <1>1, <1>3, <2>1 DEF Inv, ReadSoFar, Understood
<1>5. CASE CheckGood \/ ParsePad \/ ParseOption
  <2>1. pc' = "parse"
    BY <1>5 DEF CheckGood, ParsePad, ParseOption, Parsing
  <2>2. ReadSoFar'
    BY <1>5, CheckGoodReads, ParsePadReads, ParseOptionReads
  <2> QED
    BY <1>1, <1>3, <2>1, <2>2 DEF Inv, Understood
<1>6. CASE ParseDone
  <2>1. pc' = "handle" /\ asked' = asked
    BY <1>6 DEF ParseDone
  <2>2. ~asked.short /\ WellFormed(asked.options) /\ Says(received_msg', asked)
    BY <1>6, AcceptedIsSaid
  <2>3. Understood'
    BY <2>1, <2>2 DEF Understood
  <2> QED
    BY <1>1, <1>3, <2>1, <2>3 DEF Inv, ReadSoFar
<1> QED
  BY <1>4, <1>5, <1>6 DEF Parse

\* A datagram comes.
LEMMA ReceiveStep ==
  ASSUME Inv, RepliesMatchRequest, Receive
  PROVE  Inv' /\ RepliesMatchRequest'
<1>1. PICK d \in Messages : Recv(d)
  BY MessageAssumption DEF Receive
<1>2. Typed' /\ Delivered'
  BY <1>1, RecvTyped DEF Inv
<1>3. pc' = "check" /\ sent' = None
  BY <1>1 DEF Recv
<1> QED
  BY <1>2, <1>3 DEF Inv, SentFits, ReadSoFar, Understood, RepliesMatchRequest

\* The invariant holds initially and is kept by every step.
LEMMA Invariance ==
  Spec => [](Inv /\ RepliesMatchRequest)
<1>1. Init => Inv /\ RepliesMatchRequest
  <2> SUFFICES ASSUME Init PROVE Inv /\ RepliesMatchRequest
    OBVIOUS
  <2>1. pc = "recv" /\ sent = None
    BY DEF Init
  <2> QED
    BY <2>1, InitTyped DEF Inv, Delivered, ReadSoFar, Understood, RepliesMatchRequest
<1>2. Inv /\ RepliesMatchRequest /\ [Next]_vars => (Inv /\ RepliesMatchRequest)'
  <2> SUFFICES ASSUME Inv, RepliesMatchRequest, [Next]_vars
               PROVE  Inv' /\ RepliesMatchRequest'
    OBVIOUS
  <2>1. CASE UNCHANGED vars
    BY <2>1 DEF vars, Inv, Typed, SentFits, Delivered, ReadSoFar, Understood,
                RepliesMatchRequest
  <2>2. CASE Next
    BY <2>2, ReceiveStep, ParseStep, HandleStep DEF Next
  <2> QED
    BY <2>1, <2>2
<1> QED
  BY <1>1, <1>2, PTL DEF Spec

-----------------------------------------------------------------------------
(* The theorems.                                                           *)

\* Neither dhcp_parse nor embedd_options leaves its buffer: the parser stays
\* within what was received, identifiers fit client_id and lease_key, and a
\* reply fits the buffer of the replies.
THEOREM BuffersKept == Spec => []TypeOK
<1>1. Inv => TypeOK
  <2> SUFFICES ASSUME Inv PROVE TypeOK
    OBVIOUS
  <2>1. DOMAIN net_buffer.options = 1..Cap
    BY DEF Inv, Typed, Buffers
  <2>2. Len(received_msg.fields.client_id) <= CidCap /\ Len(received_msg.lease_key) <= CidCap
    BY DEF Inv, Typed, Received, FieldSet, Keys
  <2> QED
    BY <2>1, <2>2 DEF Inv, Typed, SentFits, TypeOK
<1> QED
  BY <1>1, Invariance, PTL

\* dhcp_parse accepts the well-formed datagrams and no others, and the message
\* says what the bytes of this datagram say, whatever an earlier one has left.
THEOREM ParserIsCorrect == Spec => ParserCorrect
<1>1. Inv /\ [Next]_vars =>
        [pc = "parse" /\ pc' # "parse" =>
           IF WellFormed(asked.options) THEN pc' = "handle" /\ Says(received_msg', asked)
           ELSE pc' = "recv"]_vars
  <2> SUFFICES ASSUME Inv, Next, pc = "parse", pc' # "parse"
               PROVE  IF WellFormed(asked.options)
                      THEN pc' = "handle" /\ Says(received_msg', asked) ELSE pc' = "recv"
    OBVIOUS
  <2>1. ParseError \/ ParseDone
    BY DEF Next, Receive, Recv, Parse, CheckBad, CheckGood, ParsePad, ParseOption, Parsing,
           Handle, NotRequest, Offer, NoOffer, Acknowledge, NoAcknowledge, NoReply, Handling
  <2>2. CASE ParseError
    <3>1. pc' = "recv"
      BY <2>2 DEF ParseError, Drop
    <3> QED
      BY <2>2, <3>1, RefusedIsWrong
  <2>3. CASE ParseDone
    <3>1. pc' = "handle"
      BY <2>3 DEF ParseDone
    <3> QED
      BY <2>3, <3>1, AcceptedIsSaid
  <2> QED
    BY <2>1, <2>2, <2>3
<1> QED
  BY <1>1, Invariance, PTL DEF Spec, ParserCorrect

\* Every reply answers the request it is sent for, in its own bytes, its fixed
\* part and the frame it goes out in.
THEOREM RepliesMatch == Spec => []RepliesMatchRequest
  BY Invariance, PTL
=============================================================================
