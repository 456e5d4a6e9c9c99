----------------------------- MODULE HeapProofs -----------------------------
(***************************************************************************)
(* Theorems about Heap, for every size of the heap, of its headers and of  *)
(* the alignment, and for all requests of programs that split only the     *)
(* last block of the list.                                                 *)
(***************************************************************************)
EXTENDS Heap, TLAPS

-----------------------------------------------------------------------------
(* The inductive invariant.                                                *)

\* The bytes that a header can hold.
Headers == [size : 0..HeapSize, next : Addr \cup {Null},
            prev : Addr \cup {Null}, free : BOOLEAN]

\* Where block a of headers h ends.
EndOf(h, a) == a + Header + h[a].size

\* Headers h of blocks B tile the heap, and each link has its converse.
Tiling(h, B) ==
  /\ h \in [Addr -> Headers] /\ B \subseteq Addr
  /\ Start \in B /\ h[Start].prev = Null
  /\ \A a \in B :
       /\ h[a].size % Align = 0 /\ h[a].size >= Align
       /\ EndOf(h, a) <= End
       /\ h[a].next = IF EndOf(h, a) = End THEN Null ELSE EndOf(h, a)
       /\ EndOf(h, a) # End => EndOf(h, a) \in B /\ h[EndOf(h, a)].prev = a
       /\ \A b \in B : a < b => EndOf(h, a) <= b
  /\ \A b \in B \ {Start} : h[b].prev \in B /\ EndOf(h, h[b].prev) = b

\* A block is owned exactly while it is not free, and is as large as its
\* owner asked for.
Owned(h, B, l) ==
  /\ l \in [Addr -> 0..WordMod]
  /\ \A a \in Addr : l[a] > 0 => a \in B /\ ~h[a].free /\ l[a] <= h[a].size
  /\ \A a \in B : ~h[a].free => l[a] > 0

\* No two free blocks are neighbours.
NoFreePair(h, B) ==
  \A a, b \in B : b = EndOf(h, a) => ~(h[a].free /\ h[b].free)

\* The call in progress: the blocks that a walk has passed are too small, and
\* the block that it is to split is the last one.
Walk ==
  \/ call = NoCall
  \/ /\ call \in [name : {"kmalloc"}, tmp : blocks \cup {Null},
                  want : Nat, bytes : Nat]
     /\ call.want % Align = 0 /\ call.bytes \in 1..call.want
     /\ call.tmp # Null => \A b \in blocks : b < call.tmp => ~Fits(b, call.want)
     /\ \A a \in blocks :
          First(a, call.want) /\ Splits(a, call.want) => hdr[a].next = Null

HInv ==
  /\ Tiling(hdr, blocks)
  /\ Owned(hdr, blocks, live)
  /\ NoFreePair(hdr, blocks)
  /\ Walk

-----------------------------------------------------------------------------
(* Multiples of Align.                                                     *)

\* The numbers that size the heap.
LEMMA HeapNumbers ==
  /\ Align \in Nat /\ Header \in Nat /\ HeapSize \in Nat /\ WordMod \in Nat
  /\ Align > 0 /\ Header > 0 /\ HeapSize > 0 /\ WordMod > 0
  /\ Header % Align = 0 /\ HeapSize % Align = 0 /\ WordMod % Align = 0
  /\ HeapSize >= Header + Align /\ HeapSize + Header + Align < WordMod
  /\ Null = 0 /\ Start = Header /\ End = Header + HeapSize
  BY HeapAssumption DEF Null, Start, End

\* A multiple of n between 0 and n - 1 is 0.
LEMMA SmallMultiple ==
  ASSUME NEW n \in Nat, NEW k \in Int, n > 0, 0 <= n * k, n * k < n
  PROVE  k = 0
<1>1. CASE k >= 1
  <2>1. n * k >= n * 1
    BY <1>1
  <2> QED BY <2>1
<1>2. CASE k <= -1
  <2>1. n * k <= n * (-1)
    BY <1>2
  <2> QED BY <2>1
<1> QED BY <1>1, <1>2

\* Division with remainder.
LEMMA Division ==
  ASSUME NEW n \in Nat, n > 0, NEW a \in Int
  PROVE  /\ a \div n \in Int /\ a % n \in 0..n - 1
         /\ a = n * (a \div n) + (a % n)
  OBVIOUS

\* A product with n is a multiple of n.
LEMMA Multiple ==
  ASSUME NEW n \in Nat, n > 0, NEW k \in Int
  PROVE  (n * k) % n = 0
<1> DEFINE c == n * k
<1>1. c \in Int
  OBVIOUS
<1> HIDE DEF c
<1>2. c = n * (c \div n) + (c % n) /\ c \div n \in Int /\ c % n \in 0..n - 1
  BY <1>1, Division
<1>3. n * (k - (c \div n)) = c % n
  <2>1. c = n * k
    BY DEF c
  <2> QED BY <1>2, <2>1
<1>4. k - (c \div n) = 0
  BY <1>2, <1>3, SmallMultiple
<1>5. c % n = 0
  BY <1>2, <1>3, <1>4
<1> QED BY <1>5 DEF c

\* Sums of multiples are multiples.
LEMMA SumMultiple ==
  ASSUME NEW n \in Nat, n > 0, NEW a \in Int, NEW b \in Int,
         a % n = 0, b % n = 0
  PROVE  (a + b) % n = 0 /\ (a - b) % n = 0
<1>1. a = n * (a \div n) /\ b = n * (b \div n) /\ a \div n \in Int /\ b \div n \in Int
  BY Division
<1>2. a + b = n * ((a \div n) + (b \div n)) /\ a - b = n * ((a \div n) - (b \div n))
  BY <1>1
<1>3. (a \div n) + (b \div n) \in Int /\ (a \div n) - (b \div n) \in Int
  BY <1>1
<1> QED BY <1>2, <1>3, Multiple

\* What align() returns for a request that it does not wrap: the next
\* multiple of Align.
LEMMA AlignsUp ==
  ASSUME NEW n \in 1..WordMod - Align
  PROVE  AlignUp(n) \in Nat /\ AlignUp(n) >= n /\ AlignUp(n) % Align = 0
<1> DEFINE m == n + Align - 1
<1>1. m \in Nat /\ m < WordMod
  BY HeapNumbers
<1>2. m % WordMod = m
  BY <1>1, HeapNumbers
<1>4. AlignUp(n) = m - (m % Align)
  BY <1>2 DEF AlignUp
<1>7. m = n + Align - 1
  OBVIOUS
<1> HIDE DEF m
<1>3. m % Align \in 0..Align - 1 /\ m \div Align \in Int
      /\ m = Align * (m \div Align) + (m % Align)
  BY <1>1, HeapNumbers, Division
<1>6. (m - (m % Align)) % Align = 0
  <2>1. m - (m % Align) = Align * (m \div Align)
    BY <1>1, <1>3, HeapNumbers
  <2> QED BY <1>3, <2>1, HeapNumbers, Multiple
<1> QED BY <1>1, <1>3, <1>4, <1>6, <1>7, HeapNumbers

\* Sums of multiples of Align.
LEMMA AlignSum ==
  \A x, y \in Nat : x % Align = 0 /\ y % Align = 0 =>
                      (x + y) % Align = 0 /\ x + y \in Nat
<1> SUFFICES ASSUME NEW x \in Nat, NEW y \in Nat, x % Align = 0, y % Align = 0
             PROVE  (x + y) % Align = 0 /\ x + y \in Nat
  OBVIOUS
<1>1. x \in Int /\ y \in Int /\ x + y \in Nat
  OBVIOUS
<1>2. Align \in Nat /\ Align > 0
  BY HeapNumbers
<1>3. (x + y) % Align = 0
  BY <1>1, <1>2, SumMultiple, Zenon
<1> QED BY <1>1, <1>3

-----------------------------------------------------------------------------
(* The tiling.                                                             *)

\* The addresses.
LEMMA Addresses ==
  /\ Start \in Addr /\ Null \notin Addr
  /\ \A a \in Addr : a \in Nat /\ a % Align = 0 /\ Start <= a /\ a + Header <= End
  /\ \A a \in Nat : a % Align = 0 /\ Start <= a /\ a + Header <= End => a \in Addr
  BY HeapNumbers DEF Addr

\* A tiling read off: what the proofs below use of one block and of two.
LEMMA BlockFacts ==
  ASSUME NEW h, NEW B, Tiling(h, B), NEW a \in B
  PROVE  /\ a \in Addr /\ a \in Nat /\ h[a] \in Headers
         /\ h[a].size \in Nat /\ h[a].free \in BOOLEAN
         /\ EndOf(h, a) \in Nat /\ EndOf(h, a) > a /\ EndOf(h, a) <= End
         /\ h[a].size = EndOf(h, a) - a - Header
  BY HeapNumbers, Addresses DEF Tiling, Headers, EndOf

\* A header whose size and next are assigned.
LEMMA SetSizeAndNext ==
  ASSUME NEW r \in Headers, NEW s \in 0..HeapSize, NEW n \in Addr \cup {Null}
  PROVE  [r EXCEPT !.size = s, !.next = n] =
           [size |-> s, next |-> n, prev |-> r.prev, free |-> r.free]
<1> DEFINE p == [r EXCEPT !.size = s]
           q == [p EXCEPT !.next = n]
<1>1. /\ p \in Headers
      /\ p.size = s /\ p.next = r.next /\ p.prev = r.prev /\ p.free = r.free
  BY DEF Headers
<1>2. [r EXCEPT !.size = s, !.next = n] = q
  BY Zenon
<1> HIDE DEF p
<1>3. /\ q \in Headers
      /\ q.size = s /\ q.next = n /\ q.prev = r.prev /\ q.free = r.free
  BY <1>1 DEF Headers
<1> HIDE DEF q
<1>4. q = [size |-> q.size, next |-> q.next, prev |-> q.prev, free |-> q.free]
  BY <1>3 DEF Headers
<1> QED BY <1>2, <1>3, <1>4

\* A header whose size, next and free flag are assigned.
LEMMA SetThree ==
  ASSUME NEW r \in Headers, NEW s \in 0..HeapSize, NEW n \in Addr \cup {Null},
         NEW f \in BOOLEAN
  PROVE  [r EXCEPT !.size = s, !.next = n, !.free = f] =
           [size |-> s, next |-> n, prev |-> r.prev, free |-> f]
<1> DEFINE p == [r EXCEPT !.size = s, !.next = n]
           q == [p EXCEPT !.free = f]
<1>1. p = [size |-> s, next |-> n, prev |-> r.prev, free |-> r.free]
  BY SetSizeAndNext
<1>2. [r EXCEPT !.size = s, !.next = n, !.free = f] = q
  BY Zenon
<1> HIDE DEF p
<1>3. p \in Headers /\ p.size = s /\ p.next = n /\ p.prev = r.prev
  BY <1>1 DEF Headers
<1>4. q \in Headers /\ q.size = s /\ q.next = n /\ q.prev = r.prev /\ q.free = f
  BY <1>3 DEF Headers
<1> HIDE DEF q
<1>5. q = [size |-> q.size, next |-> q.next, prev |-> q.prev, free |-> q.free]
  BY <1>4 DEF Headers
<1> QED BY <1>2, <1>4, <1>5

\* Absorb(h, a, b) as an explicit function.
LEMMA AbsorbFun ==
  ASSUME NEW h, NEW B, Tiling(h, B), NEW a \in B, NEW b \in B,
         h[a].next = b
  PROVE  /\ b = EndOf(h, a) /\ a # b
         /\ Absorb(h, a, b) \in [Addr -> Headers]
         /\ EndOf(Absorb(h, a, b), a) = EndOf(h, b)
         /\ Absorb(h, a, b)[a].size = h[a].size + Header + h[b].size
         /\ Absorb(h, a, b)[a].next = h[b].next
         /\ Absorb(h, a, b)[a].prev = h[a].prev
         /\ Absorb(h, a, b)[a].free = h[a].free
         /\ \A c \in Addr \ {a} :
              /\ Absorb(h, a, b)[c].size = h[c].size
              /\ Absorb(h, a, b)[c].next = h[c].next
              /\ Absorb(h, a, b)[c].free = h[c].free
              /\ Absorb(h, a, b)[c].prev = IF c = h[b].next THEN a ELSE h[c].prev
<1>1. /\ a \in Addr /\ b \in Addr /\ h[a] \in Headers /\ h[b] \in Headers
      /\ h \in [Addr -> Headers]
      /\ b = EndOf(h, a) /\ a # b /\ EndOf(h, b) <= End /\ EndOf(h, b) > b
      /\ b # Null
  <2>1. b # Null /\ a \in Addr /\ b \in Addr
    BY Addresses DEF Tiling
  <2>2. b = EndOf(h, a)
    BY <2>1 DEF Tiling
  <2>3. a \in Nat /\ EndOf(h, a) > a /\ EndOf(h, a) \in Nat /\ h[a] \in Headers
    BY BlockFacts
  <2>4. EndOf(h, b) <= End /\ EndOf(h, b) > b /\ h[b] \in Headers
    BY BlockFacts
  <2>5. h \in [Addr -> Headers]
    BY DEF Tiling
  <2> QED BY <2>1, <2>2, <2>3, <2>4, <2>5
<1> DEFINE r == [size |-> h[a].size + Header + h[b].size, next |-> h[b].next,
                 prev |-> h[a].prev, free |-> h[a].free]
           g == [h EXCEPT ![a].size = @ + Header + h[b].size, ![a].next = h[b].next]
<1>2. r \in Headers
  <2>1. h[a].size + Header + h[b].size \in 0..HeapSize
    BY <1>1, HeapNumbers, Addresses DEF Headers, EndOf
  <2> QED BY <1>1, <2>1 DEF Headers
<1>3. g = [h EXCEPT ![a] = r]
  <2>1. [h[a] EXCEPT !.size = h[a].size + Header + h[b].size, !.next = h[b].next] = r
    <3>1. /\ h[a].size + Header + h[b].size \in 0..HeapSize
          /\ h[b].next \in Addr \cup {Null}
      BY <1>1, <1>2 DEF Headers
    <3> QED BY <1>1, <3>1, SetSizeAndNext
  <2> QED BY <1>1, <2>1
<1>4. g \in [Addr -> Headers] /\ g[a] = r /\ \A c \in Addr \ {a} : g[c] = h[c]
  BY <1>1, <1>2, <1>3
<1>5. h[b].next # a /\ h[b].next \in Addr \cup {Null}
  <2>1. h[b].next = EndOf(h, b) \/ h[b].next = Null
    BY DEF Tiling
  <2> QED BY <1>1, <2>1, BlockFacts, Addresses DEF Headers
<1> HIDE DEF g
<1>6. CASE h[b].next = Null
  <2>1. Absorb(h, a, b) = g
    BY <1>6 DEF Absorb, g
  <2>2. Null \notin Addr
    BY Addresses
  <2>3. r.size = h[a].size + Header + h[b].size /\ r.next = h[b].next
        /\ r.prev = h[a].prev /\ r.free = h[a].free
    OBVIOUS
  <2>4. EndOf(g, a) = EndOf(h, b)
    BY <1>1, <1>4, <2>3, HeapNumbers, Addresses DEF EndOf, Headers
  <2> QED BY <1>1, <1>4, <1>6, <2>1, <2>2, <2>3, <2>4
<1>7. CASE h[b].next # Null
  <2>1. Absorb(h, a, b) = [g EXCEPT ![h[b].next].prev = a]
    BY <1>7 DEF Absorb, g
  <2>2. h[b].next \in Addr \ {a}
    BY <1>5, <1>7
  <2>3. Absorb(h, a, b)[a] = r /\ \A c \in Addr \ {a, h[b].next} : Absorb(h, a, b)[c] = h[c]
    BY <1>4, <2>1, <2>2
  <2>4. Absorb(h, a, b)[h[b].next] = [h[h[b].next] EXCEPT !.prev = a]
    BY <1>1, <1>4, <2>1, <2>2
  <2>5. h[h[b].next] \in Headers
    BY <1>1, <2>2
  <2>6. Absorb(h, a, b)[h[b].next] \in Headers
    BY <1>1, <2>4, <2>5 DEF Headers
  <2>7. Absorb(h, a, b) \in [Addr -> Headers]
    BY <1>1, <1>2, <1>4, <2>1, <2>2, <2>3, <2>6
  <2>8. \A c \in Addr \ {a} :
              /\ Absorb(h, a, b)[c].size = h[c].size
              /\ Absorb(h, a, b)[c].next = h[c].next
              /\ Absorb(h, a, b)[c].free = h[c].free
              /\ Absorb(h, a, b)[c].prev = IF c = h[b].next THEN a ELSE h[c].prev
    <3> TAKE c \in Addr \ {a}
    <3>1. CASE c = h[b].next
      BY <3>1, <2>4, <2>5 DEF Headers
    <3>2. CASE c # h[b].next
      BY <3>2, <2>3
    <3> QED BY <3>1, <3>2
  <2>9. r.size = h[a].size + Header + h[b].size /\ r.next = h[b].next
        /\ r.prev = h[a].prev /\ r.free = h[a].free
    OBVIOUS
  <2>10. EndOf(Absorb(h, a, b), a) = EndOf(h, b)
    BY <1>1, <2>3, <2>9, HeapNumbers, Addresses DEF EndOf, Headers
  <2> QED BY <1>1, <2>3, <2>7, <2>8, <2>9, <2>10
<1> QED BY <1>6, <1>7

\* Merging a block with the one behind it keeps the tiling.
LEMMA AbsorbTiles ==
  ASSUME NEW h, NEW B, Tiling(h, B), NEW a \in B, NEW b \in B,
         h[a].next = b
  PROVE  Tiling(Absorb(h, a, b), B \ {b})
<1> DEFINE g == Absorb(h, a, b)
           C == B \ {b}
<1>1. /\ b = EndOf(h, a) /\ a # b /\ g \in [Addr -> Headers]
      /\ EndOf(g, a) = EndOf(h, b)
      /\ g[a].size = h[a].size + Header + h[b].size
      /\ g[a].next = h[b].next /\ g[a].prev = h[a].prev
      /\ \A c \in Addr \ {a} :
           /\ g[c].size = h[c].size /\ g[c].next = h[c].next
           /\ g[c].prev = IF c = h[b].next THEN a ELSE h[c].prev
  BY AbsorbFun
<1> HIDE DEF g
<1>2. C \subseteq Addr /\ a \in C /\ B \subseteq Addr /\ b > a
  BY <1>1, BlockFacts DEF Tiling
<1>3. \A c \in C \ {a} : EndOf(g, c) = EndOf(h, c)
  BY <1>1, <1>2 DEF EndOf
<1>4. Start \in C /\ g[Start].prev = Null
  <2>1. Start \in B /\ b # Start
    BY <1>1, <1>2, Addresses DEF Tiling
  <2>2. h[b].next # Start
    BY Addresses, BlockFacts, HeapNumbers DEF Tiling
  <2> QED BY <1>1, <1>2, <2>1, <2>2, Addresses DEF Tiling
<1>5. g[a].size % Align = 0 /\ g[a].size >= Align
  <2>1. /\ h[a].size \in Nat /\ h[b].size \in Nat
        /\ h[a].size % Align = 0 /\ h[b].size % Align = 0
        /\ h[a].size >= Align
    BY BlockFacts DEF Tiling
  <2>2. \A x, y \in Nat : x % Align = 0 /\ y % Align = 0 =>
                              (x + y) % Align = 0 /\ x + y \in Nat
    BY AlignSum
  <2>3. (h[a].size + Header) % Align = 0 /\ h[a].size + Header \in Nat
    BY <2>1, <2>2, HeapNumbers
  <2>4. (h[a].size + Header + h[b].size) % Align = 0
    BY <2>1, <2>2, <2>3
  <2> QED BY <1>1, <2>1, <2>4, HeapNumbers
<1>6. EndOf(h, b) # End => EndOf(h, b) \in C
  BY <1>1, BlockFacts DEF Tiling
<1>7. \A c \in C :
       /\ g[c].size % Align = 0 /\ g[c].size >= Align
       /\ EndOf(g, c) <= End
       /\ g[c].next = IF EndOf(g, c) = End THEN Null ELSE EndOf(g, c)
       /\ EndOf(g, c) # End => EndOf(g, c) \in C /\ g[EndOf(g, c)].prev = c
       /\ \A d \in C : c < d => EndOf(g, c) <= d
  <2> TAKE c \in C
  <2>1. CASE c = a
    <3>1. h[b].next = EndOf(h, b) \/ EndOf(h, b) = End
      BY DEF Tiling
    <3>2. ASSUME EndOf(h, b) # End
          PROVE  g[EndOf(h, b)].prev = a
      <4>1. EndOf(h, b) # a /\ EndOf(h, b) \in Addr
        BY <1>1, <1>2, <1>6, <3>2, BlockFacts
      <4> QED BY <1>1, <3>1, <3>2, <4>1
    <3>3. ASSUME NEW d \in C, a < d
          PROVE  EndOf(h, b) <= d
      <4>1. d >= b /\ d # b
        BY <1>1, <3>3 DEF Tiling
      <4>2. d \in Nat /\ b \in Nat
        BY <1>2, Addresses
      <4> QED BY <4>1, <4>2 DEF Tiling
    <3> QED BY <1>1, <1>5, <1>6, <2>1, <3>2, <3>3, BlockFacts DEF Tiling
  <2>2. CASE c # a
    <3>1. EndOf(g, c) = EndOf(h, c) /\ c \in B /\ c \in Addr
      BY <1>2, <1>3, <2>2
    <3>2. EndOf(h, c) # b
      <4>1. SUFFICES ASSUME EndOf(h, c) = b PROVE FALSE
        OBVIOUS
      <4>2. b # End
        BY <1>2, Addresses, HeapNumbers
      <4>3. h[b].prev = c /\ h[b].prev = a
        BY <1>1, <3>1, <4>1, <4>2 DEF Tiling
      <4> QED BY <2>2, <4>3
    <3>3. ASSUME EndOf(h, c) # End
          PROVE  EndOf(h, c) \in C /\ g[EndOf(h, c)].prev = c
      <4>1. EndOf(h, c) \in C /\ h[EndOf(h, c)].prev = c
        BY <3>1, <3>2, <3>3 DEF Tiling
      <4>2. EndOf(h, c) # h[b].next
        <5>1. SUFFICES ASSUME EndOf(h, c) = h[b].next PROVE FALSE
          OBVIOUS
        <5>2. EndOf(h, c) # Null
          BY <1>2, <4>1, Addresses
        <5>3. h[b].next = EndOf(h, b) /\ EndOf(h, b) # End
          BY <3>3, <5>1, <5>2 DEF Tiling
        <5>4. h[EndOf(h, b)].prev = b
          BY <5>3 DEF Tiling
        <5> QED BY <4>1, <5>1, <5>3, <5>4
      <4>3. EndOf(h, c) # a => g[EndOf(h, c)].prev = c
        BY <1>1, <1>2, <4>1, <4>2
      <4>4. EndOf(h, c) = a => g[EndOf(h, c)].prev = c
        BY <1>1, <4>1
      <4> QED BY <4>1, <4>3, <4>4
    <3> QED BY <1>1, <2>2, <3>1, <3>3 DEF Tiling
  <2> QED BY <2>1, <2>2
<1>8. \A c \in C \ {Start} : g[c].prev \in C /\ EndOf(g, g[c].prev) = c
  <2> TAKE c \in C \ {Start}
  <2>1. c \in B /\ c \in Addr /\ h[c].prev \in B /\ EndOf(h, h[c].prev) = c
    BY <1>2 DEF Tiling
  <2>2. CASE c = a
    <3>1. h[a].prev # b /\ h[a].prev # a
      BY <1>1, <1>2, <2>1, <2>2, BlockFacts
    <3> QED BY <1>1, <1>3, <2>1, <2>2, <3>1
  <2>3. CASE c # a /\ c = h[b].next
    <3>1. c = EndOf(h, b)
      BY <2>1, <2>3, Addresses DEF Tiling
    <3> QED BY <1>1, <1>2, <2>3, <2>1, <3>1
  <2>4. CASE c # a /\ c # h[b].next
    <3>1. g[c].prev = h[c].prev
      BY <1>1, <2>1, <2>4
    <3>2. h[c].prev # b
      BY <2>1, <2>4, BlockFacts, Addresses DEF Tiling
    <3>3. h[c].prev # a
      BY <1>1, <2>1
    <3> QED BY <1>3, <2>1, <3>1, <3>2, <3>3
  <2> QED BY <2>2, <2>3, <2>4
<1> QED BY <1>1, <1>2, <1>4, <1>7, <1>8 DEF Tiling, g

\* The free flags have no part in the tiling.
LEMMA FreeTiles ==
  ASSUME NEW h, NEW B, Tiling(h, B), NEW g \in [Addr -> Headers],
         \A c \in Addr : g[c].size = h[c].size /\ g[c].next = h[c].next
                         /\ g[c].prev = h[c].prev
  PROVE  Tiling(g, B) /\ \A c \in Addr : EndOf(g, c) = EndOf(h, c)
<1>1. B \subseteq Addr
  BY DEF Tiling
<1>3. \A c \in Addr : g[c].size = h[c].size /\ g[c].next = h[c].next
                      /\ g[c].prev = h[c].prev
  OBVIOUS
<1>4. \A c \in Addr : EndOf(g, c) = EndOf(h, c)
  BY <1>3 DEF EndOf
<1>5. Tiling(g, B)
  <2>1. Start \in B /\ g[Start].prev = Null
    BY <1>1, <1>3 DEF Tiling
  <2>2. \A c \in B :
       /\ g[c].size % Align = 0 /\ g[c].size >= Align
       /\ EndOf(g, c) <= End
       /\ g[c].next = IF EndOf(g, c) = End THEN Null ELSE EndOf(g, c)
       /\ EndOf(g, c) # End => EndOf(g, c) \in B /\ g[EndOf(g, c)].prev = c
       /\ \A d \in B : c < d => EndOf(g, c) <= d
    <3> TAKE c \in B
    <3>1. c \in Addr
      BY <1>1
    <3>2. EndOf(h, c) # End => g[EndOf(h, c)].prev = c
      <4>1. EndOf(h, c) # End => EndOf(h, c) \in Addr /\ h[EndOf(h, c)].prev = c
        BY <1>1 DEF Tiling
      <4> QED BY <4>1, <1>3
    <3> QED BY <1>3, <1>4, <3>1, <3>2 DEF Tiling
  <2>3. \A c \in B \ {Start} : g[c].prev \in B /\ EndOf(g, g[c].prev) = c
    BY <1>1, <1>3, <1>4 DEF Tiling
  <2> QED BY <1>1, <2>1, <2>2, <2>3 DEF Tiling
<1> QED BY <1>4, <1>5

\* Where the rest of the last block goes.
LEMMA SplitPlace ==
  ASSUME NEW h, NEW B, Tiling(h, B), NEW a \in B, h[a].next = Null,
         NEW w \in Nat, w >= Align, w % Align = 0,
         h[a].size >= w + Header + Align
  PROVE  /\ a + Header + w \in Addr \ B /\ a + Header + w > a
         /\ EndOf(h, a) = End /\ a + Header + h[a].size = End
         /\ \A c \in B : c <= a
         /\ h[a].size - w - Header \in 0..HeapSize /\ w \in 0..HeapSize
<1>1. a \in Addr /\ a \in Nat /\ B \subseteq Addr /\ h[a] \in Headers /\ h[a].size \in Nat
  BY BlockFacts DEF Tiling
<1>2. EndOf(h, a) = End
  <2>1. EndOf(h, a) # Null
    BY BlockFacts, HeapNumbers
  <2> QED BY <2>1 DEF Tiling
<1>3. a + Header + h[a].size = End
  BY <1>2 DEF EndOf
<1>4. a + Header + w \in Addr /\ a + Header + w > a /\ a + Header + w \in Nat
  <2>1. (a + Header) % Align = 0 /\ a + Header \in Nat /\ a % Align = 0
    BY <1>1, AlignSum, Addresses, HeapNumbers
  <2>2. (a + Header + w) % Align = 0 /\ a + Header + w \in Nat
    BY <2>1, AlignSum
  <2>3. a + Header + w >= Start /\ a + Header + w + Header <= End
    BY <1>1, <1>3, HeapNumbers, Addresses
  <2> QED BY <1>1, <2>2, <2>3, Addresses, HeapNumbers
<1>5. \A c \in B : c <= a
  <2> SUFFICES ASSUME NEW c \in B, c > a PROVE FALSE
    BY <1>1, Addresses
  <2>1. End <= c /\ c \in Addr
    BY <1>1, <1>2 DEF Tiling
  <2> QED BY <2>1, Addresses, HeapNumbers
<1>6. a + Header + w \notin B
  BY <1>1, <1>4, <1>5
<1>7. h[a].size - w - Header \in 0..HeapSize /\ w \in 0..HeapSize
  <2>1. h[a].size <= HeapSize
    BY <1>1 DEF Headers
  <2>2. Header \in Nat /\ Align \in Nat /\ HeapSize \in Nat
    BY HeapNumbers
  <2>3. h[a].size >= w + Header + Align
    OBVIOUS
  <2> QED BY <1>1, <2>1, <2>2, <2>3
<1> QED BY <1>2, <1>3, <1>4, <1>5, <1>6, <1>7

\* Splitting the last block keeps the tiling.
LEMMA SplitTiles ==
  ASSUME NEW h, NEW B, Tiling(h, B), NEW a \in B, h[a].next = Null,
         NEW w \in Nat, w >= Align, w % Align = 0,
         h[a].size >= w + Header + Align,
         NEW new, new = a + Header + w,
         NEW g \in [Addr -> Headers],
         g[new].size = h[a].size - w - Header, g[new].next = Null, g[new].prev = a,
         g[a].size = w, g[a].next = new, g[a].prev = h[a].prev,
         \A c \in Addr \ {a, new} : g[c] = h[c]
  PROVE  /\ Tiling(g, B \cup {new})
         /\ EndOf(g, a) = new /\ EndOf(g, new) = End
         /\ \A c \in B \ {a} : EndOf(g, c) = EndOf(h, c) /\ EndOf(h, c) # End
<1> DEFINE C == B \cup {new}
<1>1. a \in Addr /\ a \in Nat /\ B \subseteq Addr /\ h[a].size \in Nat
  BY BlockFacts DEF Tiling
<1>2. /\ EndOf(h, a) = End /\ a + Header + h[a].size = End
      /\ new \in Addr \ B /\ new > a /\ new \in Nat
      /\ \A c \in B : c <= a
  BY SplitPlace, Addresses
<1>3. C = B \cup {new}
  OBVIOUS
<1> HIDE DEF C
<1>4. EndOf(g, a) = new /\ EndOf(g, new) = End
  BY <1>1, <1>2, HeapNumbers DEF EndOf
<1>5. \A c \in B \ {a} : EndOf(g, c) = EndOf(h, c) /\ g[c] = h[c]
  BY <1>1, <1>2 DEF EndOf
<1>6. \A c \in B \ {a} : EndOf(h, c) # End
  <2> SUFFICES ASSUME NEW c \in B \ {a} PROVE EndOf(h, c) # End
    OBVIOUS
  <2>1. c < a /\ EndOf(h, c) <= a
    BY <1>1, <1>2, Addresses DEF Tiling
  <2> QED BY <1>1, <2>1, Addresses, HeapNumbers, BlockFacts
<1>7. (h[a].size - w - Header) % Align = 0
  <2>1. h[a].size % Align = 0
    BY DEF Tiling
  <2>2. Align \in Nat /\ Align > 0 /\ Header \in Int /\ Header % Align = 0
        /\ h[a].size \in Int /\ w \in Int /\ h[a].size - w \in Int
    BY <1>1, HeapNumbers
  <2>3. (h[a].size - w) % Align = 0
    BY <2>1, <2>2, SumMultiple, Zenon
  <2> QED BY <2>2, <2>3, SumMultiple, Zenon
<1>8. Start \in C /\ g[Start].prev = Null
  <2>1. Start \in B /\ h[Start].prev = Null /\ Start \in Addr
    BY <1>1 DEF Tiling
  <2>2. CASE Start = a
    BY <1>3, <2>1, <2>2
  <2>3. CASE Start # a
    BY <1>3, <1>5, <2>1, <2>3
  <2> QED BY <2>2, <2>3
<1>9. \A c \in C :
       /\ g[c].size % Align = 0 /\ g[c].size >= Align
       /\ EndOf(g, c) <= End
       /\ g[c].next = IF EndOf(g, c) = End THEN Null ELSE EndOf(g, c)
       /\ EndOf(g, c) # End => EndOf(g, c) \in C /\ g[EndOf(g, c)].prev = c
       /\ \A d \in C : c < d => EndOf(g, c) <= d
  <2> TAKE c \in C
  <2>1. CASE c = new
    <3>1. \A d \in C : ~(c < d)
      <4>1. \A d \in B : d <= a /\ d \in Nat
        BY <1>1, <1>2, Addresses
      <4> QED BY <1>1, <1>2, <1>3, <2>1, <4>1
    <3>2. h[a].size - w - Header >= Align
      BY <1>1, HeapNumbers
    <3> QED BY <1>4, <1>7, <2>1, <3>1, <3>2, HeapNumbers
  <2>2. CASE c = a
    <3>1. \A d \in C : c < d => d = new
      BY <1>1, <1>2, <1>3, <2>2, Addresses
    <3>2. new # End /\ new <= End
      BY <1>2, Addresses, HeapNumbers
    <3> QED BY <1>2, <1>3, <1>4, <2>2, <3>1, <3>2
  <2>3. CASE c \in B \ {a}
    <3>1. g[c] = h[c] /\ EndOf(g, c) = EndOf(h, c) /\ EndOf(h, c) # End
      BY <1>5, <1>6, <2>3
    <3>2. EndOf(h, c) \in B /\ h[EndOf(h, c)].prev = c
      BY <2>3, <3>1 DEF Tiling
    <3>3. g[EndOf(h, c)].prev = c
      <4>1. CASE EndOf(h, c) = a
        BY <3>2, <4>1
      <4>2. CASE EndOf(h, c) # a
        BY <1>5, <3>2, <4>2
      <4> QED BY <4>1, <4>2
    <3>4. EndOf(h, c) <= new
      <4>1. EndOf(h, c) <= a /\ EndOf(h, c) \in Nat
        BY <1>1, <1>2, <3>2, Addresses
      <4> QED BY <1>1, <1>2, <4>1
    <3>5. \A d \in B : c < d => EndOf(h, c) <= d
      BY <2>3 DEF Tiling
    <3>6. /\ h[c].size % Align = 0 /\ h[c].size >= Align
          /\ EndOf(h, c) <= End /\ h[c].next = EndOf(h, c)
      BY <2>3, <3>1 DEF Tiling
    <3> QED BY <1>3, <3>1, <3>2, <3>3, <3>4, <3>5, <3>6
  <2> QED BY <1>3, <2>1, <2>2, <2>3
<1>10. \A c \in C \ {Start} : g[c].prev \in C /\ EndOf(g, g[c].prev) = c
  <2> TAKE c \in C \ {Start}
  <2>1. CASE c = new
    BY <1>3, <1>4, <2>1
  <2>2. CASE c \in B
    <3>1. h[c].prev \in B /\ EndOf(h, h[c].prev) = c
      BY <2>2 DEF Tiling
    <3>2. h[c].prev # a
      BY <1>1, <1>2, <2>2, <3>1, Addresses, HeapNumbers
    <3>3. g[c].prev = h[c].prev
      BY <1>5, <2>2
    <3>4. EndOf(g, h[c].prev) = c
      BY <1>5, <3>1, <3>2
    <3> QED BY <1>3, <3>1, <3>3, <3>4
  <2> QED BY <1>3, <2>1, <2>2
<1>11. Tiling(g, C)
  <2>1. C \subseteq Addr
    BY <1>1, <1>2, <1>3
  <2> QED BY <1>8, <1>9, <1>10, <2>1 DEF Tiling
<1> QED BY <1>3, <1>4, <1>5, <1>6, <1>11

-----------------------------------------------------------------------------
(* The steps.                                                              *)

\* heap_init makes one free block.
LEMMA HeapInit == Init => HInv
<1> SUFFICES ASSUME Init PROVE HInv
  OBVIOUS
<1> USE DEF Init
<1>1. Start \in Addr /\ Null \notin Addr /\ HeapSize - Header \in 0..HeapSize
  BY Addresses, HeapNumbers
<1>2. hdr \in [Addr -> Headers]
  BY <1>1, HeapNumbers DEF Headers
<1>3. /\ hdr[Start].size = HeapSize - Header /\ hdr[Start].next = Null
      /\ hdr[Start].prev = Null /\ hdr[Start].free
  BY <1>1
<1>4. EndOf(hdr, Start) = End
  BY <1>3, HeapNumbers DEF EndOf
<1>5. (HeapSize - Header) % Align = 0 /\ HeapSize - Header >= Align
  <2>1. /\ Align \in Nat /\ Align > 0 /\ HeapSize \in Int /\ Header \in Int
        /\ HeapSize % Align = 0 /\ Header % Align = 0
    BY HeapNumbers
  <2>2. (HeapSize - Header) % Align = 0
    BY <2>1, SumMultiple, Zenon
  <2>3. HeapSize - Header >= Align
    BY HeapNumbers
  <2> QED BY <2>2, <2>3
<1>6. Start \in Nat /\ End \in Nat
  BY HeapNumbers
<1>7. Tiling(hdr, blocks)
  BY <1>1, <1>2, <1>3, <1>4, <1>5, <1>6 DEF Tiling
<1>8. Owned(hdr, blocks, live)
  BY <1>1, <1>3, HeapNumbers DEF Owned
<1>9. NoFreePair(hdr, blocks)
  BY <1>1, <1>4, Addresses, HeapNumbers DEF NoFreePair
<1> QED BY <1>7, <1>8, <1>9 DEF HInv, Walk

\* A call that starts: its request is a multiple of Align that is as large as
\* what its caller counts on.
LEMMA SearchStep ==
  ASSUME HInv, SplitInside = FALSE, NEW n \in 1..WordMod - Align,
         Search(n, AlignUp(n))
  PROVE  HInv'
<1>1. /\ call' = [name |-> "kmalloc", tmp |-> Start, want |-> AlignUp(n), bytes |-> n]
      /\ UNCHANGED <<hdr, blocks, live>>
      /\ \A a \in blocks : First(a, AlignUp(n)) /\ Splits(a, AlignUp(n)) =>
                             hdr[a].next = Null
  BY DEF Search
<1>2. AlignUp(n) \in Nat /\ AlignUp(n) >= n /\ AlignUp(n) % Align = 0
  BY AlignsUp
<1>3. n \in 1..AlignUp(n)
  BY <1>2, HeapNumbers
<1>4. Start \in blocks /\ \A b \in blocks : ~(b < Start)
  BY Addresses DEF HInv, Tiling
<1>5. /\ call'.name = "kmalloc" /\ call'.tmp = Start /\ call'.want = AlignUp(n)
      /\ call'.bytes = n
  BY <1>1
<1>6. Walk'
  BY <1>1, <1>2, <1>3, <1>4, <1>5 DEF Walk, First, Fits, Splits
<1> QED BY <1>1, <1>6 DEF HInv, Tiling, Owned, NoFreePair, EndOf

\* What a walk knows of the block that it looks at.
LEMMA WalkFacts ==
  ASSUME HInv, Looking
  PROVE  /\ call.tmp \in blocks /\ call.tmp \in Addr
         /\ call.want \in Nat /\ call.want % Align = 0 /\ call.want >= Align
         /\ call.bytes \in Nat /\ call.bytes > 0 /\ call.bytes <= call.want
         /\ Fits(call.tmp, call.want) => First(call.tmp, call.want)
         /\ First(call.tmp, call.want) /\ Splits(call.tmp, call.want) =>
              hdr[call.tmp].next = Null
<1>1. call # NoCall
  BY DEF Looking, NoCall
<1>2. /\ call.want \in Nat /\ call.want % Align = 0
      /\ call.bytes \in 1..call.want
      /\ call.tmp \in blocks
      /\ \A b \in blocks : b < call.tmp => ~Fits(b, call.want)
      /\ \A a \in blocks :
          First(a, call.want) /\ Splits(a, call.want) => hdr[a].next = Null
  BY <1>1 DEF HInv, Walk, Looking
<1>3. call.tmp \in Addr
  BY <1>2 DEF HInv, Tiling
<1>4. call.want >= Align
  <2>1. call.want = Align * (call.want \div Align) /\ call.want \div Align \in Int
    BY <1>2, Division, HeapNumbers
  <2>2. CASE call.want \div Align >= 1
    <3>1. Align * (call.want \div Align) >= Align * 1
      BY <2>1, <2>2, HeapNumbers
    <3> QED BY <2>1, <3>1, HeapNumbers
  <2>3. CASE call.want \div Align <= 0
    <3>1. Align * (call.want \div Align) <= Align * 0
      BY <2>1, <2>3, HeapNumbers
    <3> QED BY <1>2, <2>1, <3>1, HeapNumbers
  <2> QED BY <2>1, <2>2, <2>3
<1> QED BY <1>2, <1>3, <1>4 DEF First

\* kmalloc passes a block that is too small.
LEMMA SkipStep == HInv /\ KmallocSkip => HInv'
<1> SUFFICES ASSUME HInv, KmallocSkip PROVE HInv'
  OBVIOUS
<1>1. /\ Looking /\ ~Fits(call.tmp, call.want)
      /\ call' = [call EXCEPT !.tmp = hdr[call.tmp].next]
      /\ UNCHANGED <<hdr, blocks, live>>
  BY DEF KmallocSkip
<1> DEFINE nxt == hdr[call.tmp].next
<1>2. call.tmp \in blocks
  BY <1>1, WalkFacts
<1>3. nxt \in blocks \cup {Null}
  BY <1>2 DEF HInv, Tiling
<1>4. nxt # Null => \A b \in blocks : b < nxt => b <= call.tmp
  <2> SUFFICES ASSUME nxt # Null, NEW b \in blocks, b < nxt, ~(b <= call.tmp)
               PROVE  FALSE
    OBVIOUS
  <2>1. nxt = EndOf(hdr, call.tmp)
    BY <1>2 DEF HInv, Tiling
  <2>2. b \in Nat /\ call.tmp \in Nat /\ EndOf(hdr, call.tmp) \in Nat
    BY <1>2, BlockFacts DEF HInv
  <2>3. EndOf(hdr, call.tmp) <= b
    BY <1>2, <2>2 DEF HInv, Tiling
  <2> QED BY <2>1, <2>2, <2>3
<1>5. /\ call.name = "kmalloc" /\ call # NoCall
      /\ call.want \in Nat /\ call.want % Align = 0
      /\ call.bytes \in 1..call.want
      /\ \A b \in blocks : b < call.tmp => ~Fits(b, call.want)
      /\ \A a \in blocks :
          First(a, call.want) /\ Splits(a, call.want) => hdr[a].next = Null
  BY <1>1 DEF HInv, Walk, Looking, NoCall
<1>6. call.tmp \in Nat /\ \A b \in blocks : b \in Nat
  BY <1>2, BlockFacts DEF HInv
<1>7. nxt # Null => \A b \in blocks : b < nxt => ~Fits(b, call.want)
  BY <1>1, <1>4, <1>5, <1>6
<1>8. /\ call'.name = call.name /\ call'.want = call.want
      /\ call'.bytes = call.bytes /\ call'.tmp = nxt
  <2>1. call \in [name : {"kmalloc"}, tmp : blocks \cup {Null}, want : Nat, bytes : Nat]
    BY <1>5 DEF HInv, Walk
  <2> QED BY <1>1, <2>1
<1>9. call' \in [name : {"kmalloc"}, tmp : blocks \cup {Null}, want : Nat, bytes : Nat]
  BY <1>1, <1>3, <1>5 DEF HInv, Walk
<1>10. Walk'
  BY <1>1, <1>3, <1>5, <1>7, <1>8, <1>9 DEF Walk, First, Fits, Splits
<1> QED BY <1>1, <1>10 DEF HInv, Tiling, Owned, NoFreePair, EndOf

\* kmalloc hands out a whole block.
LEMMA TakeStep == HInv /\ KmallocTake => HInv'
<1> SUFFICES ASSUME HInv, KmallocTake PROVE HInv'
  OBVIOUS
<1> DEFINE tmp == call.tmp
<1>1. /\ Looking /\ Fits(tmp, call.want)
      /\ hdr' = [hdr EXCEPT ![tmp].free = FALSE]
      /\ live' = [live EXCEPT ![tmp] = call.bytes]
      /\ call' = NoCall /\ blocks' = blocks
  BY DEF KmallocTake
<1>2. /\ tmp \in blocks /\ tmp \in Addr /\ call.bytes \in Nat /\ call.bytes > 0
      /\ call.bytes <= call.want /\ call.want \in Nat
  BY <1>1, WalkFacts
<1>3. hdr[tmp].size >= call.want /\ hdr[tmp].size \in Nat /\ hdr[tmp].size <= HeapSize
  BY <1>1, <1>2 DEF HInv, Tiling, Headers, Fits
<1>4. hdr \in [Addr -> Headers] /\ blocks \subseteq Addr
  BY DEF HInv, Tiling
<1>5. /\ Tiling(hdr', blocks)
      /\ \A c \in Addr : EndOf(hdr', c) = EndOf(hdr, c)
  <2>1. Tiling(hdr, blocks)
    BY DEF HInv
  <2>2. /\ hdr' \in [Addr -> Headers]
        /\ \A c \in Addr : hdr'[c].size = hdr[c].size /\ hdr'[c].next = hdr[c].next
                            /\ hdr'[c].prev = hdr[c].prev
    BY <1>1, <1>2, <1>4 DEF Headers
  <2> QED BY <2>1, <2>2, FreeTiles
<1>6. /\ ~hdr'[tmp].free /\ hdr'[tmp].size = hdr[tmp].size
      /\ \A c \in Addr \ {tmp} : hdr'[c] = hdr[c]
  BY <1>1, <1>2, <1>4 DEF Headers
<1>7. Owned(hdr', blocks, live')
  <2>1. call.bytes \in 0..WordMod
    BY <1>2, <1>3, HeapNumbers
  <2>2. live' \in [Addr -> 0..WordMod] /\ live'[tmp] = call.bytes
        /\ \A c \in Addr \ {tmp} : live'[c] = live[c]
    BY <1>1, <1>2, <2>1 DEF HInv, Owned
  <2>3. call.bytes <= hdr[tmp].size
    BY <1>2, <1>3
  <2> QED BY <1>2, <1>4, <1>6, <2>2, <2>3 DEF HInv, Owned
<1>8. NoFreePair(hdr', blocks)
  BY <1>4, <1>5, <1>6 DEF HInv, NoFreePair
<1> QED BY <1>1, <1>5, <1>7, <1>8 DEF HInv, Walk

\* kmalloc splits the last block.
LEMMA SplitStep == HInv /\ KmallocSplit => HInv'
<1> SUFFICES ASSUME HInv, KmallocSplit PROVE HInv'
  OBVIOUS
<1> DEFINE tmp == call.tmp
           w == call.want
           new == tmp + Header + w
           r == [size |-> hdr[tmp].size - w - Header, next |-> Null,
                 prev |-> tmp, free |-> TRUE]
           q == [size |-> w, next |-> new, prev |-> hdr[tmp].prev, free |-> FALSE]
<1>1. /\ Looking /\ Fits(tmp, w) /\ Splits(tmp, w)
      /\ hdr' = [hdr EXCEPT
             ![new] = [size |-> hdr[tmp].size - w - Header,
                       next |-> hdr[tmp].next, prev |-> tmp, free |-> TRUE],
             ![tmp].size = w, ![tmp].next = new, ![tmp].free = FALSE]
      /\ blocks' = blocks \cup {new}
      /\ live' = [live EXCEPT ![tmp] = call.bytes]
      /\ call' = NoCall
  BY DEF KmallocSplit
<1>2. /\ tmp \in blocks /\ tmp \in Addr /\ call.bytes \in Nat /\ call.bytes > 0
      /\ call.bytes <= w /\ w \in Nat /\ w >= Align /\ w % Align = 0
      /\ hdr[tmp].next = Null
  BY <1>1, WalkFacts
<1>3. hdr[tmp].size >= w + Header + Align /\ hdr[tmp].free
  BY <1>1 DEF Splits, Fits
<1>4. hdr \in [Addr -> Headers] /\ blocks \subseteq Addr /\ Tiling(hdr, blocks)
  BY DEF HInv, Tiling
<1>5. new \in Addr \ blocks /\ new > tmp /\ w \in 0..HeapSize
      /\ hdr[tmp].size - w - Header \in 0..HeapSize
  BY <1>2, <1>3, <1>4, SplitPlace
<1>6. tmp # new
  BY <1>2, <1>5, Addresses
<1>7. r \in Headers /\ q \in Headers
  BY <1>2, <1>4, <1>5 DEF Headers
<1>10. hdr' = [hdr EXCEPT ![new] = r, ![tmp] = q]
  <2>1. [hdr[tmp] EXCEPT !.size = w, !.next = new, !.free = FALSE] = q
    <3>1. FALSE \in BOOLEAN /\ new \in Addr \cup {Null} /\ hdr[tmp] \in Headers
      BY <1>2, <1>4, <1>5
    <3> HIDE DEF new
    <3> QED BY <1>5, <3>1, SetThree, Zenon
  <2> QED BY <1>1, <1>2, <1>4, <1>6, <2>1
<1>11. /\ hdr' \in [Addr -> Headers] /\ hdr'[new] = r /\ hdr'[tmp] = q
       /\ \A c \in Addr \ {tmp, new} : hdr'[c] = hdr[c]
  BY <1>2, <1>4, <1>5, <1>6, <1>7, <1>10
<1>12. /\ r.size = hdr[tmp].size - w - Header /\ r.next = Null /\ r.prev = tmp /\ r.free = TRUE
       /\ q.size = w /\ q.next = new /\ q.prev = hdr[tmp].prev /\ q.free = FALSE
       /\ new = tmp + Header + w
  OBVIOUS
<1> HIDE DEF q, r, new
<1>13. /\ Tiling(hdr', blocks')
       /\ EndOf(hdr', tmp) = new /\ EndOf(hdr', new) = End
       /\ \A c \in blocks \ {tmp} : EndOf(hdr', c) = EndOf(hdr, c) /\ EndOf(hdr, c) # End
  <2> HIDE DEF tmp, w
  <2>1. /\ hdr'[new].size = hdr[tmp].size - w - Header
        /\ hdr'[new].next = Null /\ hdr'[new].prev = tmp
        /\ hdr'[tmp].size = w /\ hdr'[tmp].next = new
        /\ hdr'[tmp].prev = hdr[tmp].prev
        /\ new = tmp + Header + w /\ hdr' \in [Addr -> Headers]
        /\ \A c \in Addr \ {tmp, new} : hdr'[c] = hdr[c]
    BY <1>11, <1>12
  <2>2. /\ tmp \in blocks /\ Tiling(hdr, blocks) /\ hdr[tmp].next = Null
        /\ w \in Nat /\ w >= Align /\ w % Align = 0
        /\ hdr[tmp].size >= w + Header + Align
    BY <1>2, <1>3, <1>4
  <2>3. /\ Tiling(hdr', blocks \cup {new})
        /\ EndOf(hdr', tmp) = new /\ EndOf(hdr', new) = End
        /\ \A c \in blocks \ {tmp} : EndOf(hdr', c) = EndOf(hdr, c) /\ EndOf(hdr, c) # End
    BY <2>1, <2>2, SplitTiles
  <2> QED BY <1>1, <2>3
<1>8. Owned(hdr', blocks', live')
  <2>1. call.bytes \in 0..WordMod
    <3>1. hdr[tmp].size <= HeapSize /\ hdr[tmp].size \in Nat
      BY <1>2, <1>4 DEF Headers
    <3>2. w <= HeapSize
      BY <1>2, <1>3, <3>1, HeapNumbers
    <3> QED BY <1>2, <3>2, HeapNumbers
  <2>2. live' \in [Addr -> 0..WordMod] /\ live'[tmp] = call.bytes
        /\ \A c \in Addr \ {tmp} : live'[c] = live[c]
    BY <1>1, <1>2, <2>1 DEF HInv, Owned
  <2>3. live[new] = 0
    BY <1>5 DEF HInv, Owned
  <2>4. /\ \A a \in Addr : live'[a] > 0 => a \in blocks' /\ ~hdr'[a].free /\ live'[a] <= hdr'[a].size
        /\ \A a \in blocks' : ~hdr'[a].free => live'[a] > 0
    <3>1. ~hdr'[tmp].free /\ hdr'[tmp].size = w /\ hdr'[new].free
          /\ live'[new] = 0 /\ live'[tmp] > 0 /\ live'[tmp] <= w
      BY <1>2, <1>5, <1>6, <1>11, <1>12, <2>2, <2>3
    <3>2. \A a \in Addr \ {tmp, new} : hdr'[a] = hdr[a] /\ live'[a] = live[a]
      BY <1>11, <2>2
    <3>3. blocks' = blocks \cup {new} /\ tmp \in blocks /\ blocks \subseteq Addr
      BY <1>1, <1>2, <1>4
    <3>4. /\ \A a \in Addr : live[a] > 0 => a \in blocks /\ ~hdr[a].free /\ live[a] <= hdr[a].size
          /\ \A a \in blocks : ~hdr[a].free => live[a] > 0
      BY DEF HInv, Owned
    <3> QED BY <3>1, <3>2, <3>3, <3>4
  <2> QED BY <2>2, <2>4 DEF Owned
<1>9. NoFreePair(hdr', blocks')
  <2> SUFFICES ASSUME NEW a \in blocks', NEW b \in blocks', b = EndOf(hdr', a),
                      hdr'[a].free, hdr'[b].free
               PROVE  FALSE
    BY DEF NoFreePair
  <2>1. a # tmp /\ b # tmp
    BY <1>11, <1>12, <1>13
  <2>2. a # new
    <3>1. End \notin Addr
      BY Addresses, HeapNumbers
    <3>2. blocks' = blocks \cup {new}
      BY <1>1
    <3>3. b \in Addr
      BY <1>4, <1>5, <3>2
    <3> QED BY <1>13, <3>1, <3>3
  <2>3. a \in blocks /\ hdr[a].free /\ EndOf(hdr', a) = EndOf(hdr, a) /\ EndOf(hdr, a) \in blocks
    BY <1>1, <1>4, <1>11, <1>13, <2>1, <2>2 DEF Tiling
  <2>4. b # new /\ hdr[b].free
    BY <1>4, <1>5, <1>11, <2>1, <2>3
  <2> QED BY <2>3, <2>4 DEF HInv, NoFreePair
<1> QED BY <1>1, <1>13, <1>8, <1>9 DEF HInv, Walk

\* kfree.
LEMMA FreeStep ==
  ASSUME HInv, NEW a \in Addr, Kfree(a)
  PROVE  HInv'
<1> DEFINE h1 == [hdr EXCEPT ![a].free = TRUE]
           h2 == IF MergesNext(h1, a) THEN Absorb(h1, a, h1[a].next) ELSE h1
           B == blocks \ (IF MergesNext(h1, a) THEN {h1[a].next} ELSE {})
           gone == (IF MergesNext(h1, a) THEN {h1[a].next} ELSE {})
                   \cup (IF MergesPrev(h2, a) THEN {a} ELSE {})
<1>1. /\ call = NoCall /\ call' = call /\ live[a] > 0
      /\ hdr' = IF MergesPrev(h2, a) THEN Absorb(h2, h2[a].prev, a) ELSE h2
      /\ blocks' = blocks \ gone
      /\ live' = [live EXCEPT ![a] = 0]
  BY DEF Kfree
<1>2. a \in blocks /\ ~hdr[a].free
  BY <1>1 DEF HInv, Owned
<1>3. blocks' = IF MergesPrev(h2, a) THEN B \ {a} ELSE B
  BY <1>1
<1>4. /\ Tiling(h2, B) /\ a \in B /\ h2[a].free /\ B \subseteq blocks
      /\ \A c \in Addr \ {a} : h2[c].free = hdr[c].free /\ h2[c].size = hdr[c].size
      /\ \A c \in blocks \ B : c # a /\ hdr[c].free
      /\ \A x, y \in B : y = EndOf(h2, x) /\ h2[x].free /\ h2[y].free => y = a
  <2>1. Tiling(hdr, blocks)
    BY DEF HInv
  <2>2. Tiling(h1, blocks) /\ \A c \in Addr : EndOf(h1, c) = EndOf(hdr, c)
    <3>1. hdr \in [Addr -> Headers]
      BY <2>1 DEF Tiling
    <3>2. \A c \in Addr : h1[c].size = hdr[c].size /\ h1[c].next = hdr[c].next
                            /\ h1[c].prev = hdr[c].prev
      BY <3>1 DEF Headers
    <3>3. h1 \in [Addr -> Headers]
      BY <3>1 DEF Headers
    <3> HIDE DEF h1
    <3> QED BY <2>1, <3>2, <3>3, FreeTiles
  <2>3. h1[a].free /\ \A c \in Addr \ {a} : h1[c] = hdr[c]
    BY <2>1 DEF Tiling, Headers
  <2> HIDE DEF h1
  <2>4. /\ MergesNext(h1, a) => h2 = Absorb(h1, a, h1[a].next) /\ B = blocks \ {h1[a].next}
        /\ ~MergesNext(h1, a) => h2 = h1 /\ B = blocks
    OBVIOUS
  <2> HIDE DEF h2, B
  <2>5. hdr \in [Addr -> Headers] /\ blocks \subseteq Addr
    BY <2>1 DEF Tiling
  <2>6. NoFreePair(hdr, blocks)
    BY DEF HInv
  <2>7. CASE MergesNext(h1, a)
    <3> DEFINE n == h1[a].next
    <3>1. n # Null /\ h1[n].free
      BY <2>7 DEF MergesNext
    <3>2. n = EndOf(h1, a) /\ n \in blocks
      BY <1>2, <2>2, <3>1 DEF Tiling
    <3>3. h2 = Absorb(h1, a, n) /\ B = blocks \ {n}
      BY <2>4, <2>7
    <3> HIDE DEF n
    <3>4. n = h1[a].next
      BY DEF n
    <3>5. /\ a # n /\ EndOf(h2, a) = EndOf(h1, n) /\ h2[a].free
          /\ \A c \in Addr \ {a} : h2[c].size = h1[c].size /\ h2[c].free = h1[c].free
      <4> DEFINE g == Absorb(h1, a, n)
      <4>1. h1[a].next = n /\ a \in blocks /\ n \in blocks /\ Tiling(h1, blocks)
        BY <1>2, <2>2, <3>2, <3>4
      <4>2. a # n /\ EndOf(g, a) = EndOf(h1, n)
        BY <4>1, AbsorbFun
      <4>3. g[a].free
        BY <2>3, <4>1, AbsorbFun
      <4>4. \A c \in Addr \ {a} : g[c].size = h1[c].size /\ g[c].free = h1[c].free
        BY <4>1, AbsorbFun
      <4> QED BY <3>3, <4>2, <4>3, <4>4
    <3>6. Tiling(h2, B)
      BY <1>2, <2>2, <3>2, <3>3, <3>4, AbsorbTiles
    <3>7. a \in B /\ B \subseteq blocks /\ h2[a].free
      BY <1>2, <3>3, <3>5
    <3>8. \A c \in Addr \ {a} : h2[c].free = hdr[c].free /\ h2[c].size = hdr[c].size
      BY <2>3, <3>5
    <3>9. n \in Addr /\ hdr[n].free
      BY <2>5, <2>3, <3>1, <3>2, <3>5
    <3>10. ASSUME NEW x \in B, NEW y \in B, y = EndOf(h2, x), h2[x].free, h2[y].free, y # a
           PROVE  FALSE
      <4>1. x \in blocks /\ y \in blocks /\ x \in Addr /\ y \in Addr /\ hdr[y].free
        BY <2>5, <3>3, <3>8, <3>10
      <4>2. CASE x = a
        <5>1. y = EndOf(hdr, n)
          BY <2>2, <3>5, <3>9, <3>10, <4>2
        <5> QED BY <2>6, <3>2, <3>9, <4>1, <5>1 DEF NoFreePair
      <4>3. CASE x # a
        <5>1. EndOf(h2, x) = EndOf(hdr, x) /\ hdr[x].free
          BY <3>8, <3>10, <4>1, <4>3 DEF EndOf
        <5> QED BY <2>6, <3>10, <4>1, <5>1 DEF NoFreePair
      <4> QED BY <4>2, <4>3
    <3>11. \A c \in blocks \ B : c # a /\ hdr[c].free
      BY <3>3, <3>5, <3>9
    <3> QED BY <3>6, <3>7, <3>8, <3>10, <3>11
  <2>8. CASE ~MergesNext(h1, a)
    <3>1. h2 = h1 /\ B = blocks
      BY <2>4, <2>8
    <3>2. ASSUME NEW x \in B, NEW y \in B, y = EndOf(h2, x), h2[x].free, h2[y].free, y # a
          PROVE  FALSE
      <4>1. x \in blocks /\ y \in blocks /\ x \in Addr /\ y \in Addr
            /\ hdr[y].free /\ y = EndOf(hdr, x)
        BY <2>5, <2>2, <2>3, <3>1, <3>2
      <4>2. CASE x = a
        <5>1. y # End
          BY <4>1, Addresses, HeapNumbers
        <5>2. h1[a].next = y
          BY <1>2, <2>2, <3>1, <3>2, <4>2, <5>1 DEF Tiling
        <5>3. y # Null
          BY <4>1, Addresses
        <5> QED BY <2>8, <3>1, <3>2, <5>2, <5>3 DEF MergesNext
      <4>3. CASE x # a
        <5>1. hdr[x].free
          BY <2>3, <3>1, <3>2, <4>1, <4>3
        <5> QED BY <2>6, <4>1, <5>1 DEF NoFreePair
      <4> QED BY <4>2, <4>3
    <3> QED BY <1>2, <2>2, <2>3, <3>1, <3>2
  <2> QED BY <2>7, <2>8
<1> HIDE DEF h1, h2, B, gone
<1>5. blocks \subseteq Addr /\ B \subseteq Addr
  BY <1>4 DEF HInv, Tiling
<1>6. /\ live \in [Addr -> 0..WordMod]
      /\ \A c \in Addr : live[c] > 0 => c \in blocks /\ ~hdr[c].free /\ live[c] <= hdr[c].size
      /\ \A c \in blocks : ~hdr[c].free => live[c] > 0
  BY DEF HInv, Owned
<1>7. live' \in [Addr -> 0..WordMod] /\ live'[a] = 0 /\ \A c \in Addr \ {a} : live'[c] = live[c]
  BY <1>1, <1>6, HeapNumbers
<1>8. Walk'
  BY <1>1 DEF Walk
<1>9. CASE MergesPrev(h2, a)
  <2> DEFINE p == h2[a].prev
  <2>1. p # Null /\ h2[p].free
    BY <1>9 DEF MergesPrev
  <2>2. a # Start
    BY <1>4, <2>1 DEF Tiling
  <2>3. p \in B /\ EndOf(h2, p) = a
    BY <1>4, <2>2 DEF Tiling
  <2>4. a # End
    BY Addresses, HeapNumbers
  <2>5. h2[p].next = a
    BY <1>4, <2>3, <2>4 DEF Tiling
  <2>6. hdr' = Absorb(h2, p, a) /\ blocks' = B \ {a}
    BY <1>1, <1>3, <1>9
  <2> HIDE DEF p
  <2>7. Tiling(hdr', blocks')
    BY <1>4, <2>3, <2>5, <2>6, AbsorbTiles
  <2>8. /\ p # a /\ EndOf(hdr', p) = EndOf(h2, a) /\ hdr'[p].free = h2[p].free
        /\ \A c \in Addr \ {p} : hdr'[c].size = h2[c].size /\ hdr'[c].free = h2[c].free
    BY <1>4, <2>3, <2>5, <2>6, AbsorbFun
  <2>9. p \in Addr /\ p \in blocks /\ hdr[p].free /\ live[p] = 0
    BY <1>4, <1>5, <1>6, <2>1, <2>3, <2>8
  <2>10. \A c \in Addr \ {a, p} : hdr'[c].free = hdr[c].free /\ hdr'[c].size = hdr[c].size
    BY <1>4, <2>8
  <2>11. Owned(hdr', blocks', live')
    <3>1. ASSUME NEW c \in Addr, live'[c] > 0
          PROVE  c \in blocks' /\ ~hdr'[c].free /\ live'[c] <= hdr'[c].size
      <4>1. c # a /\ c # p /\ live'[c] = live[c] /\ live[c] > 0
        BY <1>7, <2>9, <3>1
      <4>2. c \in blocks /\ ~hdr[c].free /\ live[c] <= hdr[c].size
        BY <1>6, <4>1
      <4>3. c \in B
        BY <1>4, <4>2
      <4> QED BY <2>6, <2>10, <4>1, <4>2, <4>3
    <3>2. ASSUME NEW c \in blocks', ~hdr'[c].free
          PROVE  live'[c] > 0
      <4>1. c \in B /\ c # a /\ c # p /\ c \in Addr /\ c \in blocks
        BY <1>4, <1>5, <2>1, <2>6, <2>8, <3>2
      <4> QED BY <1>6, <1>7, <2>10, <3>2, <4>1
    <3> QED BY <1>7, <3>1, <3>2 DEF Owned
  <2>12. NoFreePair(hdr', blocks')
    <3> SUFFICES ASSUME NEW x \in blocks', NEW y \in blocks', y = EndOf(hdr', x),
                        hdr'[x].free, hdr'[y].free
                 PROVE  FALSE
      BY DEF NoFreePair
    <3>1. x \in B \ {a} /\ y \in B \ {a} /\ x \in Addr /\ y \in Addr
      BY <1>5, <2>6
    <3>2. h2[y].free /\ h2[x].free
      BY <2>1, <2>8, <3>1
    <3>3. CASE x = p
      BY <1>4, <2>8, <3>1, <3>2, <3>3
    <3>4. CASE x # p
      <4>1. EndOf(hdr', x) = EndOf(h2, x)
        BY <2>8, <3>1, <3>4 DEF EndOf
      <4> QED BY <1>4, <3>1, <3>2, <4>1
    <3> QED BY <3>3, <3>4
  <2> QED BY <1>8, <2>7, <2>11, <2>12 DEF HInv
<1>10. CASE ~MergesPrev(h2, a)
  <2>1. hdr' = h2 /\ blocks' = B
    BY <1>1, <1>3, <1>10
  <2>2. Owned(hdr', blocks', live')
    <3>1. ASSUME NEW c \in Addr, live'[c] > 0
          PROVE  c \in blocks' /\ ~hdr'[c].free /\ live'[c] <= hdr'[c].size
      <4>1. c # a /\ live'[c] = live[c] /\ live[c] > 0
        BY <1>7, <3>1
      <4>2. c \in blocks /\ ~hdr[c].free /\ live[c] <= hdr[c].size
        BY <1>6, <4>1
      <4>3. c \in B
        BY <1>4, <4>2
      <4> QED BY <1>4, <2>1, <4>1, <4>2, <4>3
    <3>2. ASSUME NEW c \in blocks', ~hdr'[c].free
          PROVE  live'[c] > 0
      <4>1. c \in B /\ c # a /\ c \in Addr /\ c \in blocks
        BY <1>4, <1>5, <2>1, <3>2
      <4> QED BY <1>4, <1>6, <1>7, <2>1, <3>2, <4>1
    <3> QED BY <1>7, <3>1, <3>2 DEF Owned
  <2>3. NoFreePair(hdr', blocks')
    <3> SUFFICES ASSUME NEW x \in B, NEW y \in B, y = EndOf(h2, x),
                        h2[x].free, h2[y].free
                 PROVE  FALSE
      BY <2>1 DEF NoFreePair
    <3>1. y = a
      BY <1>4
    <3>2. h2[a].prev = x
      <4>1. a # End
        BY Addresses, HeapNumbers
      <4> QED BY <1>4, <3>1, <4>1 DEF Tiling
    <3>3. x # Null
      BY <1>5, Addresses
    <3> QED BY <1>10, <3>2, <3>3 DEF MergesPrev
  <2> QED BY <1>4, <1>8, <2>1, <2>2, <2>3 DEF HInv
<1> QED BY <1>9, <1>10

\* A product that kcalloc does not refuse is not wrapped, neither by the
\* multiplication nor by align().
LEMMA CallocProduct ==
  ASSUME NEW p \in Callocs, ~Overflows(p[1], p[2]),
         (p[1] * p[2]) % WordMod # 0
  PROVE  /\ p[1] * p[2] \in 1..WordMod - Align
         /\ (p[1] * p[2]) % WordMod = p[1] * p[2]
<1> DEFINE c == p[1]
           z == p[2]
           q == (WordMod - 1) \div c
<1>1. c \in Nat /\ z \in Nat /\ c * z \notin WordMod - Align + 1..WordMod - 1
  BY HeapAssumption
<1>2. c = 0 \/ z <= q
  <2>1. c # 0 => ~(z > q)
    BY DEF Overflows
  <2>2. c # 0 => q \in Int
    BY <1>1, HeapNumbers
  <2> QED BY <1>1, <2>1, <2>2
<1>3. c # 0
  <2> SUFFICES ASSUME c = 0 PROVE FALSE
    OBVIOUS
  <2>1. c * z = 0
    BY <1>1
  <2>2. 0 % WordMod = 0
    BY HeapNumbers
  <2> QED BY <2>1, <2>2
<1>4. c > 0 /\ WordMod - 1 \in Int
  BY <1>1, <1>3, HeapNumbers
<1>5. /\ q \in Int /\ (WordMod - 1) % c \in 0..c - 1
      /\ WordMod - 1 = c * q + ((WordMod - 1) % c)
  BY <1>1, <1>4, Division
<1> HIDE DEF q, z, c
<1>6. c * z <= c * q
  BY <1>1, <1>2, <1>3, <1>5
<1>7. c * z \in Nat
  BY <1>1
<1>8. c * z <= WordMod - 1
  BY <1>1, <1>5, <1>6, <1>7, HeapNumbers
<1>9. (c * z) % WordMod = c * z
  BY <1>7, <1>8, HeapNumbers
<1>10. (c * z) % WordMod # 0
  BY DEF c, z
<1>11. c * z \in 1..WordMod - Align
  BY <1>1, <1>7, <1>8, <1>9, <1>10, HeapNumbers
<1> QED BY <1>9, <1>11 DEF c, z

\* Every step keeps the invariant, if programs split only the last block.
LEMMA HeapStep ==
  ASSUME SplitInside = FALSE, HInv, [Next]_vars
  PROVE  HInv'
<1>1. CASE \E n \in Requests : Kmalloc(n)
  <2>1. PICK n \in Requests : Search(n, AlignUp(n))
    BY <1>1 DEF Kmalloc
  <2>2. n \in 1..WordMod - Align
    BY HeapAssumption
  <2> QED BY <2>1, <2>2, SearchStep
<1>2. CASE \E p \in Callocs : Kcalloc(p[1], p[2])
  <2>1. PICK p \in Callocs : Kcalloc(p[1], p[2])
    BY <1>2
  <2>2. /\ ~Overflows(p[1], p[2]) /\ (p[1] * p[2]) % WordMod # 0
        /\ Search(p[1] * p[2], AlignUp((p[1] * p[2]) % WordMod))
    BY <2>1 DEF Kcalloc
  <2>3. /\ p[1] * p[2] \in 1..WordMod - Align
        /\ (p[1] * p[2]) % WordMod = p[1] * p[2]
    BY <2>2, CallocProduct
  <2>4. Search(p[1] * p[2], AlignUp(p[1] * p[2]))
    BY <2>2, <2>3
  <2> QED BY <2>3, <2>4, SearchStep
<1>3. CASE KmallocSkip
  BY <1>3, SkipStep
<1>4. CASE KmallocTake
  BY <1>4, TakeStep
<1>5. CASE KmallocSplit
  BY <1>5, SplitStep
<1>6. CASE KmallocFail
  BY <1>6 DEF KmallocFail, HInv, Tiling, Owned, NoFreePair, EndOf, Walk
<1>7. CASE \E a \in Addr : Kfree(a)
  BY <1>7, FreeStep
<1>8. CASE UNCHANGED vars
  BY <1>8 DEF vars, HInv, Tiling, Owned, NoFreePair, EndOf, Walk, First, Fits, Splits
<1> QED BY <1>1, <1>2, <1>3, <1>4, <1>5, <1>6, <1>7, <1>8 DEF Next

-----------------------------------------------------------------------------
(* The theorems.                                                           *)

\* The invariant holds in every reachable state.
LEMMA HeapInvariant == SplitInside = FALSE => (Spec => []HInv)
<1> SUFFICES ASSUME SplitInside = FALSE PROVE Spec => []HInv
  OBVIOUS
<1>1. Init => HInv
  BY HeapInit
<1>2. HInv /\ [Next]_vars => HInv'
  BY HeapStep
<1> QED BY <1>1, <1>2, PTL DEF Spec

\* What the invariant says about the properties of Heap.
LEMMA HeapMeaning ==
  ASSUME HInv
  PROVE  TypeOK /\ BlocksTile /\ OwnersDisjoint /\ Coalesced /\ NothingLeaks
<1>1. Tiling(hdr, blocks) /\ Owned(hdr, blocks, live) /\ NoFreePair(hdr, blocks) /\ Walk
  BY DEF HInv
<1>2. \A a \in blocks : After(a) = EndOf(hdr, a)
  BY DEF After, EndOf
<1>3. TypeOK
  <2>1. \A a \in blocks :
       /\ hdr[a].size \in Align..HeapSize - Header /\ hdr[a].size % Align = 0
       /\ {hdr[a].next, hdr[a].prev} \subseteq blocks \cup {Null}
       /\ hdr[a].free \in BOOLEAN
    <3> TAKE a \in blocks
    <3>1. /\ a \in Addr /\ hdr[a].size \in Nat /\ hdr[a].free \in BOOLEAN
          /\ hdr[a].size = EndOf(hdr, a) - a - Header /\ EndOf(hdr, a) <= End
          /\ EndOf(hdr, a) \in Nat
      BY <1>1, BlockFacts
    <3>2. hdr[a].size % Align = 0 /\ hdr[a].size >= Align
      BY <1>1 DEF Tiling
    <3>3. a \in Nat /\ a >= Start
      BY <3>1, Addresses
    <3>4. hdr[a].size \in Align..HeapSize - Header
      <4>1. End = Header + HeapSize /\ Start = Header /\ Header \in Nat
            /\ HeapSize \in Nat /\ Align \in Nat
        BY HeapNumbers
      <4> QED BY <3>1, <3>2, <3>3, <4>1
    <3>5. hdr[a].next \in blocks \cup {Null}
      BY <1>1 DEF Tiling
    <3>6. hdr[a].prev \in blocks \cup {Null}
      BY <1>1 DEF Tiling
    <3> QED BY <3>1, <3>2, <3>4, <3>5, <3>6
  <2>2. blocks \subseteq Addr /\ live \in [Addr -> 0..WordMod]
    BY <1>1 DEF Tiling, Owned
  <2>3. call.name \in {"none", "kmalloc"} /\ (call # NoCall => call.tmp \in blocks \cup {Null})
    BY <1>1 DEF Walk, NoCall
  <2> QED BY <2>1, <2>2, <2>3 DEF TypeOK
<1>4. BlocksTile
  BY <1>1, <1>2 DEF Tiling, BlocksTile
<1>5. OwnersDisjoint
  <2> SUFFICES ASSUME NEW a \in Addr, live[a] > 0
               PROVE  /\ a \in blocks /\ ~hdr[a].free
                      /\ a + Header + live[a] <= End
                      /\ \A b \in blocks : b > a => a + Header + live[a] <= b
    BY DEF OwnersDisjoint
  <2>1. a \in blocks /\ ~hdr[a].free /\ live[a] <= hdr[a].size /\ live[a] \in Nat
    BY <1>1, HeapNumbers DEF Owned
  <2>2. a \in Nat /\ hdr[a].size \in Nat /\ EndOf(hdr, a) <= End
    BY <1>1, <2>1, BlockFacts
  <2>3. a + Header + live[a] <= EndOf(hdr, a) /\ EndOf(hdr, a) \in Nat /\ a + Header + live[a] \in Nat
    BY <2>1, <2>2, HeapNumbers DEF EndOf
  <2>4. \A b \in blocks : b > a => EndOf(hdr, a) <= b
    BY <1>1, <2>1 DEF Tiling
  <2>5. \A b \in blocks : b \in Nat
    BY <1>1, BlockFacts
  <2>6. End \in Nat
    BY HeapNumbers
  <2> QED BY <2>1, <2>2, <2>3, <2>4, <2>5, <2>6
<1>6. Coalesced
  BY <1>1, <1>2 DEF Coalesced, NoFreePair
<1>7. NothingLeaks
  <2> SUFFICES ASSUME \A a \in Addr : live[a] = 0
               PROVE  blocks = {Start} /\ hdr[Start].size = HeapSize - Header
    BY DEF NothingLeaks
  <2>1. blocks \subseteq Addr /\ Start \in blocks
    BY <1>1 DEF Tiling
  <2>2. \A a \in blocks : hdr[a].free
    BY <1>1, <2>1 DEF Owned
  <2>3. EndOf(hdr, Start) = End
    <3> SUFFICES ASSUME EndOf(hdr, Start) # End PROVE FALSE
      OBVIOUS
    <3>1. EndOf(hdr, Start) \in blocks
      BY <1>1, <2>1 DEF Tiling
    <3> QED BY <1>1, <2>1, <2>2, <3>1 DEF NoFreePair
  <2>4. \A b \in blocks : b = Start
    <3> SUFFICES ASSUME NEW b \in blocks, b # Start PROVE FALSE
      OBVIOUS
    <3>1. Start < b
      BY <2>1, Addresses, HeapNumbers
    <3>2. End <= b
      BY <1>1, <2>1, <2>3, <3>1 DEF Tiling
    <3> QED BY <2>1, <3>2, Addresses, HeapNumbers
  <2>5. hdr[Start].size = HeapSize - Header
    <3>1. hdr[Start].size \in Nat
      BY <1>1, <2>1, BlockFacts
    <3> QED BY <2>3, <3>1, HeapNumbers DEF EndOf
  <2> QED BY <2>1, <2>4, <2>5
<1> QED BY <1>3, <1>4, <1>5, <1>6, <1>7

\* Every header of the list is sound: kmalloc and kfree leave aligned blocks
\* that hold something and links that lead to blocks.
THEOREM HeapTypes == SplitInside = FALSE => (Spec => []TypeOK)
  BY HeapInvariant, HeapMeaning, PTL

\* The blocks that kmalloc and kfree make tile the heap, and the links of two
\* neighbours name each other.
THEOREM HeapTiled == SplitInside = FALSE => (Spec => []BlocksTile)
  BY HeapInvariant, HeapMeaning, PTL

\* What kmalloc and kcalloc hand out is not a header and not another owner's.
THEOREM HeapDisjoint == SplitInside = FALSE => (Spec => []OwnersDisjoint)
  BY HeapInvariant, HeapMeaning, PTL

\* kfree merges in both directions, so no two free blocks are neighbours.
THEOREM HeapCoalesced == SplitInside = FALSE => (Spec => []Coalesced)
  BY HeapInvariant, HeapMeaning, PTL

\* Fragmentation is not permanent: once everything is freed the heap is the
\* one block that heap_init made.
THEOREM HeapRecovered == SplitInside = FALSE => (Spec => []NothingLeaks)
  BY HeapInvariant, HeapMeaning, PTL

=============================================================================
