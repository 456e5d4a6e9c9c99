-------------------------------- MODULE Heap --------------------------------
(***************************************************************************)
(* The kernel heap (heap.c): blocks with a header, linked in both          *)
(* directions, first fit, split on allocation, merged on release.          *)
(*                                                                         *)
(* Addresses and sizes are bytes.  kmalloc and kfree run with interrupts   *)
(* off; a walk along the list is one step for each block, and no other     *)
(* call starts before it is over.                                          *)
(***************************************************************************)
EXTENDS Integers

CONSTANTS
  Align,       \* HEAP_ALIGMENT
  Header,      \* sizeof(heap_block_t)
  HeapSize,    \* _heap_end - _heap_start
  WordMod,     \* 2^32
  Requests,    \* the sizes that programs ask kmalloc for
  Callocs,     \* the pairs <<count, size>> that they ask kcalloc for
  SplitInside  \* may a block that has a successor be split?

Null == 0
Start == Header
End == Start + HeapSize
Addr == {a \in Start..End - Header : a % Align = 0}

ASSUME HeapAssumption ==
  /\ {Align, Header, HeapSize, WordMod} \subseteq Nat \ {0}
  /\ Header % Align = 0 /\ HeapSize % Align = 0 /\ WordMod % Align = 0
  /\ HeapSize >= Header + Align
  /\ HeapSize + Header + Align < WordMod
  /\ Requests \subseteq 1..WordMod - Align
  /\ Callocs \subseteq Nat \X Nat
  /\ \A p \in Callocs : p[1] * p[2] \notin WordMod - Align + 1..WordMod - 1
  /\ SplitInside \in BOOLEAN

VARIABLES
  hdr,         \* the headers: size, next, prev, free
  blocks,      \* the addresses of the headers in use
  call,        \* the call in progress: its name, the block it looks at, ...
  live         \* live[a]: how many bytes the owner of block a may use

vars == <<hdr, blocks, call, live>>

NoCall == [name |-> "none"]

-----------------------------------------------------------------------------

\* align(size)
AlignUp(n) == LET m == (n + Align - 1) % WordMod IN m - (m % Align)

\* heap_init
Init ==
  /\ hdr = [a \in Addr |->
              [size |-> IF a = Start THEN HeapSize - Header ELSE 0,
               next |-> Null, prev |-> Null, free |-> a = Start]]
  /\ blocks = {Start}
  /\ call = NoCall
  /\ live = [a \in Addr |-> 0]

-----------------------------------------------------------------------------
(* kmalloc                                                                 *)

Fits(a, want) == hdr[a].free /\ hdr[a].size >= want

\* Mutant of Splits: the rest need not hold more than a header.
SplitsTight(a, want) == hdr[a].size >= want + Header

Splits(a, want) == hdr[a].size >= want + Header + Align

First(a, want) == Fits(a, want) /\ \A b \in blocks : b < a => ~Fits(b, want)

\* A request is for want bytes; its caller counts on bytes of them.  Programs
\* for which SplitInside is FALSE ask for nothing that splits a block with a
\* successor.
Search(bytes, want) ==
  /\ call = NoCall
  /\ ~SplitInside => \A a \in blocks : First(a, want) /\ Splits(a, want) =>
                                          hdr[a].next = Null
  /\ call' = [name |-> "kmalloc", tmp |-> Start, want |-> want, bytes |-> bytes]
  /\ UNCHANGED <<hdr, blocks, live>>

Kmalloc(n) == Search(n, AlignUp(n))

\* Mutant of Overflows: no check.
NeverOverflows(count, size) == FALSE

Overflows(count, size) == count # 0 /\ size > (WordMod - 1) \div count

\* kcalloc; kmalloc refuses zero bytes.
Kcalloc(count, size) ==
  LET total == (count * size) % WordMod
  IN /\ ~Overflows(count, size)
     /\ total # 0
     /\ Search(count * size, AlignUp(total))

Looking == call.name = "kmalloc" /\ call.tmp # Null

KmallocSkip ==
  /\ Looking /\ ~Fits(call.tmp, call.want)
  /\ call' = [call EXCEPT !.tmp = hdr[call.tmp].next]
  /\ UNCHANGED <<hdr, blocks, live>>

\* The whole block.
KmallocTake ==
  /\ Looking /\ Fits(call.tmp, call.want) /\ ~Splits(call.tmp, call.want)
  /\ hdr' = [hdr EXCEPT ![call.tmp].free = FALSE]
  /\ live' = [live EXCEPT ![call.tmp] = call.bytes]
  /\ call' = NoCall
  /\ UNCHANGED blocks

\* The block in two.  The block behind them keeps its prev.
KmallocSplit ==
  /\ Looking /\ Fits(call.tmp, call.want) /\ Splits(call.tmp, call.want)
  /\ LET tmp == call.tmp
         new == tmp + Header + call.want
     IN /\ hdr' = [hdr EXCEPT
             ![new] = [size |-> hdr[tmp].size - call.want - Header,
                       next |-> hdr[tmp].next, prev |-> tmp, free |-> TRUE],
             ![tmp].size = call.want, ![tmp].next = new, ![tmp].free = FALSE]
        /\ blocks' = blocks \cup {new}
        /\ live' = [live EXCEPT ![tmp] = call.bytes]
  /\ call' = NoCall

\* return 0
KmallocFail ==
  /\ call.name = "kmalloc" /\ call.tmp = Null
  /\ call' = NoCall
  /\ UNCHANGED <<hdr, blocks, live>>

-----------------------------------------------------------------------------
(* kfree                                                                   *)

\* Mutant of Absorb: the block behind them keeps its prev.
AbsorbOneWay(h, a, b) ==
  [h EXCEPT ![a].size = @ + Header + h[b].size, ![a].next = h[b].next]

\* Mutant of Absorb: the header of the absorbed block is lost.
AbsorbNoHeader(h, a, b) ==
  LET g == [h EXCEPT ![a].size = @ + h[b].size, ![a].next = h[b].next]
  IN IF h[b].next = Null THEN g ELSE [g EXCEPT ![h[b].next].prev = a]

\* Block a takes over block b and the list behind it.
Absorb(h, a, b) ==
  LET g == [h EXCEPT ![a].size = @ + Header + h[b].size, ![a].next = h[b].next]
  IN IF h[b].next = Null THEN g ELSE [g EXCEPT ![h[b].next].prev = a]

MergesNext(h, a) == h[a].next # Null /\ h[h[a].next].free

\* Mutant of MergesPrev: only the following block is merged.
MergesNever(h, a) == FALSE

MergesPrev(h, a) == h[a].prev # Null /\ h[h[a].prev].free

\* Programs free what they own, once.
Kfree(a) ==
  LET h1 == [hdr EXCEPT ![a].free = TRUE]
      h2 == IF MergesNext(h1, a) THEN Absorb(h1, a, h1[a].next) ELSE h1
      gone == (IF MergesNext(h1, a) THEN {h1[a].next} ELSE {})
              \cup (IF MergesPrev(h2, a) THEN {a} ELSE {})
  IN /\ call = NoCall
     /\ live[a] > 0
     /\ hdr' = IF MergesPrev(h2, a) THEN Absorb(h2, h2[a].prev, a) ELSE h2
     /\ blocks' = blocks \ gone
     /\ live' = [live EXCEPT ![a] = 0]
     /\ UNCHANGED call

Next ==
  \/ \E n \in Requests : Kmalloc(n)
  \/ \E p \in Callocs : Kcalloc(p[1], p[2])
  \/ KmallocSkip \/ KmallocTake \/ KmallocSplit \/ KmallocFail
  \/ \E a \in Addr : Kfree(a)

Spec == Init /\ [][Next]_vars

-----------------------------------------------------------------------------
(* Properties                                                              *)

\* The types.  Every block, the rest of a split included, is aligned and can
\* hold something.
TypeOK ==
  /\ blocks \subseteq Addr
  /\ \A a \in blocks :
       /\ hdr[a].size \in Align..HeapSize - Header /\ hdr[a].size % Align = 0
       /\ {hdr[a].next, hdr[a].prev} \subseteq blocks \cup {Null}
       /\ hdr[a].free \in BOOLEAN
  /\ live \in [Addr -> 0..WordMod]
  /\ call.name \in {"none", "kmalloc"}
  /\ call # NoCall => call.tmp \in blocks \cup {Null}

\* kmalloc and kfree keep the blocks a partition of the heap: each ends where
\* the next begins, the last one where the heap ends, and the links of two
\* neighbours name each other.
After(a) == a + Header + hdr[a].size
BlocksTile ==
  /\ Start \in blocks /\ hdr[Start].prev = Null
  /\ \A a \in blocks :
       /\ hdr[a].next = IF After(a) = End THEN Null ELSE After(a)
       /\ After(a) # End => After(a) \in blocks /\ hdr[After(a)].prev = a
       /\ \A b \in blocks : a < b => After(a) <= b

\* What kmalloc and kcalloc have handed out is inside the heap, and touches
\* neither a header nor what another owner has, until it is freed.
OwnersDisjoint ==
  \A a \in Addr : live[a] > 0 =>
    /\ a \in blocks /\ ~hdr[a].free
    /\ a + Header + live[a] <= End
    /\ \A b \in blocks : b > a => a + Header + live[a] <= b

\* kfree leaves no two free blocks side by side.
Coalesced ==
  \A a, b \in blocks : b = After(a) => ~(hdr[a].free /\ hdr[b].free)

\* When everything is freed the heap is the one block that heap_init made.
NothingLeaks ==
  (\A a \in Addr : live[a] = 0) => blocks = {Start} /\ hdr[Start].size = HeapSize - Header
=============================================================================
