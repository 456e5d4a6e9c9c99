--------------------------- MODULE ConsoleProofs ---------------------------
(***************************************************************************)
(* Theorems about Console, for rings of every size, any tasks that write,  *)
(* any keys, lines and logs.  A task does not lose the processor within a  *)
(* ring function (Preemption is FALSE), and for what is said of the input  *)
(* the host sends nothing while usart2_init runs (EarlyBytes is FALSE).    *)
(* Whether the host waits for room makes no difference to safety.          *)
(***************************************************************************)
EXTENDS Console, SequenceTheorems, TLAPS

-----------------------------------------------------------------------------
(* The inductive invariant.                                                *)

Types ==
  /\ tx \in RingType /\ tx.tail < Size
  /\ rx \in RingType /\ rx.head < Size
  /\ \A i \in 0..Size - 1 : rx.buf[i] \in Keys \cup {None}
  /\ tx.head = Size => pc[current] = "wrap"
  /\ rx.tail = Size => pc["cli"] = "return"
  /\ rx_sem \in Int /\ rx_sem >= NoSem
  /\ tdr \in Bytes \cup {None} /\ rdr \in Keys \cup {None} /\ data \in Keys \cup {None}
  /\ txeie \in BOOLEAN /\ rebooting \in BOOLEAN
  /\ current \in Writers /\ pc \in [Writers -> Places]
  /\ todo \in [Writers -> Seq(Bytes)]
  /\ cli_buffer \in Seq(Letters) /\ Len(cli_buffer) <= LineMax

\* Only the task that has the processor is inside a function of the driver,
\* only the CLI reads, and it has nothing to write while it does.
Control ==
  /\ \A w \in Writers : w # current => pc[w] = "idle"
  /\ \A w \in Writers : w # "cli" => pc[w] \in {"idle", "advance", "wrap", "enable"}
  /\ pc["cli"] \in {"clear", "create", "start", "load", "drop", "return"} =>
       todo["cli"] = <<>>
  /\ rx_sem = NoSem <=> pc["cli"] \in {"clear", "create"}
  /\ rx_sem = NoSem => current = "cli" /\ tx.head = tx.tail /\ tx.head < Size
  /\ ~Inside => moved = {}

\* An index past the end: what the line can do before it is wrapped.
TxWindow ==
  /\ tx.head = Size /\ tx.tail = 0 => tdr # None /\ "tdr" \in moved
  /\ pc[current] = "wrap" /\ txeie /\ tdr = None => "tdr" \in moved

RxWindow ==
  /\ rx.tail = Size /\ rdr # None => "rdr" \in moved
  /\ rx.tail = Size /\ (rdr # None \/ "rdr" \notin moved) => rx.head # Size - 1

\* What the rings and the variables of the ring functions hold.
TxBytes ==
  /\ Contents(tx) \in Seq(Bytes)
  /\ \A w \in Writers : pc[w] = "advance" =>
       todo[w] # <<>> /\ tx.buf[tx.head] = Head(todo[w]) /\ ~Full(tx)

RxBytes ==
  /\ Contents(rx) \in Seq(Keys)
  /\ pc["cli"] = "drop" => data = rx.buf[rx.tail]
  /\ pc["cli"] = "return" => data \in Keys

\* Nothing is received before usart2_init has created the semaphore.
RxQuiet == rx_sem = NoSem => rx.head = rx.tail /\ rx.head < Size /\ rdr = None

TxInv == Types /\ Control /\ TxWindow /\ TxBytes
RxInv == RxWindow /\ RxBytes /\ RxQuiet /\ UnitsMatchBytes
CInv == TxInv /\ RxInv

-----------------------------------------------------------------------------
(* Rings.                                                                  *)

\* The remainder, for a number that is reduced at most once.
LEMMA ReducedOnce ==
  ASSUME NEW n \in Nat, n > 0, NEW x \in Nat, x < n + n
  PROVE  x % n = IF x < n THEN x ELSE x - n
<1>1. CASE x < n
  BY <1>1
<1>2. CASE x >= n
  <2>1. x % n \in 0..n - 1 /\ x \div n \in Int /\ x = n * (x \div n) + (x % n)
    OBVIOUS
  <2>2. x \div n = 1
    <3>1. CASE x \div n >= 2
      <4>1. n * (x \div n) >= n * 2
        BY <2>1, <3>1
      <4> QED BY <2>1, <4>1
    <3>2. CASE x \div n <= 0
      <4>1. n * (x \div n) <= n * 0
        BY <2>1, <3>2
      <4> QED BY <1>2, <2>1, <4>1
    <3> QED BY <2>1, <3>1, <3>2
  <2> QED BY <1>2, <2>1, <2>2
<1> QED BY <1>1, <1>2

\* The indices as they are after the wrap, the number of bytes between them,
\* and the place of the i-th byte.
HeadOf(r) == Wrapped(r.head)
TailOf(r) == Wrapped(r.tail)
Count(r) == IF HeadOf(r) >= TailOf(r) THEN HeadOf(r) - TailOf(r)
            ELSE HeadOf(r) + Size - TailOf(r)
Place(r, i) == IF TailOf(r) + i - 1 < Size THEN TailOf(r) + i - 1
               ELSE TailOf(r) + i - 1 - Size

\* A ring has at least two places.
LEMMA RingSize == Size \in Nat /\ Size >= 2 /\ Size <= 255
  BY UsartAssumption

\* The same for Size, as the proofs use it.
LEMMA ReducedBySize ==
  \A x \in Nat : x < Size + Size => x % Size = IF x < Size THEN x ELSE x - Size
<1>1. Size \in Nat /\ Size > 0
  BY RingSize
<1> QED BY <1>1, ReducedOnce, Zenon

\* Contents in terms of these.
LEMMA RingFacts ==
  ASSUME NEW r, r.head \in 0..Size, r.tail \in 0..Size
  PROVE  /\ HeadOf(r) \in 0..Size - 1 /\ TailOf(r) \in 0..Size - 1
         /\ Count(r) \in 0..Size - 1
         /\ \A i \in 1..Count(r) : Place(r, i) \in 0..Size - 1 /\ Place(r, i) # HeadOf(r)
         /\ Contents(r) = [i \in 1..Count(r) |-> r.buf[Place(r, i)]]
         /\ Len(Contents(r)) = Count(r)
<1>1. HeadOf(r) \in 0..Size - 1 /\ TailOf(r) \in 0..Size - 1
  BY RingSize DEF HeadOf, TailOf, Wrapped
<1>2. Count(r) \in 0..Size - 1
  BY <1>1, RingSize DEF Count
<1>3. \A i \in 1..Count(r) : Place(r, i) \in 0..Size - 1 /\ Place(r, i) # HeadOf(r)
  BY <1>1, RingSize DEF Count, Place
<1>4. (HeadOf(r) + Size - TailOf(r)) % Size = Count(r)
  <2> DEFINE x == HeadOf(r) + Size - TailOf(r)
  <2>1. x \in Nat /\ x < Size + Size
    BY <1>1, RingSize
  <2>2. Count(r) = IF x < Size THEN x ELSE x - Size
    BY <1>1, RingSize DEF Count
  <2> HIDE DEF x
  <2>3. x % Size = Count(r)
    BY <2>1, <2>2, ReducedBySize
  <2> QED BY <2>3 DEF x
<1>5. \A i \in 1..Count(r) : (TailOf(r) + i - 1) % Size = Place(r, i)
  <2> TAKE i \in 1..Count(r)
  <2> DEFINE x == TailOf(r) + i - 1
  <2>1. x \in Nat /\ x < Size + Size
    BY <1>1, <1>2, RingSize
  <2>2. Place(r, i) = IF x < Size THEN x ELSE x - Size
    BY <1>1, <1>2, RingSize DEF Place
  <2> HIDE DEF x
  <2>3. x % Size = Place(r, i)
    BY <2>1, <2>2, ReducedBySize
  <2> QED BY <2>3 DEF x
<1>6. Contents(r) = [i \in 1..Count(r) |-> r.buf[(TailOf(r) + i - 1) % Size]]
  BY <1>4 DEF Contents, HeadOf, TailOf
<1>7. Contents(r) = [i \in 1..Count(r) |-> r.buf[Place(r, i)]]
  BY <1>5, <1>6
<1>8. Len(Contents(r)) = Count(r)
  BY <1>2, <1>7
<1> QED BY <1>1, <1>2, <1>3, <1>7, <1>8

\* Rings with the same bytes between the same indices.
LEMMA SameContents ==
  ASSUME NEW r, r.head \in 0..Size, r.tail \in 0..Size,
         NEW s, s.head \in 0..Size, s.tail \in 0..Size,
         HeadOf(s) = HeadOf(r), TailOf(s) = TailOf(r),
         \A i \in 0..Size - 1 : i # HeadOf(r) => s.buf[i] = r.buf[i]
  PROVE  Contents(s) = Contents(r)
<1>1. Count(s) = Count(r) /\ \A i \in 1..Count(r) : Place(s, i) = Place(r, i)
  BY DEF Count, Place
<1>2. \A i \in 1..Count(r) : s.buf[Place(r, i)] = r.buf[Place(r, i)]
  BY RingFacts
<1>3. Contents(r) = [i \in 1..Count(r) |-> r.buf[Place(r, i)]]
  BY RingFacts
<1>4. Contents(s) = [i \in 1..Count(s) |-> s.buf[Place(s, i)]]
  BY RingFacts
<1> QED BY <1>1, <1>2, <1>3, <1>4

\* ring_buffer_put.
LEMMA PutContents ==
  ASSUME NEW r, r.head \in 0..Size, r.tail \in 0..Size, Count(r) < Size - 1,
         NEW s, s.head \in 0..Size, s.tail \in 0..Size,
         HeadOf(s) = Wrapped(HeadOf(r) + 1), TailOf(s) = TailOf(r),
         \A i \in 0..Size - 1 : i # HeadOf(r) => s.buf[i] = r.buf[i]
  PROVE  /\ Count(s) = Count(r) + 1
         /\ Contents(s) = Append(Contents(r), s.buf[HeadOf(r)])
<1>1. /\ HeadOf(r) \in 0..Size - 1 /\ TailOf(r) \in 0..Size - 1
      /\ Count(r) \in 0..Size - 1
      /\ \A i \in 1..Count(r) : Place(r, i) \in 0..Size - 1 /\ Place(r, i) # HeadOf(r)
      /\ Contents(r) = [i \in 1..Count(r) |-> r.buf[Place(r, i)]]
      /\ Len(Contents(r)) = Count(r)
  BY RingFacts
<1>2. Count(s) = Count(r) + 1
  <2>1. CASE HeadOf(r) + 1 = Size
    BY <1>1, <2>1, RingSize DEF Count, Wrapped
  <2>2. CASE HeadOf(r) + 1 # Size
    <3>1. HeadOf(s) = HeadOf(r) + 1
      BY <2>2 DEF Wrapped
    <3>2. HeadOf(r) + 1 # TailOf(r)
      BY <1>1, RingSize DEF Count
    <3>3. HeadOf(r) \in 0..Size - 1 /\ TailOf(r) \in 0..Size - 1 /\ TailOf(s) = TailOf(r)
      BY <1>1
    <3> QED BY <3>1, <3>2, <3>3, RingSize DEF Count
  <2> QED BY <2>1, <2>2
<1>3. \A i \in 1..Count(r) : Place(s, i) = Place(r, i)
  BY DEF Place
<1>4. Place(s, Count(r) + 1) = HeadOf(r)
  <2>1. TailOf(s) = TailOf(r) /\ TailOf(r) + (Count(r) + 1) - 1 = TailOf(r) + Count(r)
    BY <1>1, RingSize
  <2>2. CASE HeadOf(r) >= TailOf(r)
    <3>1. TailOf(r) + Count(r) = HeadOf(r)
      BY <1>1, <2>2, RingSize DEF Count
    <3> QED BY <1>1, <2>1, <3>1, RingSize DEF Place
  <2>3. CASE ~(HeadOf(r) >= TailOf(r))
    <3>1. TailOf(r) + Count(r) = HeadOf(r) + Size
      BY <1>1, <2>3, RingSize DEF Count
    <3> QED BY <1>1, <2>1, <3>1, RingSize DEF Place
  <2> QED BY <2>2, <2>3
<1>5. Contents(s) = [i \in 1..Count(s) |-> s.buf[Place(s, i)]]
  BY RingFacts
<1>6. Append(Contents(r), s.buf[HeadOf(r)]) =
        [i \in 1..Count(r) + 1 |-> IF i = Count(r) + 1 THEN s.buf[HeadOf(r)] ELSE Contents(r)[i]]
  BY <1>1
<1>7. \A i \in 1..Count(r) + 1 :
        s.buf[Place(s, i)] = IF i = Count(r) + 1 THEN s.buf[HeadOf(r)] ELSE Contents(r)[i]
  <2> TAKE i \in 1..Count(r) + 1
  <2>1. CASE i = Count(r) + 1
    BY <1>4, <2>1
  <2>2. CASE i # Count(r) + 1
    <3>1. i \in 1..Count(r)
      BY <1>1, <2>2
    <3> QED BY <1>1, <1>3, <3>1
  <2> QED BY <2>1, <2>2
<1> QED BY <1>2, <1>5, <1>6, <1>7

\* ring_buffer_get.
LEMMA DropContents ==
  ASSUME NEW r, r.head \in 0..Size, r.tail \in 0..Size, Count(r) > 0,
         NEW s, s.head \in 0..Size, s.tail \in 0..Size,
         HeadOf(s) = HeadOf(r), TailOf(s) = Wrapped(TailOf(r) + 1),
         \A i \in 0..Size - 1 : s.buf[i] = r.buf[i]
  PROVE  /\ Count(s) = Count(r) - 1
         /\ Contents(r) # <<>> /\ Head(Contents(r)) = r.buf[TailOf(r)]
         /\ Contents(s) = Tail(Contents(r))
<1>1. /\ HeadOf(r) \in 0..Size - 1 /\ TailOf(r) \in 0..Size - 1
      /\ Count(r) \in 0..Size - 1
      /\ \A i \in 1..Count(r) : Place(r, i) \in 0..Size - 1
      /\ Contents(r) = [i \in 1..Count(r) |-> r.buf[Place(r, i)]]
      /\ Len(Contents(r)) = Count(r)
  BY RingFacts
<1>2. Count(s) = Count(r) - 1
  BY <1>1, RingSize DEF Count, Wrapped
<1>3. \A i \in 1..Count(r) - 1 : Place(s, i) = Place(r, i + 1)
  <2>1. CASE TailOf(r) + 1 = Size
    BY <1>1, <2>1, RingSize DEF Place, Count, Wrapped
  <2>2. CASE TailOf(r) + 1 # Size
    <3>1. TailOf(s) = TailOf(r) + 1
      BY <2>2 DEF Wrapped
    <3>2. TailOf(r) \in 0..Size - 1 /\ Count(r) \in 0..Size - 1
      BY <1>1
    <3> QED BY <3>1, <3>2, RingSize DEF Place
  <2> QED BY <2>1, <2>2
<1>4. Place(r, 1) = TailOf(r)
  BY <1>1, RingSize DEF Place
<1>5. Contents(s) = [i \in 1..Count(s) |-> s.buf[Place(s, i)]]
  BY RingFacts
<1>6. Tail(Contents(r)) = [i \in 1..Count(r) - 1 |-> Contents(r)[i + 1]]
  BY <1>1
<1>7. \A i \in 1..Count(r) - 1 : s.buf[Place(s, i)] = Contents(r)[i + 1]
  <2> TAKE i \in 1..Count(r) - 1
  <2>1. i + 1 \in 1..Count(r)
    BY <1>1
  <2>2. Contents(r)[i + 1] = r.buf[Place(r, i + 1)] /\ Place(r, i + 1) \in 0..Size - 1
    BY <1>1, <2>1
  <2> QED BY <1>3, <2>2
<1>8. Contents(r)[1] = r.buf[TailOf(r)]
  BY <1>1, <1>4
<1>9. Head(Contents(r)) = Contents(r)[1] /\ Contents(r) # <<>>
  BY <1>1
<1> QED BY <1>2, <1>5, <1>6, <1>7, <1>8, <1>9

-----------------------------------------------------------------------------
(* Types.                                                                  *)

\* None is no byte, and the names that the proofs tell apart.
LEMMA ByteNames ==
  /\ None \notin Keys /\ None \notin Bytes /\ Keys \subseteq Bytes
  /\ "cli" \in Writers /\ NoSem = -1
  /\ {"NL", ">", "BS", "SP", "LOG"} \subseteq Bytes
  /\ Letters \subseteq Keys
  BY ConsoleAssumption, UsartAssumption DEF Keys, Bytes, None, NoSem

\* Texts that the tasks write.
LEMMA TextTypes ==
  /\ \A s \in Texts : s \in Seq(Bytes) /\ s # <<>>
  /\ Banner \in Texts /\ LogLine \in Texts /\ <<"NL", "SP">> \in Texts
  /\ <<"BS", "SP", "BS">> \in Texts
  /\ \A c \in Letters : <<c>> \in Texts
<1>1. Banner \in Texts /\ LogLine \in Texts /\ <<"NL", "SP">> \in Texts
      /\ <<"BS", "SP", "BS">> \in Texts /\ \A c \in Letters : <<c>> \in Texts
  BY DEF Texts
<1>2. ASSUME NEW s \in Texts
      PROVE  s \in Seq(Bytes) /\ s # <<>>
  <2>1. CASE s = <<"NL", ">">>
    BY <2>1, ByteNames
  <2>2. CASE s = <<"LOG">>
    BY <2>2, ByteNames
  <2>3. CASE s = <<"NL", "SP">>
    BY <2>3, ByteNames
  <2>4. CASE s = <<"BS", "SP", "BS">>
    BY <2>4, ByteNames
  <2>5. CASE s = <<"NL", "NL", ">">>
    BY <2>5, ByteNames
  <2>6. CASE \E c \in Letters : s = <<c>>
    BY <2>6, ByteNames
  <2> QED BY <2>1, <2>2, <2>3, <2>4, <2>5, <2>6 DEF Texts, Banner, LogLine
<1> QED BY <1>1, <1>2

\* What cli_input_char prints for Enter.
LEMMA EnterText ==
  \A line :
    /\ <<"NL">> \o Output(line) \o <<">">> \in {<<"NL", ">">>, <<"NL", "NL", ">">>}
    /\ <<"NL">> \o Output(line) \o <<">">> \in Texts
<1> TAKE line
<1> DEFINE S == {"NL", ">"}
<1>1. ASSUME NEW a \in S, NEW b \in S
      PROVE  <<a>> \o <<b>> = <<a, b>>
  <2>1. <<a>> \in Seq(S) /\ <<b>> \in Seq(S) /\ <<a, b>> \in Seq(S)
        /\ Len(<<a>>) = 1 /\ Len(<<b>>) = 1 /\ Len(<<a, b>>) = 2
    OBVIOUS
  <2>2. /\ <<a>> \o <<b>> \in Seq(S) /\ Len(<<a>> \o <<b>>) = 2
        /\ \A i \in 1..2 : (<<a>> \o <<b>>)[i] = <<a, b>>[i]
    BY <2>1, ConcatProperties
  <2> QED BY <2>1, <2>2, SeqEqual
<1>2. <<"NL">> \o <<>> \o <<">">> = <<"NL", ">">>
  <2>1. <<"NL">> \in Seq(S)
    OBVIOUS
  <2>2. <<"NL">> \o <<>> = <<"NL">>
    BY <2>1, ConcatEmptySeq
  <2> QED BY <1>1, <2>2
<1>3. <<"NL">> \o <<"NL">> \o <<">">> = <<"NL", "NL", ">">>
  <2>1. <<"NL">> \o <<"NL">> = <<"NL", "NL">>
    BY <1>1
  <2>2. <<"NL", "NL">> \in Seq(S) /\ <<">">> \in Seq(S) /\ <<"NL", "NL", ">">> \in Seq(S)
        /\ Len(<<"NL", "NL">>) = 2 /\ Len(<<">">>) = 1 /\ Len(<<"NL", "NL", ">">>) = 3
    OBVIOUS
  <2>3. /\ <<"NL", "NL">> \o <<">">> \in Seq(S) /\ Len(<<"NL", "NL">> \o <<">">>) = 3
        /\ \A i \in 1..3 : (<<"NL", "NL">> \o <<">">>)[i] = <<"NL", "NL", ">">>[i]
    BY <2>2, ConcatProperties
  <2>4. <<"NL", "NL">> \o <<">">> = <<"NL", "NL", ">">>
    BY <2>2, <2>3, SeqEqual
  <2> QED BY <2>1, <2>4
<1> QED BY <1>2, <1>3 DEF Output, Texts

\* The store of usart2_putc, which the index does not count yet.
LEMMA StoreFacts ==
  ASSUME NEW r \in RingType, r.head < Size, NEW b \in Bytes \cup {None}
  PROVE  /\ [r EXCEPT !.buf[r.head] = b] \in RingType
         /\ [r EXCEPT !.buf[r.head] = b].head = r.head
         /\ [r EXCEPT !.buf[r.head] = b].tail = r.tail
         /\ [r EXCEPT !.buf[r.head] = b].buf[r.head] = b
         /\ \A i \in 0..Size - 1 : i # r.head =>
              [r EXCEPT !.buf[r.head] = b].buf[i] = r.buf[i]
  BY RingSize DEF RingType

\* ring_buffer_put in the handler.
LEMMA PutByteFacts ==
  ASSUME NEW r \in RingType, r.head < Size, NEW b \in Bytes \cup {None}
  PROVE  /\ PutByte(r, b) \in RingType
         /\ PutByte(r, b).head = Wrapped(r.head + 1)
         /\ PutByte(r, b).tail = r.tail
         /\ PutByte(r, b).buf[r.head] = b
         /\ \A i \in 0..Size - 1 : i # r.head => PutByte(r, b).buf[i] = r.buf[i]
<1> DEFINE p == [r EXCEPT !.buf[r.head] = b]
<1>1. PutByte(r, b) = [p EXCEPT !.head = Wrapped(r.head + 1)]
  BY Zenon DEF PutByte
<1>2. /\ p \in RingType /\ p.tail = r.tail /\ p.buf[r.head] = b
      /\ \A i \in 0..Size - 1 : i # r.head => p.buf[i] = r.buf[i]
  BY StoreFacts
<1>3. Wrapped(r.head + 1) \in 0..Size
  BY RingSize DEF Wrapped, RingType
<1> HIDE DEF p
<1> QED BY <1>1, <1>2, <1>3 DEF RingType

\* The tests of ring_buffer.c, while both indices are in range.
LEMMA RingTests ==
  ASSUME NEW r \in RingType, r.tail < Size
  PROVE  /\ r.head \in 0..Size /\ r.tail \in 0..Size /\ TailOf(r) = r.tail
         /\ r.head < Size => /\ HeadOf(r) = r.head
                             /\ Full(r) <=> Count(r) = Size - 1
                             /\ Empty(r) <=> Count(r) = 0
         /\ r.head = Size => HeadOf(r) = 0
  BY RingSize DEF RingType, TailOf, HeadOf, Full, Empty, Count, Wrapped

-----------------------------------------------------------------------------
(* The steps: types, control and output.                                   *)

USE DEF At, Goto

\* usart2_init.
LEMMA StartTx ==
  ASSUME TxInv, UsartStart
  PROVE  TxInv'
<1>0. Types /\ Control /\ TxWindow /\ TxBytes
  BY DEF TxInv
<1>1. CASE ClearBuffers
  <2>1. /\ pc["cli"] = "clear" /\ pc' = [pc EXCEPT !["cli"] = "create"]
        /\ tx' = [tx EXCEPT !.buf = EmptyRing.buf] /\ rx' = [rx EXCEPT !.buf = EmptyRing.buf]
        /\ UNCHANGED <<rx_sem, txeie, tdr, rdr, current, todo, data, moved,
                       cli_buffer, rebooting>>
    BY <1>1 DEF ClearBuffers, UsartStart, Rest
  <2>2. EmptyRing.buf \in [0..Size - 1 -> Bytes \cup {None}]
        /\ \A j \in 0..Size - 1 : EmptyRing.buf[j] = None
    BY DEF EmptyRing
  <2>3. /\ tx' \in RingType /\ tx'.head = tx.head /\ tx'.tail = tx.tail
        /\ rx' \in RingType /\ rx'.head = rx.head /\ rx'.tail = rx.tail
        /\ rx'.buf = EmptyRing.buf
    BY <1>0, <2>1, <2>2 DEF Types, RingType
  <2>4. /\ current = "cli" /\ rx_sem = NoSem /\ tx.head = tx.tail /\ tx.head < Size
    BY <1>0, <2>1 DEF Control
  <2>5. pc' \in [Writers -> Places] /\ pc'["cli"] = "create"
        /\ \A w \in Writers : w # "cli" => pc'[w] = pc[w]
    BY <1>0, <2>1, ByteNames DEF Types, Places
  <2>6. Types'
    BY <1>0, <2>1, <2>2, <2>3, <2>4, <2>5 DEF Types
  <2>7. Control'
    BY <1>0, <2>1, <2>3, <2>4, <2>5 DEF Control, Inside
  <2>8. TxWindow'
    BY <1>0, <2>1, <2>3, <2>4, <2>5 DEF TxWindow
  <2>9. Contents(tx') \in Seq(Bytes)
    <3>1. Count(tx') = 0
      BY <2>3, <2>4, RingTests DEF Empty
    <3>2. Contents(tx') = [j \in 1..Count(tx') |-> tx'.buf[Place(tx', j)]]
      BY <2>3, <2>4, RingTests, RingFacts
    <3>3. Contents(tx') = <<>>
      BY <3>1, <3>2
    <3> QED BY <3>3
  <2>10. TxBytes'
    BY <1>0, <2>4, <2>5, <2>9 DEF TxBytes, Control
  <2> QED BY <2>6, <2>7, <2>8, <2>10 DEF TxInv
<1>2. CASE CreateRxSem
  <2>1. /\ pc["cli"] = "create" /\ pc' = [pc EXCEPT !["cli"] = "start"] /\ rx_sem' = 0
        /\ UNCHANGED <<tx, rx, txeie, tdr, rdr, current, todo, data, moved,
                       cli_buffer, rebooting>>
    BY <1>2 DEF CreateRxSem, UsartStart, Rest
  <2>4. current = "cli" /\ tx.head = tx.tail /\ tx.head < Size
    BY <1>0, <2>1 DEF Control
  <2>5. pc' \in [Writers -> Places] /\ pc'["cli"] = "start"
        /\ \A w \in Writers : w # "cli" => pc'[w] = pc[w]
    BY <1>0, <2>1, ByteNames DEF Types, Places
  <2>6. Types'
    BY <1>0, <2>1, <2>4, <2>5, ByteNames DEF Types
  <2>7. Control'
    BY <1>0, <2>1, <2>4, <2>5, ByteNames DEF Control, Inside
  <2>8. TxWindow'
    BY <1>0, <2>1, <2>4, <2>5 DEF TxWindow
  <2>10. TxBytes'
    BY <1>0, <2>1, <2>4, <2>5 DEF TxBytes, Control
  <2> QED BY <2>6, <2>7, <2>8, <2>10 DEF TxInv
<1> QED BY <1>1, <1>2 DEF UsartStart

\* usart2_handler takes a byte only if there is one.
LEMMA HandlerTakes ==
  ASSUME TxInv, TxPending, ~Empty(tx)
  PROVE  /\ Count(tx) > 0 /\ TailOf(tx) = tx.tail
         /\ Dropped(tx) \in RingType
         /\ Dropped(tx).head = tx.head /\ Dropped(tx).tail = Wrapped(tx.tail + 1)
         /\ Dropped(tx).tail < Size /\ Dropped(tx).buf = tx.buf
         /\ Count(Dropped(tx)) = Count(tx) - 1
         /\ Contents(tx) # <<>> /\ Head(Contents(tx)) = tx.buf[tx.tail]
         /\ Contents(Dropped(tx)) = Tail(Contents(tx))
         /\ tx.buf[tx.tail] \in Bytes /\ Contents(Dropped(tx)) \in Seq(Bytes)
<1>1. /\ tx \in RingType /\ tx.tail < Size /\ tx.tail \in 0..Size /\ tx.head \in 0..Size
      /\ Contents(tx) \in Seq(Bytes)
  BY DEF TxInv, Types, TxBytes, RingType
<1>2. TailOf(tx) = tx.tail /\ Wrapped(tx.tail + 1) \in 0..Size - 1
  BY <1>1, RingSize, RingTests DEF Wrapped
<1>3. Count(tx) > 0
  <2>1. CASE tx.head < Size
    <3>1. Count(tx) # 0 /\ Count(tx) \in 0..Size - 1
      BY <1>1, <2>1, RingTests, RingFacts
    <3> QED BY <3>1, RingSize
  <2>2. CASE tx.head = Size
    <3>1. tx.tail # 0
      BY <2>2 DEF TxInv, TxWindow, TxPending
    <3>2. HeadOf(tx) = 0 /\ TailOf(tx) = tx.tail
      BY <1>1, <2>2, RingTests
    <3> QED BY <1>1, <3>1, <3>2, RingSize DEF Count
  <2> QED BY <1>1, <2>1, <2>2, RingSize
<1> DEFINE s == Dropped(tx)
<1>4. s \in RingType /\ s.head = tx.head /\ s.tail = Wrapped(tx.tail + 1) /\ s.buf = tx.buf
  BY <1>1, <1>2, RingSize DEF Dropped, RingType
<1>5. s.tail < Size /\ s.tail \in 0..Size /\ s.head \in 0..Size
  BY <1>1, <1>2, <1>4, RingSize
<1>6. HeadOf(s) = HeadOf(tx) /\ TailOf(s) = Wrapped(TailOf(tx) + 1)
  BY <1>1, <1>2, <1>4, <1>5, RingTests DEF HeadOf
<1> HIDE DEF s
<1>7. /\ Count(s) = Count(tx) - 1
      /\ Contents(tx) # <<>> /\ Head(Contents(tx)) = tx.buf[TailOf(tx)]
      /\ Contents(s) = Tail(Contents(tx))
  BY <1>1, <1>3, <1>4, <1>5, <1>6, DropContents
<1>8. Head(Contents(tx)) \in Bytes /\ Tail(Contents(tx)) \in Seq(Bytes)
  BY <1>1, <1>7
<1> QED BY <1>2, <1>3, <1>4, <1>5, <1>7, <1>8 DEF s

\* usart2_handler.
LEMMA InterruptTx ==
  ASSUME TxInv, Interrupt
  PROVE  TxInv'
<1>0. Types /\ Control /\ TxWindow /\ TxBytes
  BY DEF TxInv
<1>1. /\ HandlerTx /\ HandlerRx
      /\ UNCHANGED <<current, pc, todo, data, moved, cli_buffer, rebooting>>
  BY DEF Interrupt, Usart2Handler, Rest
<1>2. /\ rx' \in RingType /\ rx'.head < Size /\ rx'.tail = rx.tail
      /\ \A i \in 0..Size - 1 : rx'.buf[i] \in Keys \cup {None}
      /\ rdr' \in Keys \cup {None} /\ rx_sem' \in Int /\ rx_sem' >= NoSem
      /\ (rx_sem' = NoSem <=> rx_sem = NoSem)
  <2>1. CASE RxPending /\ ~Full(rx)
    <3>1. rx' = PutByte(rx, rdr) /\ rdr' = None /\ rx_sem' = Posted
      BY <1>1, <2>1 DEF HandlerRx
    <3>2. rdr \in Keys /\ rdr \in Bytes \cup {None}
      BY <1>0, <2>1, ByteNames DEF Types, RxPending
    <3>3. rx \in RingType /\ rx.head < Size /\ 0 \in 0..Size /\ rx.head \in 0..Size
      BY <1>0, RingSize DEF Types, RingType
    <3>4. /\ rx' \in RingType /\ rx'.head = Wrapped(rx.head + 1) /\ rx'.tail = rx.tail
          /\ rx'.buf[rx.head] = rdr
          /\ \A i \in 0..Size - 1 : i # rx.head => rx'.buf[i] = rx.buf[i]
      BY <3>1, <3>2, <3>3, PutByteFacts
    <3>5. rx'.head < Size
      BY <3>3, <3>4, RingSize DEF Wrapped
    <3>6. \A i \in 0..Size - 1 : rx'.buf[i] \in Keys \cup {None}
      BY <1>0, <3>2, <3>4 DEF Types
    <3>7. rx_sem' \in Int /\ rx_sem' >= NoSem /\ (rx_sem' = NoSem <=> rx_sem = NoSem)
      BY <1>0, <3>1, ByteNames DEF Types, Posted
    <3> QED BY <3>1, <3>4, <3>5, <3>6, <3>7
  <2>2. CASE ~(RxPending /\ ~Full(rx))
    BY <1>0, <1>1, <2>2 DEF HandlerRx, Types
  <2> QED BY <2>1, <2>2
<1>3. CASE ~TxPending \/ Empty(tx)
  <2>1. tx' = tx /\ tdr' = tdr /\ txeie' \in BOOLEAN /\ (txeie' => txeie)
    BY <1>0, <1>1, <1>3 DEF HandlerTx, Types
  <2>2. Types'
    BY <1>0, <1>1, <1>2, <2>1 DEF Types
  <2>3. Control'
    BY <1>0, <1>1, <1>2, <2>1 DEF Control, Inside
  <2>4. TxWindow'
    BY <1>0, <1>1, <2>1 DEF TxWindow
  <2>5. TxBytes'
    BY <1>0, <1>1, <2>1 DEF TxBytes
  <2> QED BY <2>2, <2>3, <2>4, <2>5 DEF TxInv
<1>4. CASE TxPending /\ ~Empty(tx)
  <2>1. tdr' = tx.buf[tx.tail] /\ tx' = Dropped(tx) /\ txeie' = txeie /\ tdr = None /\ txeie
    BY <1>1, <1>4 DEF HandlerTx, TxPending
  <2>2. /\ tx' \in RingType /\ tx'.head = tx.head /\ tx'.tail < Size /\ tx'.buf = tx.buf
        /\ Count(tx') = Count(tx) - 1 /\ tdr' \in Bytes /\ Contents(tx') \in Seq(Bytes)
    BY <1>4, <2>1, HandlerTakes
  <2>3. Types'
    BY <1>0, <1>1, <1>2, <2>1, <2>2 DEF Types
  <2>4. rx_sem # NoSem
    BY <1>0, <1>4 DEF Control, Empty
  <2>5. Control'
    BY <1>0, <1>1, <1>2, <2>4 DEF Control, Inside
  <2>6. tdr' # None
    BY <2>2, ByteNames
  <2>7. tx'.head = Size => "tdr" \in moved
    BY <1>0, <2>1, <2>2 DEF TxWindow, Types
  <2>8. TxWindow'
    BY <1>1, <2>6, <2>7 DEF TxWindow
  <2>9. ASSUME NEW w \in Writers, pc[w] = "advance"
        PROVE  ~Full(tx')
    <3>1. w = current /\ tx.head # Size
      BY <1>0, <2>9 DEF Control, Types
    <3>2. tx.head < Size /\ tx \in RingType /\ tx.tail < Size
      BY <1>0, <3>1, RingSize DEF Types, RingType
    <3>3. Count(tx) # Size - 1 /\ Count(tx) \in 0..Size - 1
      BY <1>0, <2>9, <3>2, RingTests, RingFacts DEF TxBytes
    <3>4. Count(tx') # Size - 1
      BY <2>2, <3>3, RingSize
    <3> QED BY <2>2, <3>2, <3>4, RingTests
  <2>10. TxBytes'
    BY <1>0, <1>1, <2>2, <2>9 DEF TxBytes
  <2> QED BY <2>3, <2>5, <2>8, <2>10 DEF TxInv
<1> QED BY <1>3, <1>4

\* The line: a byte leaves DR, or one arrives.
LEMMA LineTx ==
  ASSUME TxInv, Preemption = FALSE, Display \/ \E k \in Keys : Type(k)
  PROVE  TxInv'
<1>0. Types /\ Control /\ TxWindow /\ TxBytes
  BY DEF TxInv
<1>1. CASE Display
  <2>1. /\ tdr # None /\ tdr' = None /\ Moves("tdr")
        /\ UNCHANGED <<tx, rx, rx_sem, txeie, rdr, current, pc, todo, data,
                       cli_buffer, rebooting>>
    BY <1>1 DEF Display, Transmit
  <2>2. /\ Inside => "tdr" \notin moved /\ moved' = moved \cup {"tdr"}
        /\ ~Inside => moved' = moved
    BY <2>1 DEF Moves
  <2>3. Types'
    BY <1>0, <2>1 DEF Types
  <2>4. Control'
    BY <1>0, <2>1, <2>2 DEF Control, Inside
  <2>5. TxWindow'
    BY <1>0, <2>1, <2>2 DEF TxWindow, Types, Inside
  <2>6. TxBytes'
    BY <1>0, <2>1 DEF TxBytes
  <2> QED BY <2>3, <2>4, <2>5, <2>6 DEF TxInv
<1>2. CASE \E k \in Keys : Type(k)
  <2>1. PICK k \in Keys : Type(k)
    BY <1>2
  <2>2. /\ rdr' = k /\ Moves("rdr")
        /\ UNCHANGED <<tx, rx, rx_sem, txeie, tdr, current, pc, todo, data,
                       cli_buffer, rebooting>>
    BY <2>1 DEF Type, Receive
  <2>3. /\ Inside => moved' = moved \cup {"rdr"}
        /\ ~Inside => moved' = moved
    BY <2>2 DEF Moves
  <2>4. Types'
    BY <1>0, <2>2 DEF Types
  <2>5. Control'
    BY <1>0, <2>2, <2>3 DEF Control, Inside
  <2>6. TxWindow'
    BY <1>0, <2>2, <2>3 DEF TxWindow, Types, Inside
  <2>7. TxBytes'
    BY <1>0, <2>2 DEF TxBytes
  <2> QED BY <2>4, <2>5, <2>6, <2>7 DEF TxInv
<1> QED BY <1>1, <1>2

\* The bytes in the transmit ring while usart2_putc stores, counts and wraps.
LEMMA PutcContents ==
  ASSUME TxInv, NEW w \in Writers
  PROVE  /\ PutcStore(w) => /\ tx' \in RingType /\ tx'.head = tx.head /\ tx'.tail = tx.tail
                            /\ tx.head < Size /\ tx'.buf[tx.head] = Head(todo[w])
                            /\ Contents(tx') = Contents(tx)
         /\ PutcAdvance(w) => /\ tx' \in RingType /\ tx.head < Size
                              /\ tx'.head = tx.head + 1 /\ tx'.tail = tx.tail
                              /\ tx.head + 1 = Size => tx.tail # 0
                              /\ Contents(tx') = Append(Contents(tx), Head(todo[w]))
         /\ PutcWrap(w) => /\ tx' \in RingType /\ tx'.head = Wrapped(tx.head)
                           /\ tx'.head < Size /\ tx'.tail = tx.tail
                           /\ Contents(tx') = Contents(tx)
<1>0. /\ tx \in RingType /\ tx.tail < Size /\ tx.head \in 0..Size /\ tx.tail \in 0..Size
      /\ todo[w] \in Seq(Bytes) /\ TailOf(tx) = tx.tail
      /\ current \in Writers /\ (tx.head = Size => pc[current] = "wrap")
      /\ (tx.head < Size => HeadOf(tx) = tx.head)
  BY RingTests DEF TxInv, Types, RingType
<1>1. ASSUME PutcStore(w)
      PROVE  /\ tx' \in RingType /\ tx'.head = tx.head /\ tx'.tail = tx.tail
             /\ tx.head < Size /\ tx'.buf[tx.head] = Head(todo[w])
             /\ Contents(tx') = Contents(tx)
  <2>1. tx' = [tx EXCEPT !.buf[tx.head] = Head(todo[w])] /\ todo[w] # <<>> /\ pc[current] = "idle"
    BY <1>1 DEF PutcStore
  <2>2. tx.head < Size /\ Head(todo[w]) \in Bytes \cup {None}
    BY <1>0, <2>1, RingSize
  <2>3. /\ tx' \in RingType /\ tx'.head = tx.head /\ tx'.tail = tx.tail
        /\ tx'.buf[tx.head] = Head(todo[w])
        /\ \A j \in 0..Size - 1 : j # tx.head => tx'.buf[j] = tx.buf[j]
    <3> DEFINE b == Head(todo[w])
    <3>1. tx \in RingType /\ tx.head < Size /\ b \in Bytes \cup {None}
          /\ tx' = [tx EXCEPT !.buf[tx.head] = b]
      BY <1>0, <2>1, <2>2
    <3> HIDE DEF b
    <3>2. /\ tx' \in RingType /\ tx'.head = tx.head /\ tx'.tail = tx.tail
          /\ tx'.buf[tx.head] = b
          /\ \A j \in 0..Size - 1 : j # tx.head => tx'.buf[j] = tx.buf[j]
      BY <3>1, StoreFacts
    <3> QED BY <3>2 DEF b
  <2>4. HeadOf(tx') = HeadOf(tx) /\ TailOf(tx') = TailOf(tx) /\ HeadOf(tx) = tx.head
    BY <1>0, <2>2, <2>3 DEF HeadOf, TailOf
  <2>5. Contents(tx') = Contents(tx)
    BY <1>0, <2>3, <2>4, SameContents
  <2> QED BY <2>2, <2>3, <2>5
<1>2. ASSUME PutcAdvance(w)
      PROVE  /\ tx' \in RingType /\ tx.head < Size
             /\ tx'.head = tx.head + 1 /\ tx'.tail = tx.tail
             /\ tx.head + 1 = Size => tx.tail # 0
             /\ Contents(tx') = Append(Contents(tx), Head(todo[w]))
  <2>1. tx' = [tx EXCEPT !.head = tx.head + 1] /\ pc[w] = "advance" /\ current = w
    BY <1>2 DEF PutcAdvance
  <2>2. tx.head < Size /\ tx.buf[tx.head] = Head(todo[w]) /\ ~Full(tx)
    BY <1>0, <2>1, RingSize DEF TxInv, TxBytes
  <2>9. tx.head + 1 \in 0..Size
    BY <1>0, <2>2, RingSize
  <2>3. tx' \in RingType /\ tx'.head = tx.head + 1 /\ tx'.tail = tx.tail /\ tx'.buf = tx.buf
    BY <1>0, <2>1, <2>9 DEF RingType
  <2>4. tx.head + 1 = Size => tx.tail # 0
    BY <2>2 DEF Full, Wrapped
  <2>5. Count(tx) \in 0..Size - 1 /\ Count(tx) # Size - 1
    BY <1>0, <2>2, RingTests, RingFacts
  <2>6. HeadOf(tx') = Wrapped(HeadOf(tx) + 1) /\ TailOf(tx') = TailOf(tx)
        /\ tx'.head \in 0..Size /\ tx'.tail \in 0..Size /\ HeadOf(tx) = tx.head
    BY <1>0, <2>2, <2>3, RingSize DEF HeadOf, TailOf
  <2>7. Count(tx) < Size - 1
    BY <2>5, RingSize
  <2>8. Contents(tx') = Append(Contents(tx), tx'.buf[HeadOf(tx)])
    BY <1>0, <2>3, <2>6, <2>7, PutContents
  <2> QED BY <2>2, <2>3, <2>4, <2>6, <2>8
<1>3. ASSUME PutcWrap(w)
      PROVE  /\ tx' \in RingType /\ tx'.head = Wrapped(tx.head)
             /\ tx'.head < Size /\ tx'.tail = tx.tail
             /\ Contents(tx') = Contents(tx)
  <2>1. tx' = [tx EXCEPT !.head = Wrapped(tx.head)]
    BY <1>3 DEF PutcWrap
  <2>2. Wrapped(tx.head) \in 0..Size - 1 /\ Wrapped(tx.head) \in 0..Size
    BY <1>0, RingSize DEF Wrapped
  <2>3. tx' \in RingType /\ tx'.head = Wrapped(tx.head) /\ tx'.tail = tx.tail /\ tx'.buf = tx.buf
    BY <1>0, <2>1, <2>2 DEF RingType
  <2>4. HeadOf(tx') = HeadOf(tx) /\ TailOf(tx') = TailOf(tx)
        /\ tx'.head \in 0..Size /\ tx'.tail \in 0..Size /\ tx'.head < Size
    BY <1>0, <2>2, <2>3, RingSize DEF HeadOf, TailOf, Wrapped
  <2>5. Contents(tx') = Contents(tx)
    BY <1>0, <2>3, <2>4, SameContents
  <2> QED BY <2>3, <2>4, <2>5
<1> QED BY <1>1, <1>2, <1>3

\* usart2_putc.
LEMMA PutcTx ==
  ASSUME TxInv, NEW w \in Writers, Putc(w), Rest
  PROVE  TxInv'
<1>0. Types /\ Control /\ TxWindow /\ TxBytes
  BY DEF TxInv
<1>1. UNCHANGED <<cli_buffer, rebooting>>
  BY DEF Rest
<1>2. /\ current = w /\ tx \in RingType /\ tx.tail < Size /\ pc \in [Writers -> Places]
      /\ todo \in [Writers -> Seq(Bytes)] /\ Contents(tx) \in Seq(Bytes)
      /\ Places = {"clear", "create", "start", "idle", "advance", "wrap", "enable",
                   "load", "drop", "return"}
      /\ "cli" \in Writers /\ Size \in Nat
  BY <1>0, ByteNames, RingSize DEF Putc, PutcStore, PutcAdvance, PutcWrap, PutcEnable,
     Types, TxBytes, Places
<1>3. CASE PutcStore(w)
  <2>1. /\ pc[w] = "idle" /\ todo[w] # <<>> /\ ~Full(tx)
        /\ pc' = [pc EXCEPT ![w] = "advance"] /\ tdr' = tdr
        /\ UNCHANGED <<rx, rx_sem, txeie, tdr, rdr, current, todo, data, moved>>
    BY <1>3 DEF PutcStore
  <2>2. /\ tx' \in RingType /\ tx'.head = tx.head /\ tx'.tail = tx.tail
        /\ tx.head < Size /\ tx'.buf[tx.head] = Head(todo[w])
        /\ Contents(tx') = Contents(tx)
    BY <1>3, PutcContents
  <2>3. pc' \in [Writers -> Places] /\ pc'[w] = "advance"
        /\ \A v \in Writers : v # w => pc'[v] = pc[v]
    BY <1>2, <2>1
  <2>4. Types'
    BY <1>0, <1>1, <1>2, <2>1, <2>2, <2>3 DEF Types
  <2>5. Control'
    BY <1>0, <1>2, <2>1, <2>2, <2>3 DEF Control, Inside
  <2>6. TxWindow'
    BY <1>2, <2>1, <2>2, <2>3 DEF TxWindow
  <2>7. ~Full(tx')
    BY <2>1, <2>2 DEF Full
  <2>8. TxBytes'
    BY <1>0, <1>2, <2>1, <2>2, <2>3, <2>7 DEF TxBytes, Control
  <2> QED BY <2>4, <2>5, <2>6, <2>8 DEF TxInv
<1>4. CASE PutcAdvance(w)
  <2>1. /\ pc[w] = "advance" /\ ~IrqPending
        /\ pc' = [pc EXCEPT ![w] = "wrap"] /\ todo' = [todo EXCEPT ![w] = Tail(@)]
        /\ UNCHANGED <<rx, rx_sem, txeie, tdr, rdr, current, data, moved>>
    BY <1>4 DEF PutcAdvance
  <2>2. /\ tx' \in RingType /\ tx.head < Size
        /\ tx'.head = tx.head + 1 /\ tx'.tail = tx.tail
        /\ tx.head + 1 = Size => tx.tail # 0
        /\ Contents(tx') = Append(Contents(tx), Head(todo[w]))
    BY <1>4, PutcContents
  <2>3. pc' \in [Writers -> Places] /\ pc'[w] = "wrap"
        /\ \A v \in Writers : v # w => pc'[v] = pc[v]
    BY <1>2, <2>1
  <2>4. todo[w] # <<>> /\ todo[w] \in Seq(Bytes)
    BY <1>0, <1>2, <2>1 DEF TxBytes
  <2>5. Tail(todo[w]) \in Seq(Bytes) /\ Head(todo[w]) \in Bytes
    BY <2>4
  <2>6. todo' \in [Writers -> Seq(Bytes)] /\ \A v \in Writers : v # w => todo'[v] = todo[v]
    BY <1>2, <2>1, <2>5
  <2>7. Types'
    BY <1>0, <1>1, <1>2, <2>1, <2>2, <2>3, <2>6 DEF Types
  <2>8. Control'
    BY <1>0, <1>2, <2>1, <2>2, <2>3, <2>6 DEF Control, Inside
  <2>9. TxWindow'
    BY <1>2, <2>1, <2>2, <2>3 DEF TxWindow, IrqPending, TxPending
  <2>10. TxBytes'
    <3>1. Contents(tx') \in Seq(Bytes)
      BY <1>0, <2>2, <2>5 DEF TxBytes
    <3>2. \A v \in Writers : pc'[v] # "advance"
      BY <1>0, <1>2, <2>3 DEF Control
    <3> QED BY <3>1, <3>2 DEF TxBytes
  <2> QED BY <2>7, <2>8, <2>9, <2>10 DEF TxInv
<1>5. CASE PutcWrap(w)
  <2>1. /\ pc[w] = "wrap"
        /\ pc' = [pc EXCEPT ![w] = "enable"] /\ moved' = {}
        /\ UNCHANGED <<rx, rx_sem, txeie, tdr, rdr, current, todo, data>>
    BY <1>5 DEF PutcWrap
  <2>2. /\ tx' \in RingType /\ tx'.head < Size /\ tx'.tail = tx.tail
        /\ Contents(tx') = Contents(tx)
    BY <1>5, PutcContents
  <2>3. pc' \in [Writers -> Places] /\ pc'[w] = "enable"
        /\ \A v \in Writers : v # w => pc'[v] = pc[v]
    BY <1>2, <2>1
  <2>4. Types'
    BY <1>0, <1>1, <1>2, <2>1, <2>2, <2>3 DEF Types
  <2>5. Control'
    BY <1>0, <1>2, <2>1, <2>2, <2>3 DEF Control, Inside
  <2>6. TxWindow'
    BY <1>2, <2>1, <2>2, <2>3 DEF TxWindow
  <2>7. TxBytes'
    BY <1>0, <1>2, <2>1, <2>2, <2>3 DEF TxBytes, Control
  <2> QED BY <2>4, <2>5, <2>6, <2>7 DEF TxInv
<1>6. CASE PutcEnable(w)
  <2>1. /\ pc[w] = "enable"
        /\ pc' = [pc EXCEPT ![w] = "idle"] /\ txeie' = TRUE
        /\ UNCHANGED <<tx, rx, rx_sem, tdr, rdr, current, todo, data, moved>>
    BY <1>6 DEF PutcEnable
  <2>2. pc' \in [Writers -> Places] /\ pc'[w] = "idle"
        /\ \A v \in Writers : v # w => pc'[v] = pc[v]
    BY <1>2, <2>1
  <2>3. tx.head # Size
    BY <1>0, <1>2, <2>1 DEF Types
  <2>4. Types'
    BY <1>0, <1>1, <1>2, <2>1, <2>2, <2>3 DEF Types
  <2>5. Control'
    BY <1>0, <1>2, <2>1, <2>2 DEF Control, Inside
  <2>6. TxWindow'
    BY <1>2, <2>1, <2>2, <2>3 DEF TxWindow
  <2>7. TxBytes'
    BY <1>0, <1>2, <2>1, <2>2 DEF TxBytes, Control
  <2> QED BY <2>4, <2>5, <2>6, <2>7 DEF TxInv
<1> QED BY <1>3, <1>4, <1>5, <1>6 DEF Putc

\* usart2_getc_blocking.
LEMMA GetcTx ==
  ASSUME TxInv, Getc, Rest
  PROVE  TxInv'
<1>0. Types /\ Control /\ TxWindow /\ TxBytes
  BY DEF TxInv
<1>1. /\ current = "cli" /\ todo["cli"] = <<>> /\ pc["cli"] \in {"idle", "load", "drop"}
      /\ UNCHANGED <<tx, txeie, tdr, rdr, current, todo, moved, cli_buffer, rebooting>>
  BY <1>0 DEF Getc, GetcWait, GetcLoad, GetcAdvance, Rest, Control
<1>2. /\ pc' \in [Writers -> Places] /\ pc'["cli"] \in {"load", "drop", "return"}
      /\ \A w \in Writers : w # "cli" => pc'[w] = pc[w]
      /\ pc'["cli"] = "return" => pc["cli"] = "drop"
      /\ pc["cli"] = "drop" => pc'["cli"] = "return"
  BY <1>0, ByteNames DEF Getc, GetcWait, GetcLoad, GetcAdvance, Types, Places
<1>3. rx.tail \in 0..Size - 1 /\ rx \in RingType /\ rx.tail + 1 \in 0..Size /\ tx.head # Size
  <2>1. /\ rx \in RingType /\ rx.tail \in 0..Size
        /\ rx.tail = Size => pc["cli"] = "return"
        /\ tx.head = Size => pc[current] = "wrap"
    BY <1>0 DEF Types, RingType
  <2>2. rx.tail # Size /\ tx.head # Size
    BY <1>1, <2>1
  <2> QED BY <2>1, <2>2, RingSize
<1>4. /\ rx' \in RingType /\ rx'.head = rx.head /\ rx'.buf = rx.buf
      /\ rx'.tail = Size => pc'["cli"] = "return"
  <2>1. CASE GetcAdvance
    <3>1. rx' = [rx EXCEPT !.tail = rx.tail + 1] /\ pc'["cli"] = "return"
      BY <1>2, <2>1 DEF GetcAdvance
    <3> QED BY <1>3, <3>1 DEF RingType
  <2>2. CASE GetcWait \/ GetcLoad
    <3>1. rx' = rx
      BY <2>2 DEF GetcWait, GetcLoad
    <3> QED BY <1>3, <3>1, RingSize
  <2> QED BY <2>1, <2>2 DEF Getc
<1>5. data' \in Keys \cup {None}
  BY <1>0, <1>3 DEF Getc, GetcWait, GetcLoad, GetcAdvance, Types
<1>6. rx_sem' \in Int /\ rx_sem' >= NoSem /\ rx_sem # NoSem /\ rx_sem' # NoSem
  BY <1>0, <1>1, ByteNames DEF Getc, GetcWait, GetcLoad, GetcAdvance, Types, Control
<1>7. Types'
  BY <1>0, <1>1, <1>2, <1>3, <1>4, <1>5, <1>6 DEF Types
<1>8. Control'
  BY <1>0, <1>1, <1>2, <1>6 DEF Control, Inside
<1>9. TxWindow'
  BY <1>0, <1>1, <1>2, <1>3 DEF TxWindow
<1>10. TxBytes'
  BY <1>0, <1>1, <1>2 DEF TxBytes
<1> QED BY <1>7, <1>8, <1>9, <1>10 DEF TxInv

\* What cli_input_char does with the line, and what it prints.
LEMMA CliText ==
  ASSUME TxInv, CliEnter \/ CliBackspace \/ CliLetter
  PROVE  /\ cli_buffer' \in Seq(Letters) /\ Len(cli_buffer') <= LineMax
         /\ rebooting' \in BOOLEAN
         /\ \/ todo' = todo
            \/ \E str \in Texts : todo' = [todo EXCEPT !["cli"] = str]
<1>0. /\ cli_buffer \in Seq(Letters) /\ Len(cli_buffer) <= LineMax /\ rebooting \in BOOLEAN
      /\ LineMax \in Nat /\ Len(cli_buffer) \in Nat
  BY ConsoleAssumption DEF TxInv, Types
<1>1. CASE CliEnter
  <2>1. CASE cli_buffer = RebootLine
    BY <1>0, <1>1, <2>1, TextTypes DEF CliEnter, Write
  <2>2. CASE cli_buffer # RebootLine
    <3>1. /\ todo' = [todo EXCEPT !["cli"] = <<"NL">> \o Output(cli_buffer) \o <<">">>]
          /\ cli_buffer' = <<>> /\ rebooting' = rebooting
      BY <1>1, <2>2 DEF CliEnter, Write
    <3>2. <<"NL">> \o Output(cli_buffer) \o <<">">> \in Texts
      BY EnterText
    <3>3. \E str \in Texts : todo' = [todo EXCEPT !["cli"] = str]
      BY <3>1, <3>2, Zenon
    <3>4. cli_buffer' \in Seq(Letters) /\ Len(cli_buffer') <= LineMax /\ rebooting' \in BOOLEAN
      BY <1>0, <3>1
    <3> QED BY <3>3, <3>4, Zenon
  <2> QED BY <2>1, <2>2
<1>2. CASE CliBackspace
  <2>1. CASE cli_buffer # <<>>
    <3>1. /\ cli_buffer' = SubSeq(cli_buffer, 1, Len(cli_buffer) - 1)
          /\ todo' = [todo EXCEPT !["cli"] = <<"BS", "SP", "BS">>] /\ rebooting' = rebooting
      BY <1>2, <2>1 DEF CliBackspace, Write
    <3>2. Len(cli_buffer) >= 1
      BY <1>0, <2>1
    <3> DEFINE n == Len(cli_buffer) - 1
               s == SubSeq(cli_buffer, 1, n)
    <3>3. s \in Seq(Letters) /\ Len(s) = n
      <4>1. 1 \in Int /\ n \in Nat /\ \A i \in 1..n : cli_buffer[i] \in Letters
        BY <1>0, <3>2
      <4> HIDE DEF n
      <4>2. s \in Seq(Letters) /\ Len(s) = IF 1 <= n THEN n - 1 + 1 ELSE 0
        BY <4>1, SubSeqProperties
      <4> HIDE DEF s
      <4> QED BY <4>1, <4>2
    <3>4. cli_buffer' \in Seq(Letters) /\ Len(cli_buffer') <= LineMax /\ rebooting' \in BOOLEAN
      BY <1>0, <3>1, <3>3
    <3>5. \E str \in Texts : todo' = [todo EXCEPT !["cli"] = str]
      BY <3>1, TextTypes, Zenon
    <3> QED BY <3>4, <3>5, Zenon
  <2>2. CASE cli_buffer = <<>>
    BY <1>0, <1>2, <2>2 DEF CliBackspace
  <2> QED BY <2>1, <2>2
<1>3. CASE CliLetter
  <2>1. CASE Len(cli_buffer) < LineMax
    <3>1. /\ cli_buffer' = Append(cli_buffer, data) /\ data \in Letters
          /\ todo' = [todo EXCEPT !["cli"] = <<data>>] /\ rebooting' = rebooting
      BY <1>3, <2>1 DEF CliLetter, Write
    <3>2. Append(cli_buffer, data) \in Seq(Letters)
          /\ Len(Append(cli_buffer, data)) = Len(cli_buffer) + 1
      BY <1>0, <3>1
    <3>3. cli_buffer' \in Seq(Letters) /\ Len(cli_buffer') <= LineMax /\ rebooting' \in BOOLEAN
      BY <1>0, <2>1, <3>1, <3>2
    <3>4. \E str \in Texts : todo' = [todo EXCEPT !["cli"] = str]
      BY <3>1, TextTypes, Zenon
    <3> QED BY <3>3, <3>4, Zenon
  <2>2. CASE ~(Len(cli_buffer) < LineMax)
    BY <1>0, <1>3, <2>2 DEF CliLetter
  <2> QED BY <2>1, <2>2
<1> QED BY <1>1, <1>2, <1>3

\* The text that a task writes next.
LEMMA TodoTypes ==
  ASSUME todo \in [Writers -> Seq(Bytes)], NEW w \in Writers, NEW str \in Texts,
         todo' = [todo EXCEPT ![w] = str]
  PROVE  /\ todo' \in [Writers -> Seq(Bytes)] /\ todo'[w] = str
         /\ \A v \in Writers : v # w => todo'[v] = todo[v]
<1>1. str \in Seq(Bytes)
  BY TextTypes
<1> QED BY <1>1

\* The return from usart2_getc_blocking and cli_input_char.
LEMMA CliInputTx ==
  ASSUME TxInv, CliInput
  PROVE  TxInv'
<1>0. Types /\ Control /\ TxWindow /\ TxBytes
  BY DEF TxInv
<1>1. /\ current = "cli" /\ pc["cli"] = "return" /\ pc' = [pc EXCEPT !["cli"] = "idle"]
      /\ rx' = [rx EXCEPT !.tail = Wrapped(rx.tail)] /\ moved' = {} /\ data' = None
      /\ UNCHANGED <<tx, rx_sem, txeie, tdr, rdr, current>>
  BY DEF CliInput, GetcWrap
<1>2. /\ cli_buffer' \in Seq(Letters) /\ Len(cli_buffer') <= LineMax
      /\ rebooting' \in BOOLEAN
      /\ \/ todo' = todo
         \/ \E str \in Texts : todo' = [todo EXCEPT !["cli"] = str]
  BY CliText DEF CliInput
<1>3. todo' \in [Writers -> Seq(Bytes)] /\ \A v \in Writers : v # "cli" => todo'[v] = todo[v]
  BY <1>0, <1>2, TodoTypes, ByteNames DEF Types
<1>4. /\ pc' \in [Writers -> Places] /\ pc'["cli"] = "idle"
      /\ \A w \in Writers : w # "cli" => pc'[w] = pc[w]
  BY <1>0, <1>1, ByteNames DEF Types, Places
<1>5. Wrapped(rx.tail) \in 0..Size /\ Wrapped(rx.tail) # Size /\ rx \in RingType
  BY <1>0, RingSize DEF Types, RingType, Wrapped
<1>6. rx' \in RingType /\ rx'.tail # Size /\ rx'.head = rx.head /\ rx'.buf = rx.buf
  BY <1>1, <1>5 DEF RingType
<1>7. tx.head # Size /\ rx_sem # NoSem
  BY <1>0, <1>1 DEF Types, Control
<1>8. Types'
  BY <1>0, <1>1, <1>2, <1>3, <1>4, <1>6, <1>7 DEF Types
<1>9. Control'
  BY <1>0, <1>1, <1>3, <1>4, <1>7 DEF Control, Inside
<1>10. TxWindow'
  BY <1>0, <1>1, <1>4, <1>7 DEF TxWindow
<1>11. TxBytes'
  BY <1>0, <1>1, <1>3, <1>4 DEF TxBytes
<1> QED BY <1>8, <1>9, <1>10, <1>11 DEF TxInv

\* The start of cli_task.
LEMMA CliStartTx ==
  ASSUME TxInv, CliStart
  PROVE  TxInv'
<1>0. Types /\ Control /\ TxWindow /\ TxBytes
  BY DEF TxInv
<1>1. /\ current = "cli" /\ pc["cli"] = "start" /\ pc' = [pc EXCEPT !["cli"] = "idle"]
      /\ todo' = [todo EXCEPT !["cli"] = Banner]
      /\ UNCHANGED <<tx, rx, rx_sem, txeie, tdr, rdr, current, data, moved,
                     cli_buffer, rebooting>>
  BY DEF CliStart, Write
<1>2. todo' \in [Writers -> Seq(Bytes)] /\ \A v \in Writers : v # "cli" => todo'[v] = todo[v]
  BY <1>0, <1>1, TodoTypes, TextTypes, ByteNames DEF Types
<1>3. /\ pc' \in [Writers -> Places] /\ pc'["cli"] = "idle"
      /\ \A w \in Writers : w # "cli" => pc'[w] = pc[w]
  BY <1>0, <1>1, ByteNames DEF Types, Places
<1>4. Types'
  BY <1>0, <1>1, <1>2, <1>3 DEF Types
<1>5. Control'
  BY <1>0, <1>1, <1>2, <1>3 DEF Control, Inside
<1>6. TxWindow'
  BY <1>0, <1>1, <1>3 DEF TxWindow
<1>7. TxBytes'
  BY <1>0, <1>1, <1>2, <1>3 DEF TxBytes
<1> QED BY <1>4, <1>5, <1>6, <1>7 DEF TxInv

\* The rings and the tasks after a reset.
LEMMA ResetFacts ==
  /\ EmptyRing \in RingType /\ EmptyRing.head = 0 /\ EmptyRing.tail = 0
  /\ \A i \in 0..Size - 1 : EmptyRing.buf[i] = None
  /\ Contents(EmptyRing) = <<>>
  /\ [w \in Writers |-> IF w = "cli" THEN "clear" ELSE "idle"] \in [Writers -> Places]
  /\ [w \in Writers |-> <<>>] \in [Writers -> Seq(Bytes)]
<1>1. EmptyRing \in RingType /\ EmptyRing.head = 0 /\ EmptyRing.tail = 0
      /\ \A i \in 0..Size - 1 : EmptyRing.buf[i] = None
  BY RingSize DEF EmptyRing, RingType
<1>2. Contents(EmptyRing) = <<>>
  <2> DEFINE r == EmptyRing
  <2>1. r.head \in 0..Size /\ r.tail \in 0..Size /\ HeadOf(r) = 0 /\ TailOf(r) = 0
    BY <1>1, RingSize DEF HeadOf, TailOf, Wrapped
  <2> HIDE DEF r
  <2>2. Count(r) = 0
    BY <2>1 DEF Count
  <2>3. Contents(r) = [i \in 1..Count(r) |-> r.buf[Place(r, i)]]
    BY <2>1, RingFacts
  <2>4. Contents(r) = <<>>
    BY <2>2, <2>3
  <2> QED BY <2>4 DEF r
<1>3. [w \in Writers |-> IF w = "cli" THEN "clear" ELSE "idle"] \in [Writers -> Places]
  BY DEF Places
<1>4. [w \in Writers |-> <<>>] \in [Writers -> Seq(Bytes)]
  OBVIOUS
<1> QED BY <1>1, <1>2, <1>3, <1>4

\* The reset.
LEMMA RebootTx ==
  ASSUME Reboot
  PROVE  TxInv'
<1>1. /\ tx' = EmptyRing /\ rx' = EmptyRing /\ rx_sem' = NoSem /\ txeie' = FALSE
      /\ tdr' = None /\ rdr' = None /\ current' = "cli" /\ data' = None /\ moved' = {}
      /\ pc' = [w \in Writers |-> IF w = "cli" THEN "clear" ELSE "idle"]
      /\ todo' = [w \in Writers |-> <<>>] /\ cli_buffer' = <<>> /\ rebooting' = FALSE
  BY DEF Reboot, ResetState
<1>2. /\ pc' \in [Writers -> Places] /\ pc'["cli"] = "clear"
      /\ \A w \in Writers : w # "cli" => pc'[w] = "idle"
      /\ todo' \in [Writers -> Seq(Bytes)] /\ todo'["cli"] = <<>>
  BY <1>1, ResetFacts, ByteNames
<1>3. /\ tx' \in RingType /\ tx'.head = 0 /\ tx'.tail = 0 /\ Contents(tx') = <<>>
      /\ rx' \in RingType /\ rx'.head = 0 /\ rx'.tail = 0
      /\ \A i \in 0..Size - 1 : rx'.buf[i] = None
  BY <1>1, ResetFacts
<1>4. cli_buffer' \in Seq(Letters) /\ Len(cli_buffer') <= LineMax
  BY <1>1, ConsoleAssumption
<1>9. NoSem \in Int /\ NoSem >= NoSem /\ 0 < Size /\ 0 # Size
  BY RingSize, ByteNames
<1>5. Types'
  BY <1>1, <1>2, <1>3, <1>4, <1>9, ByteNames DEF Types
<1>6. Control'
  BY <1>1, <1>2, <1>3, RingSize, ByteNames DEF Control, Inside
<1>7. TxWindow'
  BY <1>1, <1>2, <1>3, RingSize, ByteNames DEF TxWindow
<1>8. TxBytes'
  BY <1>1, <1>2, <1>3, ByteNames DEF TxBytes
<1> QED BY <1>5, <1>6, <1>7, <1>8 DEF TxInv

\* Another task logs, or gets the processor.
LEMMA OtherTx ==
  ASSUME TxInv, Preemption = FALSE, NEW w \in Writers, Log(w) \/ Switch(w)
  PROVE  TxInv'
<1>0. Types /\ Control /\ TxWindow /\ TxBytes
  BY DEF TxInv
<1>1. CASE Log(w)
  <2>1. /\ w # "cli" /\ todo' = [todo EXCEPT ![w] = LogLine] /\ pc[w] = "idle"
        /\ UNCHANGED <<tx, rx, rx_sem, txeie, tdr, rdr, current, pc, data, moved,
                       cli_buffer, rebooting>>
    BY <1>1 DEF Log
  <2>2. todo' \in [Writers -> Seq(Bytes)] /\ \A v \in Writers : v # w => todo'[v] = todo[v]
    BY <1>0, <2>1, TodoTypes, TextTypes DEF Types
  <2>3. Types'
    BY <1>0, <2>1, <2>2 DEF Types
  <2>4. Control'
    BY <1>0, <2>1, <2>2, ByteNames DEF Control, Inside
  <2>5. TxWindow'
    BY <1>0, <2>1 DEF TxWindow
  <2>6. TxBytes'
    BY <1>0, <2>1, <2>2 DEF TxBytes
  <2> QED BY <2>3, <2>4, <2>5, <2>6 DEF TxInv
<1>2. CASE Switch(w)
  <2>1. /\ rx_sem # NoSem /\ pc[current] = "idle" /\ current' = w /\ w # current
        /\ UNCHANGED <<tx, rx, rx_sem, txeie, tdr, rdr, pc, todo, data, moved,
                       cli_buffer, rebooting>>
    BY <1>2 DEF Switch
  <2>2. tx.head # Size /\ pc[w] = "idle"
    BY <1>0, <2>1 DEF Types, Control
  <2>3. Types'
    BY <1>0, <2>1, <2>2 DEF Types
  <2>4. Control'
    BY <1>0, <2>1, <2>2 DEF Control, Inside
  <2>5. TxWindow'
    BY <2>1, <2>2 DEF TxWindow
  <2>6. TxBytes'
    BY <1>0, <2>1 DEF TxBytes
  <2> QED BY <2>3, <2>4, <2>5, <2>6 DEF TxInv
<1> QED BY <1>1, <1>2

\* Every step.
LEMMA StepTx ==
  ASSUME TxInv, Preemption = FALSE, [Next]_vars
  PROVE  TxInv'
<1>1. CASE UsartStart
  BY <1>1, StartTx
<1>2. CASE Interrupt
  BY <1>2, InterruptTx
<1>3. CASE Display \/ \E k \in Keys : Type(k)
  BY <1>3, LineTx
<1>4. ASSUME NEW w \in Writers, Task(w)
      PROVE  TxInv'
  <2>1. CASE Putc(w) /\ Rest
    BY <2>1, PutcTx
  <2>2. CASE Getc /\ Rest
    BY <2>2, GetcTx
  <2>3. CASE CliInput
    BY <2>3, CliInputTx
  <2>4. CASE CliStart
    BY <2>4, CliStartTx
  <2>5. CASE Reboot
    BY <2>5, RebootTx
  <2> QED BY <1>4, <2>1, <2>2, <2>3, <2>4, <2>5 DEF Task
<1>5. ASSUME NEW w \in Writers, Log(w) \/ Switch(w)
      PROVE  TxInv'
  BY <1>5, OtherTx
<1>6. CASE UNCHANGED vars
  BY <1>6 DEF vars, TxInv, Types, Control, TxWindow, TxBytes, Inside
<1> QED BY <1>1, <1>2, <1>3, <1>4, <1>5, <1>6 DEF Next

\* The initial state.
LEMMA InitTx ==
  ASSUME Init
  PROVE  TxInv
<1>1. /\ tx = EmptyRing /\ rx = EmptyRing /\ rx_sem = NoSem /\ txeie = FALSE
      /\ tdr = None /\ rdr = None /\ current = "cli" /\ data = None /\ moved = {}
      /\ pc = [w \in Writers |-> IF w = "cli" THEN "clear" ELSE "idle"]
      /\ todo = [w \in Writers |-> <<>>] /\ cli_buffer = <<>> /\ rebooting = FALSE
  BY DEF Init, UsartInit
<1>2. /\ pc \in [Writers -> Places] /\ pc["cli"] = "clear"
      /\ \A w \in Writers : w # "cli" => pc[w] = "idle"
      /\ todo \in [Writers -> Seq(Bytes)] /\ todo["cli"] = <<>>
  BY <1>1, ResetFacts, ByteNames
<1>3. /\ tx \in RingType /\ tx.head = 0 /\ tx.tail = 0 /\ Contents(tx) = <<>>
      /\ rx \in RingType /\ rx.head = 0 /\ rx.tail = 0
      /\ \A i \in 0..Size - 1 : rx.buf[i] = None
  BY <1>1, ResetFacts
<1>4. cli_buffer \in Seq(Letters) /\ Len(cli_buffer) <= LineMax
  BY <1>1, ConsoleAssumption
<1>9. NoSem \in Int /\ NoSem >= NoSem /\ 0 < Size /\ 0 # Size
  BY RingSize, ByteNames
<1>5. Types
  BY <1>1, <1>2, <1>3, <1>4, <1>9, ByteNames DEF Types
<1>6. Control
  BY <1>1, <1>2, <1>3, RingSize, ByteNames DEF Control, Inside
<1>7. TxWindow
  BY <1>1, <1>2, <1>3, RingSize, ByteNames DEF TxWindow
<1>8. TxBytes
  BY <1>1, <1>2, <1>3, ByteNames DEF TxBytes
<1> QED BY <1>5, <1>6, <1>7, <1>8 DEF TxInv

-----------------------------------------------------------------------------
(* The steps: input.                                                       *)

\* The receive ring, as far as the types and the control tell.
LEMMA RxFacts ==
  ASSUME TxInv
  PROVE  /\ rx \in RingType /\ rx.head \in 0..Size - 1 /\ rx.tail \in 0..Size
         /\ rx.head \in 0..Size /\ HeadOf(rx) = rx.head
         /\ rx.tail < Size => TailOf(rx) = rx.tail
         /\ rx.tail = Size => TailOf(rx) = 0
         /\ Count(rx) \in 0..Size - 1 /\ Len(Contents(rx)) = Count(rx)
         /\ pc["cli"] # "return" => rx.tail < Size
         /\ pc["cli"] # "idle" => current = "cli"
<1>1. /\ rx \in RingType /\ rx.head \in 0..Size - 1 /\ rx.tail \in 0..Size
      /\ rx.head \in 0..Size
  BY RingSize DEF TxInv, Types, RingType
<1>2. Count(rx) \in 0..Size - 1 /\ Len(Contents(rx)) = Count(rx)
  BY <1>1, RingFacts
<1>3. pc["cli"] # "return" => rx.tail < Size
  BY <1>1, RingSize DEF TxInv, Types
<1>4. pc["cli"] # "idle" => current = "cli"
  BY ByteNames DEF TxInv, Control
<1>5. /\ HeadOf(rx) = rx.head
      /\ rx.tail < Size => TailOf(rx) = rx.tail
      /\ rx.tail = Size => TailOf(rx) = 0
  BY <1>1, RingSize DEF HeadOf, TailOf, Wrapped
<1> QED BY <1>1, <1>2, <1>3, <1>4, <1>5

\* Steps that leave the receiver alone.
LEMMA SameRx ==
  ASSUME RxInv, UNCHANGED <<rx, rdr, data, rx_sem>>,
         \/ pc'["cli"] = pc["cli"]
         \/ {pc["cli"], pc'["cli"]} \subseteq {"start", "idle", "advance", "wrap", "enable"},
         rx.tail # Size \/ ("rdr" \in moved' <=> "rdr" \in moved)
  PROVE  RxInv'
<1>1. RxWindow'
  BY DEF RxInv, RxWindow
<1>2. RxBytes'
  BY DEF RxInv, RxBytes
<1>3. RxQuiet'
  BY DEF RxInv, RxQuiet
<1>4. UnitsMatchBytes'
  BY DEF RxInv, UnitsMatchBytes
<1> QED BY <1>1, <1>2, <1>3, <1>4 DEF RxInv

\* usart2_handler stores what has arrived behind the bytes that are there.
LEMMA HandlerPuts ==
  ASSUME CInv, HandlerRx, RxPending, ~Full(rx)
  PROVE  /\ rx' \in RingType /\ rx'.tail = rx.tail /\ rdr \in Keys /\ rdr' = None
         /\ Count(rx') = Count(rx) + 1
         /\ Contents(rx') = Append(Contents(rx), rdr)
         /\ Contents(rx') \in Seq(Keys) /\ Len(Contents(rx')) = Len(Contents(rx)) + 1
         /\ rx_sem # NoSem /\ rx_sem' = rx_sem + 1
         /\ rx.tail < Size /\ Count(rx) > 0 => rx'.buf[rx.tail] = rx.buf[rx.tail]
         /\ rx.tail = Size => "rdr" \in moved
<1>1. rx' = PutByte(rx, rdr) /\ rdr' = None /\ rx_sem' = Posted
  BY DEF HandlerRx
<1>2. rdr \in Keys /\ rdr \in Bytes \cup {None} /\ rdr # None
  BY ByteNames DEF CInv, TxInv, Types, RxPending
<1>3. /\ rx \in RingType /\ rx.head \in 0..Size - 1 /\ rx.tail \in 0..Size
      /\ rx.head \in 0..Size /\ HeadOf(rx) = rx.head
      /\ rx.tail < Size => TailOf(rx) = rx.tail
      /\ rx.tail = Size => TailOf(rx) = 0
      /\ Count(rx) \in 0..Size - 1 /\ Len(Contents(rx)) = Count(rx)
  BY RxFacts DEF CInv
<1>4. rx.head < Size
  BY <1>3, RingSize
<1>5. /\ rx' \in RingType /\ rx'.head = Wrapped(rx.head + 1) /\ rx'.tail = rx.tail
      /\ rx'.buf[rx.head] = rdr
      /\ \A i \in 0..Size - 1 : i # rx.head => rx'.buf[i] = rx.buf[i]
  BY <1>1, <1>2, <1>3, <1>4, PutByteFacts
<1>6. rx_sem # NoSem /\ rx_sem' = rx_sem + 1
  BY <1>1, <1>2 DEF CInv, RxInv, RxQuiet, Posted
<1>7. rx.tail = Size => "rdr" \in moved /\ rx.head # Size - 1
  BY <1>2 DEF CInv, RxInv, RxWindow
<1>8. Count(rx) < Size - 1
  <2>1. CASE rx.tail < Size
    <3>1. Count(rx) # Size - 1
      BY <1>3, <1>4, <2>1, RingTests
    <3> QED BY <1>3, <3>1, RingSize
  <2>2. CASE rx.tail = Size
    BY <1>3, <1>7, <2>2, RingSize DEF Count
  <2> QED BY <1>3, <2>1, <2>2, RingSize
<1>9. /\ rx'.head \in 0..Size /\ rx'.tail \in 0..Size
      /\ HeadOf(rx') = Wrapped(HeadOf(rx) + 1) /\ TailOf(rx') = TailOf(rx)
  BY <1>3, <1>5, RingSize DEF HeadOf, TailOf, Wrapped
<1>10. /\ Count(rx') = Count(rx) + 1
       /\ Contents(rx') = Append(Contents(rx), rx'.buf[HeadOf(rx)])
  BY <1>3, <1>5, <1>8, <1>9, PutContents
<1>11. Contents(rx') = Append(Contents(rx), rdr)
  BY <1>3, <1>5, <1>10
<1>12. Contents(rx) \in Seq(Keys)
  BY DEF CInv, RxInv, RxBytes
<1>13. Contents(rx') \in Seq(Keys) /\ Len(Contents(rx')) = Len(Contents(rx)) + 1
  BY <1>2, <1>11, <1>12
<1>14. rx.tail < Size /\ Count(rx) > 0 => rx'.buf[rx.tail] = rx.buf[rx.tail]
  <2>1. rx.tail < Size /\ Count(rx) > 0 => rx.head # rx.tail
    BY <1>3 DEF Count
  <2>2. rx.tail < Size => rx.tail \in 0..Size - 1
    BY <1>3, RingSize
  <2> QED BY <1>5, <2>1, <2>2
<1> QED BY <1>1, <1>2, <1>5, <1>6, <1>7, <1>10, <1>11, <1>13, <1>14

\* ring_buffer_get takes the oldest byte, which is there.
LEMMA ReaderTakes ==
  ASSUME CInv, GetcAdvance
  PROVE  /\ rx' \in RingType /\ rx'.tail = rx.tail + 1 /\ rx'.head = rx.head
         /\ Count(rx) > 0 /\ rx.tail < Size /\ Count(rx') = Count(rx) - 1
         /\ Contents(rx) # <<>> /\ data = Head(Contents(rx)) /\ data \in Keys
         /\ Contents(rx') = Tail(Contents(rx)) /\ Contents(rx') \in Seq(Keys)
         /\ Len(Contents(rx')) = Len(Contents(rx)) - 1
         /\ rx'.tail = Size => rx.head # Size - 1
         /\ rx_sem # NoSem /\ Len(Contents(rx)) = rx_sem + 1
<1>1. rx' = [rx EXCEPT !.tail = rx.tail + 1] /\ pc["cli"] = "drop"
  BY DEF GetcAdvance
<1>2. /\ rx \in RingType /\ rx.head \in 0..Size - 1 /\ rx.tail \in 0..Size
      /\ rx.head \in 0..Size /\ HeadOf(rx) = rx.head /\ rx.tail < Size
      /\ TailOf(rx) = rx.tail
      /\ Count(rx) \in 0..Size - 1 /\ Len(Contents(rx)) = Count(rx)
  BY <1>1, RxFacts DEF CInv
<1>3. rx_sem # NoSem /\ rx_sem \in Int /\ rx_sem >= NoSem /\ NoSem = -1
  BY <1>1, ByteNames DEF CInv, TxInv, Control, Types
<1>4. Len(Contents(rx)) = rx_sem + 1
  BY <1>1, <1>3 DEF CInv, RxInv, UnitsMatchBytes
<1>5. Count(rx) > 0
  BY <1>2, <1>3, <1>4
<1>6. rx.tail + 1 \in 0..Size
  BY <1>2, RingSize
<1>7. rx' \in RingType /\ rx'.tail = rx.tail + 1 /\ rx'.head = rx.head /\ rx'.buf = rx.buf
  BY <1>1, <1>2, <1>6 DEF RingType
<1>8. /\ rx'.head \in 0..Size /\ rx'.tail \in 0..Size
      /\ HeadOf(rx') = HeadOf(rx) /\ TailOf(rx') = Wrapped(TailOf(rx) + 1)
  BY <1>2, <1>6, <1>7 DEF HeadOf, TailOf
<1>9. /\ Count(rx') = Count(rx) - 1
      /\ Contents(rx) # <<>> /\ Head(Contents(rx)) = rx.buf[TailOf(rx)]
      /\ Contents(rx') = Tail(Contents(rx))
  BY <1>2, <1>5, <1>7, <1>8, DropContents
<1>10. Contents(rx) \in Seq(Keys) /\ data = rx.buf[rx.tail]
  BY <1>1 DEF CInv, RxInv, RxBytes
<1>11. data = Head(Contents(rx))
  BY <1>2, <1>9, <1>10
<1>12. /\ Head(Contents(rx)) \in Keys /\ Tail(Contents(rx)) \in Seq(Keys)
       /\ Len(Tail(Contents(rx))) = Len(Contents(rx)) - 1
  BY <1>9, <1>10
<1>13. rx'.tail = Size => rx.head # Size - 1
  BY <1>2, <1>5, <1>7, RingSize DEF Count
<1> QED BY <1>2, <1>3, <1>4, <1>5, <1>7, <1>9, <1>11, <1>12, <1>13

\* usart2_init.
LEMMA StartRx ==
  ASSUME CInv, UsartStart
  PROVE  RxInv'
<1>0. /\ rx \in RingType /\ rx.head \in 0..Size /\ rx.tail < Size /\ rdr = None
      /\ rx.head = rx.tail /\ rx_sem = NoSem /\ pc["cli"] \in {"clear", "create"}
      /\ Contents(rx) \in Seq(Keys) /\ rx.tail \in 0..Size /\ rx.head < Size
  <2>1. pc["cli"] \in {"clear", "create"}
    BY DEF UsartStart, ClearBuffers, CreateRxSem
  <2>2. rx_sem = NoSem
    BY <2>1 DEF CInv, TxInv, Control
  <2> QED BY <2>1, <2>2, RxFacts DEF CInv, RxInv, RxQuiet, RxBytes
<1>1. /\ pc' = [pc EXCEPT !["cli"] = IF pc["cli"] = "clear" THEN "create" ELSE "start"]
      /\ rx_sem' = IF pc["cli"] = "clear" THEN NoSem ELSE 0
      /\ UNCHANGED <<rdr, data, moved>>
  BY <1>0 DEF UsartStart, ClearBuffers, CreateRxSem
<1>2. pc'["cli"] \in {"create", "start"}
  BY <1>1, ByteNames DEF CInv, TxInv, Types
<1>3. rx' \in RingType /\ rx'.head = rx.head /\ rx'.tail = rx.tail
  <2>1. CASE ClearBuffers
    <3>1. rx' = [rx EXCEPT !.buf = EmptyRing.buf]
      BY <2>1 DEF ClearBuffers
    <3>2. EmptyRing.buf \in [0..Size - 1 -> Bytes \cup {None}]
      BY DEF EmptyRing
    <3> QED BY <1>0, <3>1, <3>2 DEF RingType
  <2>2. CASE CreateRxSem
    BY <1>0, <2>2 DEF CreateRxSem
  <2> QED BY <2>1, <2>2 DEF UsartStart
<1>4. Contents(rx') = <<>> /\ Len(Contents(rx')) = 0
  <2>1. Count(rx') = 0
    BY <1>0, <1>3, RingTests DEF Empty
  <2>2. Contents(rx') = [j \in 1..Count(rx') |-> rx'.buf[Place(rx', j)]]
        /\ Len(Contents(rx')) = Count(rx')
    BY <1>0, <1>3, RingTests, RingFacts
  <2> QED BY <2>1, <2>2
<1>5. RxWindow'
  BY <1>0, <1>3 DEF RxWindow
<1>6. RxBytes'
  BY <1>2, <1>4 DEF RxBytes
<1>7. RxQuiet'
  BY <1>0, <1>1, <1>3 DEF RxQuiet
<1>8. UnitsMatchBytes'
  BY <1>1, <1>2, <1>4 DEF UnitsMatchBytes
<1> QED BY <1>5, <1>6, <1>7, <1>8 DEF RxInv

\* usart2_handler.
LEMMA InterruptRx ==
  ASSUME CInv, Interrupt
  PROVE  RxInv'
<1>1. HandlerRx /\ UNCHANGED <<pc, data, moved>>
  BY DEF Interrupt, Usart2Handler
<1>2. CASE ~(RxPending /\ ~Full(rx))
  <2>1. UNCHANGED <<rx, rdr, rx_sem>>
    BY <1>1, <1>2 DEF HandlerRx
  <2> QED BY <1>1, <2>1, SameRx DEF CInv
<1>3. CASE RxPending /\ ~Full(rx)
  <2>1. /\ rx' \in RingType /\ rx'.tail = rx.tail /\ rdr' = None
        /\ Contents(rx') \in Seq(Keys) /\ Len(Contents(rx')) = Len(Contents(rx)) + 1
        /\ rx_sem # NoSem /\ rx_sem' = rx_sem + 1
        /\ rx.tail < Size /\ Count(rx) > 0 => rx'.buf[rx.tail] = rx.buf[rx.tail]
        /\ rx.tail = Size => "rdr" \in moved
    BY <1>1, <1>3, HandlerPuts
  <2>2. rx_sem \in Int /\ rx_sem >= NoSem /\ NoSem = -1
    BY ByteNames DEF CInv, TxInv, Types
  <2>3. RxWindow'
    BY <1>1, <2>1 DEF RxWindow
  <2>4. pc["cli"] = "drop" => rx.tail < Size /\ Count(rx) > 0 /\ data = rx.buf[rx.tail]
    <3> HAVE pc["cli"] = "drop"
    <3>1. rx.tail < Size /\ Len(Contents(rx)) = Count(rx)
      BY RxFacts DEF CInv
    <3>2. Len(Contents(rx)) = rx_sem + 1 /\ data = rx.buf[rx.tail]
      BY <2>1 DEF CInv, RxInv, UnitsMatchBytes, RxBytes
    <3> QED BY <2>1, <2>2, <3>1, <3>2
  <2>5. RxBytes'
    BY <1>1, <2>1, <2>4 DEF CInv, RxInv, RxBytes
  <2>6. RxQuiet'
    BY <2>1, <2>2 DEF RxQuiet
  <2>7. UnitsMatchBytes'
    BY <1>1, <2>1, <2>2 DEF CInv, RxInv, UnitsMatchBytes
  <2> QED BY <2>3, <2>5, <2>6, <2>7 DEF RxInv
<1> QED BY <1>2, <1>3

\* A byte arrives.
LEMMA TypeRx ==
  ASSUME CInv, Preemption = FALSE, EarlyBytes = FALSE, NEW k \in Keys, Type(k)
  PROVE  RxInv'
<1>1. /\ rdr = None /\ rx_sem # NoSem /\ rdr' = k /\ Moves("rdr")
      /\ UNCHANGED <<rx, rx_sem, current, pc, data>>
  BY DEF Type, Receive
<1>2. rx.tail = Size => Inside
  BY RxFacts, RingSize DEF CInv, TxInv, Types, Inside
<1>3. rx.tail = Size => "rdr" \notin moved /\ "rdr" \in moved'
  BY <1>1, <1>2 DEF Moves
<1>4. RxWindow'
  BY <1>1, <1>3 DEF CInv, RxInv, RxWindow
<1>5. RxBytes'
  BY <1>1 DEF CInv, RxInv, RxBytes
<1>6. RxQuiet'
  BY <1>1 DEF RxQuiet
<1>7. UnitsMatchBytes'
  BY <1>1 DEF CInv, RxInv, UnitsMatchBytes
<1> QED BY <1>4, <1>5, <1>6, <1>7 DEF RxInv

\* usart2_getc_blocking.
LEMMA GetcRx ==
  ASSUME CInv, Getc
  PROVE  RxInv'
<1>0. /\ pc \in [Writers -> Places] /\ "cli" \in Writers /\ rx_sem \in Int
      /\ rx_sem >= NoSem /\ NoSem = -1 /\ rdr = None
  BY ByteNames DEF CInv, TxInv, Types, Getc, GetcWait, GetcLoad, GetcAdvance,
     IrqPending, RxPending
<1>1. CASE GetcWait
  <2>1. /\ pc["cli"] = "idle" /\ rx_sem > 0 /\ rx_sem' = rx_sem - 1
        /\ UNCHANGED <<rx, rdr, data, moved>>
    BY <1>1 DEF GetcWait
  <2>2. pc'["cli"] = "load"
    BY <1>0, <1>1 DEF GetcWait
  <2>3. RxWindow'
    BY <2>1 DEF CInv, RxInv, RxWindow
  <2>4. RxBytes'
    BY <2>1, <2>2 DEF CInv, RxInv, RxBytes
  <2>5. RxQuiet'
    BY <1>0, <2>1 DEF RxQuiet
  <2>6. UnitsMatchBytes'
    BY <1>0, <2>1, <2>2 DEF CInv, RxInv, UnitsMatchBytes
  <2> QED BY <2>3, <2>4, <2>5, <2>6 DEF RxInv
<1>2. CASE GetcLoad
  <2>1. /\ pc["cli"] = "load" /\ data' = rx.buf[rx.tail]
        /\ UNCHANGED <<rx, rx_sem, rdr, moved>>
    BY <1>2 DEF GetcLoad
  <2>2. pc'["cli"] = "drop"
    BY <1>0, <1>2 DEF GetcLoad
  <2>3. RxWindow'
    BY <2>1 DEF CInv, RxInv, RxWindow
  <2>4. RxBytes'
    BY <2>1, <2>2 DEF CInv, RxInv, RxBytes
  <2>5. RxQuiet'
    BY <2>1 DEF CInv, RxInv, RxQuiet
  <2>6. UnitsMatchBytes'
    BY <2>1, <2>2 DEF CInv, RxInv, UnitsMatchBytes
  <2> QED BY <2>3, <2>4, <2>5, <2>6 DEF RxInv
<1>3. CASE GetcAdvance
  <2>1. pc["cli"] = "drop" /\ UNCHANGED <<rx_sem, rdr, data, moved>>
    BY <1>3 DEF GetcAdvance
  <2>2. pc'["cli"] = "return"
    BY <1>0, <1>3 DEF GetcAdvance
  <2>3. /\ rx'.tail = rx.tail + 1 /\ rx'.head = rx.head
        /\ data \in Keys /\ Contents(rx') \in Seq(Keys)
        /\ Len(Contents(rx')) = Len(Contents(rx)) - 1
        /\ rx'.tail = Size => rx.head # Size - 1
        /\ rx_sem # NoSem /\ Len(Contents(rx)) = rx_sem + 1
    BY <1>3, ReaderTakes
  <2>4. RxWindow'
    BY <1>0, <2>1, <2>3 DEF RxWindow
  <2>5. RxBytes'
    BY <2>1, <2>2, <2>3 DEF RxBytes
  <2>6. RxQuiet'
    BY <2>1, <2>3 DEF RxQuiet
  <2>7. UnitsMatchBytes'
    BY <1>0, <2>1, <2>2, <2>3 DEF UnitsMatchBytes
  <2> QED BY <2>4, <2>5, <2>6, <2>7 DEF RxInv
<1> QED BY <1>1, <1>2, <1>3 DEF Getc

\* The wrap of the tail moves no byte.
LEMMA ReaderWraps ==
  ASSUME CInv, CliInput
  PROVE  rx' \in RingType /\ rx'.tail < Size /\ Contents(rx') = Contents(rx)
<1>1. rx' = [rx EXCEPT !.tail = Wrapped(rx.tail)]
  BY DEF CliInput, GetcWrap
<1>2. /\ rx \in RingType /\ rx.head \in 0..Size /\ rx.tail \in 0..Size
  BY RxFacts DEF CInv
<1>3. Wrapped(rx.tail) \in 0..Size /\ Wrapped(rx.tail) < Size
  BY <1>2, RingSize DEF Wrapped
<1>4. /\ rx' \in RingType /\ rx'.head = rx.head /\ rx'.buf = rx.buf
      /\ rx'.tail = Wrapped(rx.tail)
  BY <1>1, <1>2, <1>3 DEF RingType
<1>5. /\ rx'.head \in 0..Size /\ rx'.tail \in 0..Size
      /\ HeadOf(rx') = HeadOf(rx) /\ TailOf(rx') = TailOf(rx)
  BY <1>2, <1>3, <1>4, RingSize DEF HeadOf, TailOf, Wrapped
<1>6. Contents(rx') = Contents(rx)
  BY <1>2, <1>4, <1>5, SameContents
<1> QED BY <1>3, <1>4, <1>6

\* cli_input_char, and the reset.
LEMMA CliRx ==
  ASSUME CInv, CliInput \/ Reboot
  PROVE  RxInv'
<1>1. CASE CliInput
  <2>1. /\ pc["cli"] = "return" /\ current = "cli" /\ UNCHANGED <<rx_sem, rdr>>
    BY <1>1 DEF CliInput, GetcWrap
  <2>2. pc'["cli"] = "idle"
    BY <1>1, ByteNames DEF CliInput, CInv, TxInv, Types
  <2>3. rx_sem # NoSem
    BY <2>1 DEF CInv, TxInv, Control
  <2>4. rx' \in RingType /\ rx'.tail < Size /\ Contents(rx') = Contents(rx)
    BY <1>1, ReaderWraps
  <2>5. RxWindow'
    BY <2>4, RingSize DEF RxWindow
  <2>6. RxBytes'
    BY <2>2, <2>4 DEF CInv, RxInv, RxBytes
  <2>7. RxQuiet'
    BY <2>1, <2>3 DEF RxQuiet
  <2>8. UnitsMatchBytes'
    BY <2>1, <2>2, <2>4 DEF CInv, RxInv, UnitsMatchBytes
  <2> QED BY <2>5, <2>6, <2>7, <2>8 DEF RxInv
<1>2. CASE Reboot
  <2>1. /\ rx' = EmptyRing /\ rx_sem' = NoSem /\ rdr' = None
        /\ pc' = [w \in Writers |-> IF w = "cli" THEN "clear" ELSE "idle"]
    BY <1>2 DEF Reboot, ResetState
  <2>2. pc'["cli"] = "clear"
    BY <2>1, ByteNames
  <2>3. rx'.head = 0 /\ rx'.tail = 0 /\ Contents(rx') = <<>> /\ 0 < Size /\ 0 # Size
    BY <2>1, ResetFacts, RingSize
  <2>4. RxWindow' /\ RxBytes' /\ RxQuiet' /\ UnitsMatchBytes'
    BY <2>1, <2>2, <2>3 DEF RxWindow, RxBytes, RxQuiet, UnitsMatchBytes
  <2> QED BY <2>4 DEF RxInv
<1> QED BY <1>1, <1>2

\* The steps that are about output only.
LEMMA OutputRx ==
  ASSUME CInv,
         \/ Display
         \/ \E w \in Writers : Putc(w) \/ Log(w) \/ Switch(w)
         \/ CliStart
         \/ UNCHANGED vars
  PROVE  RxInv'
<1>0. RxInv /\ TxInv /\ pc \in [Writers -> Places] /\ "cli" \in Writers
  BY ByteNames DEF CInv, TxInv, Types
<1>1. CASE Display
  <2>1. UNCHANGED <<rx, rdr, data, rx_sem, pc>> /\ ("rdr" \in moved' <=> "rdr" \in moved)
    BY <1>1 DEF Display, Transmit, Moves
  <2> QED BY <1>0, <2>1, SameRx
<1>2. ASSUME NEW w \in Writers, Putc(w)
      PROVE  RxInv'
  <2>1. UNCHANGED <<rx, rdr, data, rx_sem>> /\ current = w
        /\ pc[w] \in {"idle", "advance", "wrap", "enable"}
    BY <1>2 DEF Putc, PutcStore, PutcAdvance, PutcWrap, PutcEnable
  <2>2. \E place \in {"idle", "advance", "wrap", "enable"} : pc' = [pc EXCEPT ![w] = place]
    BY <1>2, Zenon DEF Putc, PutcStore, PutcAdvance, PutcWrap, PutcEnable
  <2>3. \/ pc'["cli"] = pc["cli"]
        \/ {pc["cli"], pc'["cli"]} \subseteq {"start", "idle", "advance", "wrap", "enable"}
    BY <1>0, <2>1, <2>2
  <2>4. rx.tail < Size
    BY <1>0, <2>1, RxFacts
  <2>5. rx.tail # Size
    BY <2>4, RingSize
  <2> QED BY <1>0, <2>1, <2>3, <2>5, SameRx
<1>3. ASSUME NEW w \in Writers, Log(w) \/ Switch(w)
      PROVE  RxInv'
  <2>1. UNCHANGED <<rx, rdr, data, rx_sem, pc, moved>>
    BY <1>3 DEF Log, Switch
  <2> QED BY <1>0, <2>1, SameRx
<1>4. CASE CliStart
  <2>1. /\ UNCHANGED <<rx, rdr, data, rx_sem, moved>>
        /\ pc["cli"] = "start" /\ pc' = [pc EXCEPT !["cli"] = "idle"]
    BY <1>4 DEF CliStart
  <2>2. {pc["cli"], pc'["cli"]} \subseteq {"start", "idle", "advance", "wrap", "enable"}
    BY <1>0, <2>1
  <2> QED BY <1>0, <2>1, <2>2, SameRx
<1>5. CASE UNCHANGED vars
  <2>1. UNCHANGED <<rx, rdr, data, rx_sem, pc, moved>>
    BY <1>5 DEF vars
  <2> QED BY <1>0, <2>1, SameRx
<1> QED BY <1>1, <1>2, <1>3, <1>4, <1>5

\* Every step.
LEMMA StepRx ==
  ASSUME CInv, Preemption = FALSE, EarlyBytes = FALSE, [Next]_vars
  PROVE  CInv'
<1>0. TxInv'
  BY StepTx DEF CInv
<1>1. ASSUME UsartStart
      PROVE  RxInv'
  BY <1>1, StartRx
<1>2. ASSUME Interrupt
      PROVE  RxInv'
  BY <1>2, InterruptRx
<1>3. ASSUME NEW k \in Keys, Type(k)
      PROVE  RxInv'
  BY <1>3, TypeRx
<1>4. ASSUME NEW w \in Writers, Task(w)
      PROVE  RxInv'
  <2>1. CASE Putc(w)
    BY <2>1, OutputRx
  <2>2. CASE Getc
    BY <2>2, GetcRx
  <2>3. CASE CliInput \/ Reboot
    BY <2>3, CliRx
  <2>4. CASE CliStart
    BY <2>4, OutputRx
  <2> QED BY <1>4, <2>1, <2>2, <2>3, <2>4 DEF Task
<1>5. ASSUME Display \/ (\E w \in Writers : Log(w) \/ Switch(w)) \/ UNCHANGED vars
      PROVE  RxInv'
  BY <1>5, OutputRx
<1>6. RxInv'
  BY <1>1, <1>2, <1>3, <1>4, <1>5 DEF Next
<1> QED BY <1>0, <1>6 DEF CInv

\* The initial state.
LEMMA InitRx ==
  ASSUME Init
  PROVE  CInv
<1>1. /\ rx = EmptyRing /\ rx_sem = NoSem /\ rdr = None
      /\ pc = [w \in Writers |-> IF w = "cli" THEN "clear" ELSE "idle"]
  BY DEF Init, UsartInit
<1>2. pc["cli"] = "clear"
  BY <1>1, ByteNames
<1>3. rx.head = 0 /\ rx.tail = 0 /\ Contents(rx) = <<>> /\ 0 < Size /\ 0 # Size
  BY <1>1, ResetFacts, RingSize
<1>4. RxWindow /\ RxBytes /\ RxQuiet /\ UnitsMatchBytes
  BY <1>1, <1>2, <1>3 DEF RxWindow, RxBytes, RxQuiet, UnitsMatchBytes
<1> QED BY <1>4, InitTx DEF RxInv, CInv

-----------------------------------------------------------------------------
(* The invariants.                                                         *)

\* The output side, whatever the host sends and whenever.
LEMMA OutputInvariant == Preemption = FALSE => (Spec => []TxInv)
<1> SUFFICES ASSUME Preemption = FALSE
             PROVE  Spec => []TxInv
  OBVIOUS
<1>1. Init => TxInv
  BY InitTx
<1>2. TxInv /\ [Next]_vars => TxInv'
  BY StepTx
<1> QED BY <1>1, <1>2, PTL DEF Spec

\* Both sides.
LEMMA ConsoleInvariant == Preemption = FALSE /\ EarlyBytes = FALSE => (Spec => []CInv)
<1> SUFFICES ASSUME Preemption = FALSE, EarlyBytes = FALSE
             PROVE  Spec => []CInv
  OBVIOUS
<1>1. Init => CInv
  BY InitRx
<1>2. CInv /\ [Next]_vars => CInv'
  BY StepRx
<1> QED BY <1>1, <1>2, PTL DEF Spec

\* What the invariant says of the properties.
LEMMA ConsoleMeaning == CInv => TypeOK /\ UnitsMatchBytes
<1> SUFFICES ASSUME CInv
             PROVE  TypeOK /\ UnitsMatchBytes
  OBVIOUS
<1>1. UnitsMatchBytes
  BY DEF CInv, RxInv
<1>2. rx_sem \in -1..Size - 1
  <2>1. Count(rx) \in 0..Size - 1 /\ Len(Contents(rx)) = Count(rx)
    BY RxFacts DEF CInv
  <2>2. rx_sem \in Int /\ rx_sem >= -1 /\ NoSem = -1
    BY ByteNames DEF CInv, TxInv, Types
  <2>3. rx_sem # NoSem => Count(rx) = rx_sem \/ Count(rx) = rx_sem + 1
    BY <1>1, <2>1, <2>2 DEF UnitsMatchBytes
  <2> QED BY <2>1, <2>2, <2>3, RingSize
<1>3. tx.head = Size => \E w \in Writers : pc[w] = "wrap"
  BY DEF CInv, TxInv, Types
<1> QED BY <1>1, <1>2, <1>3 DEF TypeOK, CInv, TxInv, Types

\* The indices of both rings stay in range but for the instant between an
\* increment and its wrap, and rx_sem counts no more than the ring holds.
THEOREM ConsoleTypes == Preemption = FALSE /\ EarlyBytes = FALSE => (Spec => []TypeOK)
  BY ConsoleInvariant, ConsoleMeaning, PTL

\* Every byte in the receive ring has its unit of rx_sem, or the reader has
\* taken it, whatever usart2_handler does between the statements of
\* usart2_getc_blocking.
THEOREM UnitsAreBytes ==
  Preemption = FALSE /\ EarlyBytes = FALSE => (Spec => []UnitsMatchBytes)
  BY ConsoleInvariant, ConsoleMeaning, PTL

-----------------------------------------------------------------------------
(* The refinement of ByteQueue.                                            *)

\* usart2_init does not change what the transmit ring holds: nothing.
LEMMA StartContents ==
  ASSUME TxInv, UsartStart
  PROVE  Contents(tx') = Contents(tx)
<1>1. CASE ClearBuffers
  <2>1. /\ rx_sem = NoSem /\ tx.head = tx.tail /\ tx.head < Size /\ tx \in RingType
    BY <1>1 DEF ClearBuffers, TxInv, Control, Types
  <2>2. tx' = [tx EXCEPT !.buf = EmptyRing.buf]
    BY <1>1 DEF ClearBuffers
  <2>3. EmptyRing.buf \in [0..Size - 1 -> Bytes \cup {None}]
    BY DEF EmptyRing
  <2>4. tx' \in RingType /\ tx'.head = tx.head /\ tx'.tail = tx.tail
    BY <2>1, <2>2, <2>3 DEF RingType
  <2>5. Count(tx) = 0 /\ Count(tx') = 0
    BY <2>1, <2>4, RingTests DEF Empty
  <2>6. /\ Contents(tx) = [j \in 1..Count(tx) |-> tx.buf[Place(tx, j)]]
        /\ Contents(tx') = [j \in 1..Count(tx') |-> tx'.buf[Place(tx', j)]]
    BY <2>1, <2>4, RingTests, RingFacts
  <2> QED BY <2>5, <2>6
<1>2. CASE CreateRxSem
  BY <1>2 DEF CreateRxSem
<1> QED BY <1>1, <1>2 DEF UsartStart

\* Output, step by step: the increment of ring_buffer_put is where a byte
\* enters the queue, the handler takes it, the line delivers it, and a text is
\* submitted when a task begins to write it.
LEMMA OutputStep ==
  ASSUME TxInv, [Next]_vars
  PROVE  [TxQueue!Next]_(TxQueue!queueVars)
<1>0. todo \in [Writers -> Seq(Bytes)] /\ "cli" \in Writers
  BY ByteNames DEF TxInv, Types
<1>1. CASE UsartStart
  <2>1. UNCHANGED <<todo, tdr>>
    BY <1>1 DEF UsartStart, ClearBuffers, CreateRxSem
  <2>2. Contents(tx') = Contents(tx)
    BY <1>1, StartContents
  <2> QED BY <2>1, <2>2 DEF TxQueue!queueVars
<1>2. CASE Interrupt
  <2>1. HandlerTx /\ todo' = todo
    BY <1>2 DEF Interrupt, Usart2Handler
  <2>2. CASE TxPending /\ ~Empty(tx)
    <3>1. tdr = None /\ tdr' = tx.buf[tx.tail] /\ tx' = Dropped(tx)
      BY <2>1, <2>2 DEF HandlerTx, TxPending
    <3>2. /\ Contents(tx) # <<>> /\ Head(Contents(tx)) = tx.buf[tx.tail]
          /\ Contents(Dropped(tx)) = Tail(Contents(tx))
      BY <2>2, HandlerTakes
    <3>3. TxQueue!Take
      BY <2>1, <3>1, <3>2 DEF TxQueue!Take, TxQueue!None, None
    <3> QED BY <3>3 DEF TxQueue!Next
  <2>3. CASE ~(TxPending /\ ~Empty(tx))
    BY <2>1, <2>3 DEF HandlerTx, TxQueue!queueVars
  <2> QED BY <2>2, <2>3
<1>3. CASE Display
  <2>1. tdr # None /\ tdr' = None /\ tx' = tx /\ todo' = todo
    BY <1>3 DEF Display, Transmit
  <2>2. TxQueue!Delivered
    BY <2>1 DEF TxQueue!Delivered, TxQueue!None, None
  <2> QED BY <2>2 DEF TxQueue!Next
<1>4. CASE \E k \in Keys : Type(k)
  BY <1>4 DEF Type, Receive, TxQueue!queueVars
<1>5. ASSUME NEW w \in Writers, Task(w)
      PROVE  [TxQueue!Next]_(TxQueue!queueVars)
  <2>1. CASE PutcAdvance(w)
    <3>1. todo[w] # <<>> /\ todo' = [todo EXCEPT ![w] = Tail(@)] /\ tdr' = tdr
      BY <2>1 DEF PutcAdvance, TxInv, TxBytes
    <3>2. Contents(tx') = Append(Contents(tx), Head(todo[w]))
      BY <2>1, PutcContents
    <3>3. TxQueue!Put(w)
      BY <3>1, <3>2 DEF TxQueue!Put
    <3> QED BY <3>3 DEF TxQueue!Next
  <2>2. CASE PutcStore(w) \/ PutcWrap(w)
    <3>1. UNCHANGED <<todo, tdr>>
      BY <2>2 DEF PutcStore, PutcWrap
    <3>2. Contents(tx') = Contents(tx)
      BY <2>2, PutcContents
    <3> QED BY <3>1, <3>2 DEF TxQueue!queueVars
  <2>3. CASE PutcEnable(w) \/ Getc
    <3>1. UNCHANGED <<todo, tdr, tx>>
      BY <2>3 DEF PutcEnable, Getc, GetcWait, GetcLoad, GetcAdvance
    <3> QED BY <3>1 DEF TxQueue!queueVars
  <2>4. CASE CliInput
    <3>1. UNCHANGED <<tx, tdr>> /\ todo["cli"] = <<>>
      BY <2>4 DEF CliInput, GetcWrap, TxInv, Control
    <3>2. CASE todo' = todo
      BY <3>1, <3>2 DEF TxQueue!queueVars
    <3>3. CASE \E str \in Texts : todo' = [todo EXCEPT !["cli"] = str]
      <4>1. TxQueue!Submit("cli")
        BY <3>1, <3>3 DEF TxQueue!Submit
      <4> QED BY <1>0, <4>1 DEF TxQueue!Next
    <3> QED BY <2>4, <3>2, <3>3, CliText DEF CliInput
  <2>5. CASE CliStart
    <3>1. UNCHANGED <<tx, tdr>> /\ todo["cli"] = <<>> /\ todo' = [todo EXCEPT !["cli"] = Banner]
      BY <2>5 DEF CliStart, Write, TxInv, Control
    <3>2. TxQueue!Submit("cli")
      BY <3>1, TextTypes DEF TxQueue!Submit
    <3> QED BY <1>0, <3>2 DEF TxQueue!Next
  <2>6. CASE Reboot
    <3>1. todo' = [s \in Writers |-> <<>>] /\ tx' = EmptyRing /\ tdr' = None
      BY <2>6 DEF Reboot, ResetState
    <3>2. Contents(tx') = <<>>
      BY <3>1, ResetFacts
    <3>3. TxQueue!Reset
      BY <3>1, <3>2 DEF TxQueue!Reset, TxQueue!None, None
    <3> QED BY <3>3 DEF TxQueue!Next
  <2> QED BY <1>5, <2>1, <2>2, <2>3, <2>4, <2>5, <2>6 DEF Task, Putc
<1>6. ASSUME NEW w \in Writers, Log(w)
      PROVE  [TxQueue!Next]_(TxQueue!queueVars)
  <2>1. UNCHANGED <<tx, tdr>> /\ todo[w] = <<>> /\ todo' = [todo EXCEPT ![w] = LogLine]
    BY <1>6 DEF Log
  <2>2. TxQueue!Submit(w)
    BY <2>1, TextTypes DEF TxQueue!Submit
  <2> QED BY <2>2 DEF TxQueue!Next
<1>7. ASSUME NEW w \in Writers, Switch(w)
      PROVE  [TxQueue!Next]_(TxQueue!queueVars)
  BY <1>7 DEF Switch, TxQueue!queueVars
<1>8. CASE UNCHANGED vars
  BY <1>8 DEF vars, TxQueue!queueVars
<1> QED BY <1>1, <1>2, <1>3, <1>4, <1>5, <1>6, <1>7, <1>8 DEF Next

\* What the tasks hand to usart2_putc leaves through DR, each byte once and in
\* order: the driver and its transmit ring implement a queue of bytes.
THEOREM OutputIsQueue == Preemption = FALSE => (Spec => TxIsQueue)
<1> SUFFICES ASSUME Preemption = FALSE
             PROVE  Spec => TxIsQueue
  OBVIOUS
<1>1. Init => TxQueue!Init
  <2> SUFFICES ASSUME Init
               PROVE  TxQueue!Init
    OBVIOUS
  <2>1. todo = [w \in Writers |-> <<>>] /\ tx = EmptyRing /\ tdr = None
    BY DEF Init, UsartInit
  <2>2. todo \in [Writers -> {<<>>} \cup Texts]
    BY <2>1
  <2>3. Contents(tx) = <<>>
    BY <2>1, ResetFacts
  <2> QED BY <2>1, <2>2, <2>3 DEF TxQueue!Init, TxQueue!None, None
<1>2. TxInv /\ [Next]_vars => [TxQueue!Next]_(TxQueue!queueVars)
  BY OutputStep
<1> QED BY <1>1, <1>2, OutputInvariant, PTL DEF Spec, TxIsQueue, TxQueue!Spec

\* Input, step by step: the handler puts a byte into the queue, the increment
\* of ring_buffer_get takes it, and the return to the CLI delivers it.
LEMMA InputStep ==
  ASSUME CInv, CInv', [Next]_vars
  PROVE  [RxQueue!Next]_(RxQueue!queueVars)
<1> DEFINE src == [h \in {"host"} |-> IF rdr = None THEN <<>> ELSE <<rdr>>]
           dst == IF pc["cli"] = "return" THEN data ELSE None
<1>0. /\ pc \in [Writers -> Places] /\ "cli" \in Writers
      /\ pc["cli"] = "return" => data \in Keys
      /\ None \notin Keys
  BY ByteNames DEF CInv, TxInv, Types, RxInv, RxBytes
<1>1. CASE UsartStart
  <2>1. UNCHANGED <<rdr, data>> /\ pc["cli"] \in {"clear", "create"}
    BY <1>1 DEF UsartStart, ClearBuffers, CreateRxSem
  <2>2. pc'["cli"] \in {"create", "start"}
    BY <1>0, <1>1 DEF UsartStart, ClearBuffers, CreateRxSem
  <2>3. Contents(rx') = Contents(rx)
    <3>1. rx_sem = NoSem /\ (rx_sem' = NoSem \/ rx' = rx)
      BY <1>1, <2>1 DEF UsartStart, ClearBuffers, CreateRxSem, CInv, TxInv, Control
    <3>2. CASE rx_sem' = NoSem
      <4>1. rx.head = rx.tail /\ rx.head < Size /\ rx'.head = rx'.tail /\ rx'.head < Size
        BY <3>1, <3>2 DEF CInv, RxInv, RxQuiet
      <4>2. rx \in RingType /\ rx' \in RingType
        BY DEF CInv, TxInv, Types
      <4>3. Count(rx) = 0 /\ Count(rx') = 0
        BY <4>1, <4>2, RingTests DEF Empty
      <4>4. /\ Contents(rx) = [j \in 1..Count(rx) |-> rx.buf[Place(rx, j)]]
            /\ Contents(rx') = [j \in 1..Count(rx') |-> rx'.buf[Place(rx', j)]]
        BY <4>1, <4>2, RingTests, RingFacts
      <4> QED BY <4>3, <4>4
    <3> QED BY <3>1, <3>2
  <2> QED BY <2>1, <2>2, <2>3 DEF RxQueue!queueVars
<1>2. CASE Interrupt
  <2>1. HandlerRx /\ UNCHANGED <<pc, data>>
    BY <1>2 DEF Interrupt, Usart2Handler
  <2>2. CASE RxPending /\ ~Full(rx)
    <3>1. rdr \in Keys /\ rdr' = None /\ Contents(rx') = Append(Contents(rx), rdr)
      BY <2>1, <2>2, HandlerPuts
    <3>2. src["host"] = <<rdr>> /\ src' = [src EXCEPT !["host"] = <<>>]
      BY <1>0, <3>1
    <3>3. <<rdr>> # <<>> /\ Head(<<rdr>>) = rdr /\ Tail(<<rdr>>) = <<>>
      OBVIOUS
    <3>4. src["host"] # <<>> /\ Head(src["host"]) = rdr
          /\ src' = [src EXCEPT !["host"] = Tail(src["host"])]
      BY <3>2, <3>3
    <3>5. RxQueue!Put("host")
      BY <2>1, <3>1, <3>4 DEF RxQueue!Put
    <3> QED BY <3>5 DEF RxQueue!Next
  <2>3. CASE ~(RxPending /\ ~Full(rx))
    BY <2>1, <2>3 DEF HandlerRx, RxQueue!queueVars
  <2> QED BY <2>2, <2>3
<1>3. CASE Display
  BY <1>3 DEF Display, Transmit, RxQueue!queueVars
<1>4. ASSUME NEW k \in Keys, Type(k)
      PROVE  [RxQueue!Next]_(RxQueue!queueVars)
  <2>1. rdr = None /\ rdr' = k /\ UNCHANGED <<rx, pc, data>>
    BY <1>4 DEF Type, Receive
  <2>2. src["host"] = <<>> /\ src' = [src EXCEPT !["host"] = <<k>>]
    BY <1>0, <2>1
  <2>3. RxQueue!Submit("host")
    BY <2>1, <2>2 DEF RxQueue!Submit
  <2> QED BY <2>3 DEF RxQueue!Next
<1>5. ASSUME NEW w \in Writers, Task(w)
      PROVE  [RxQueue!Next]_(RxQueue!queueVars)
  <2>1. CASE Putc(w)
    <3>1. UNCHANGED <<rx, rdr, data>> /\ pc[w] # "return"
      BY <2>1 DEF Putc, PutcStore, PutcAdvance, PutcWrap, PutcEnable
    <3>2. pc'["cli"] = "return" <=> pc["cli"] = "return"
      BY <1>0, <2>1 DEF Putc, PutcStore, PutcAdvance, PutcWrap, PutcEnable
    <3> QED BY <3>1, <3>2 DEF RxQueue!queueVars
  <2>2. CASE GetcWait \/ GetcLoad
    <3>1. UNCHANGED <<rx, rdr>> /\ pc["cli"] # "return"
      BY <2>2 DEF GetcWait, GetcLoad
    <3>2. pc'["cli"] # "return"
      BY <1>0, <2>2 DEF GetcWait, GetcLoad
    <3> QED BY <3>1, <3>2 DEF RxQueue!queueVars
  <2>3. CASE GetcAdvance
    <3>1. UNCHANGED <<rdr, data>> /\ pc["cli"] # "return"
      BY <2>3 DEF GetcAdvance
    <3>2. pc'["cli"] = "return"
      BY <1>0, <2>3 DEF GetcAdvance
    <3>3. /\ Contents(rx) # <<>> /\ data = Head(Contents(rx))
          /\ Contents(rx') = Tail(Contents(rx))
      BY <2>3, ReaderTakes
    <3>4. RxQueue!Take
      BY <3>1, <3>2, <3>3 DEF RxQueue!Take, RxQueue!None, None
    <3> QED BY <3>4 DEF RxQueue!Next
  <2>4. CASE CliInput
    <3>1. pc["cli"] = "return" /\ rdr' = rdr
      BY <2>4 DEF CliInput, GetcWrap
    <3>2. pc'["cli"] # "return"
      BY <1>0, <2>4 DEF CliInput
    <3>3. Contents(rx') = Contents(rx)
      BY <2>4, ReaderWraps
    <3>4. RxQueue!Delivered
      BY <1>0, <3>1, <3>2, <3>3 DEF RxQueue!Delivered, RxQueue!None, None
    <3> QED BY <3>4 DEF RxQueue!Next
  <2>5. CASE CliStart
    <3>1. UNCHANGED <<rx, rdr>> /\ pc["cli"] # "return"
      BY <2>5 DEF CliStart
    <3>2. pc'["cli"] # "return"
      BY <1>0, <2>5 DEF CliStart
    <3> QED BY <3>1, <3>2 DEF RxQueue!queueVars
  <2>6. CASE Reboot
    <3>1. /\ rx' = EmptyRing /\ rdr' = None
          /\ pc' = [v \in Writers |-> IF v = "cli" THEN "clear" ELSE "idle"]
      BY <2>6 DEF Reboot, ResetState
    <3>2. Contents(rx') = <<>> /\ pc'["cli"] # "return"
      BY <1>0, <3>1, ResetFacts
    <3>3. RxQueue!Reset
      BY <3>1, <3>2 DEF RxQueue!Reset, RxQueue!None, None
    <3> QED BY <3>3 DEF RxQueue!Next
  <2> QED BY <1>5, <2>1, <2>2, <2>3, <2>4, <2>5, <2>6 DEF Task, Getc
<1>6. ASSUME NEW w \in Writers, Log(w) \/ Switch(w)
      PROVE  [RxQueue!Next]_(RxQueue!queueVars)
  BY <1>6 DEF Log, Switch, RxQueue!queueVars
<1>7. CASE UNCHANGED vars
  BY <1>7 DEF vars, RxQueue!queueVars
<1> QED BY <1>1, <1>2, <1>3, <1>4, <1>5, <1>6, <1>7 DEF Next

\* What arrives in DR is returned by usart2_getc_blocking, each byte once and
\* in order: the driver and its receive ring implement a queue of bytes.
THEOREM InputIsQueue == Preemption = FALSE /\ EarlyBytes = FALSE => (Spec => RxIsQueue)
<1> SUFFICES ASSUME Preemption = FALSE, EarlyBytes = FALSE
             PROVE  Spec => RxIsQueue
  OBVIOUS
<1>1. Init => RxQueue!Init
  <2> SUFFICES ASSUME Init
               PROVE  RxQueue!Init
    OBVIOUS
  <2>1. /\ pc = [w \in Writers |-> IF w = "cli" THEN "clear" ELSE "idle"]
        /\ rx = EmptyRing /\ rdr = None
    BY DEF Init, UsartInit
  <2>2. pc["cli"] # "return"
    BY <2>1, ByteNames
  <2>3. [h \in {"host"} |-> IF rdr = None THEN <<>> ELSE <<rdr>>]
          \in [{"host"} -> {<<>>} \cup {<<k>> : k \in Keys}]
    BY <2>1
  <2>4. Contents(rx) = <<>>
    BY <2>1, ResetFacts
  <2> QED BY <2>2, <2>3, <2>4 DEF RxQueue!Init, RxQueue!None, None
<1>2. CInv /\ CInv' /\ [Next]_vars => [RxQueue!Next]_(RxQueue!queueVars)
  BY InputStep
<1> QED BY <1>1, <1>2, ConsoleInvariant, PTL DEF Spec, RxIsQueue, RxQueue!Spec

-----------------------------------------------------------------------------
(* What the terminal shows.  The invariant follows the bytes that are on   *)
(* their way to it: the screen that they lead to, and what the CLI has     *)
(* still to write there.                                                   *)

Screens ==
  {s \in [text : Seq(Bytes), cursor : Nat, log : BOOLEAN] : s.cursor <= Len(s.text)}

\* In DR and in the transmit ring.
Pending == IF tdr = None THEN Contents(tx) ELSE <<tdr>> \o Contents(tx)

\* From the screen s the bytes p lead to the screen t.
Leads(s, p, t) ==
  \E f \in [0..Len(p) -> Screens] :
    /\ f[0] = s /\ f[Len(p)] = t
    /\ \A i \in 1..Len(p) : f[i] = Show(f[i - 1], p[i])

\* The prompt and the line, the cursor at c, and blanks from the cell n on.
Looks(s, line, c, n) ==
  /\ Len(line) < Len(s.text) /\ s.text[1] = ">"
  /\ \A i \in 1..Len(line) : s.text[i + 1] = line[i]
  /\ s.cursor = c
  /\ \A i \in n..Len(s.text) : s.text[i] = "SP"

\* On the screen s, the text completes the line.
Completes(s, text, line) ==
  \/ text = <<>> /\ Looks(s, line, Len(line) + 1, Len(line) + 2)
  \/ \E l \in Seq(Letters), c \in Letters :
       text = <<c>> /\ line = Append(l, c) /\ Looks(s, l, Len(l) + 1, Len(l) + 2)
  \/ text = <<"BS", "SP", "BS">> /\ Looks(s, line, Len(line) + 2, Len(line) + 3)
  \/ text = <<"SP", "BS">> /\ Looks(s, line, Len(line) + 1, Len(line) + 3)
  \/ text = <<"BS">> /\ Looks(s, line, Len(line) + 2, Len(line) + 2)
  \/ text = <<">">> /\ line = <<>> /\ s.text = <<>> /\ s.cursor = 0
  \/ text \in {<<"NL", ">">>, <<"NL", "NL", ">">>} /\ line = <<>>

\* It does, or there is a log on the screen's last line and will be one.
InStep(s, text, line) ==
  \/ s.log /\ \A i \in 1..Len(text) : text[i] # "NL"
  \/ Completes(s, text, line)

\* cli_task before its loop.
Starting == pc["cli"] \in {"clear", "create", "start"}

Shows ==
  \E t \in Screens :
    /\ Leads(screen, Pending, t)
    /\ ~rebooting /\ ~Starting => InStep(t, todo["cli"], cli_buffer)

ScreenInv ==
  /\ \A w \in Writers : w # "cli" => todo[w] \in {<<>>, LogLine}
  /\ Starting => cli_buffer = <<>>
  /\ Shows

\* The letters are no control bytes, so the terminal puts them into a cell.
LEMMA CellBytes ==
  /\ \A c \in Letters : c \in Bytes \ {"NL", "LOG", "BS"}
  /\ ">" \in Bytes \ {"NL", "LOG", "BS"} /\ "SP" \in Bytes \ {"NL", "LOG", "BS"}
  BY ConsoleAssumption DEF Bytes, Keys

\* A new line, from the CLI or at the end of a log.
LEMMA ShowLine ==
  ASSUME NEW s, NEW b \in {"NL", "LOG"}
  PROVE  /\ Show(s, b) \in Screens /\ Show(s, b).text = <<>>
         /\ Show(s, b).cursor = 0 /\ Show(s, b).log = (b = "LOG")
<1>1. Show(s, b) = [text |-> <<>>, cursor |-> 0, log |-> b = "LOG"]
  BY DEF Show
<1>2. <<>> \in Seq(Bytes) /\ Len(<<>>) = 0
  OBVIOUS
<1> QED BY <1>1, <1>2 DEF Screens

\* A step back.
LEMMA ShowBack ==
  ASSUME NEW s \in Screens
  PROVE  /\ Show(s, "BS") \in Screens /\ Show(s, "BS").text = s.text
         /\ Show(s, "BS").log = s.log
         /\ Show(s, "BS").cursor = IF s.cursor = 0 THEN 0 ELSE s.cursor - 1
<1>1. Show(s, "BS") = [s EXCEPT !.cursor = IF s.cursor = 0 THEN 0 ELSE s.cursor - 1]
  BY DEF Show
<1>2. /\ s \in [text : Seq(Bytes), cursor : Nat, log : BOOLEAN]
      /\ s.cursor \in Nat /\ Len(s.text) \in Nat /\ s.cursor <= Len(s.text)
  BY DEF Screens
<1> DEFINE n == IF s.cursor = 0 THEN 0 ELSE s.cursor - 1
<1>3. n \in Nat /\ n <= Len(s.text)
  BY <1>2
<1> HIDE DEF n
<1>4. Show(s, "BS") = [s EXCEPT !.cursor = n]
  BY <1>1 DEF n
<1>5. /\ Show(s, "BS") \in Screens /\ Show(s, "BS").text = s.text
      /\ Show(s, "BS").log = s.log /\ Show(s, "BS").cursor = n
  BY <1>2, <1>3, <1>4 DEF Screens
<1> QED BY <1>5 DEF n

\* A byte for the cell after the cursor.
LEMMA ShowCell ==
  ASSUME NEW s \in Screens, NEW b \in Bytes \ {"NL", "LOG", "BS"}
  PROVE  /\ Show(s, b) \in Screens /\ Show(s, b).log = s.log
         /\ Show(s, b).cursor = s.cursor + 1
         /\ Len(Show(s, b).text) =
              IF s.cursor = Len(s.text) THEN Len(s.text) + 1 ELSE Len(s.text)
         /\ Show(s, b).text[s.cursor + 1] = b
         /\ \A i \in 1..Len(s.text) : i # s.cursor + 1 => Show(s, b).text[i] = s.text[i]
<1> DEFINE x == s.text
           n == Len(s.text)
           c == s.cursor
           left == SubSeq(x, 1, c)
           right == SubSeq(x, c + 2, n)
           new == left \o <<b>> \o right
<1>1. /\ s \in [text : Seq(Bytes), cursor : Nat, log : BOOLEAN]
      /\ x \in Seq(Bytes) /\ n \in Nat /\ c \in Nat /\ c <= n
      /\ \A i \in 1..n : x[i] \in Bytes
  BY DEF Screens
<1>2. Show(s, b) = [s EXCEPT !.text = new, !.cursor = c + 1]
  BY DEF Show
<1> HIDE DEF x, n, c
<1>3. left \in Seq(Bytes) /\ Len(left) = c /\ \A i \in 1..c : left[i] = x[i]
  <2>1. 1 \in Int /\ c \in Int /\ \A i \in 1..c : x[i] \in Bytes
    BY <1>1
  <2>2. /\ left \in Seq(Bytes) /\ Len(left) = IF 1 <= c THEN c - 1 + 1 ELSE 0
        /\ \A i \in 1..c - 1 + 1 : left[i] = x[1 + i - 1]
    BY <2>1, SubSeqProperties
  <2> HIDE DEF left
  <2>3. Len(left) = c
    BY <1>1, <2>2
  <2>4. \A i \in 1..c : left[i] = x[i]
    BY <1>1, <2>2
  <2> QED BY <2>2, <2>3, <2>4
<1>4. /\ right \in Seq(Bytes) /\ Len(right) = (IF c < n THEN n - c - 1 ELSE 0)
      /\ \A i \in 1..Len(right) : right[i] = x[c + 1 + i]
  <2>1. c + 2 \in Int /\ n \in Int /\ \A i \in (c + 2)..n : x[i] \in Bytes
    BY <1>1
  <2>2. /\ right \in Seq(Bytes) /\ Len(right) = IF c + 2 <= n THEN n - (c + 2) + 1 ELSE 0
        /\ \A i \in 1..n - (c + 2) + 1 : right[i] = x[c + 2 + i - 1]
    BY <2>1, SubSeqProperties
  <2> HIDE DEF right
  <2>3. Len(right) = (IF c < n THEN n - c - 1 ELSE 0)
    BY <1>1, <2>2
  <2>4. ASSUME NEW i \in 1..Len(right)
        PROVE  right[i] = x[c + 1 + i]
    <3>1. i \in 1..n - (c + 2) + 1 /\ c + 2 + i - 1 = c + 1 + i
      BY <1>1, <2>3
    <3> QED BY <2>2, <3>1
  <2> QED BY <2>2, <2>3, <2>4
<1> HIDE DEF left, right
<1>5. <<b>> \in Seq(Bytes) /\ Len(<<b>>) = 1 /\ <<b>>[1] = b
  OBVIOUS
<1> DEFINE front == left \o <<b>>
<1>6. /\ front \in Seq(Bytes) /\ Len(front) = c + 1 /\ front[c + 1] = b
      /\ \A i \in 1..c : front[i] = x[i]
  <2>1. /\ front \in Seq(Bytes) /\ Len(front) = Len(left) + Len(<<b>>)
        /\ \A i \in 1..Len(left) + Len(<<b>>) :
             front[i] = IF i <= Len(left) THEN left[i] ELSE <<b>>[i - Len(left)]
    BY <1>3, <1>5, ConcatProperties
  <2> HIDE DEF front
  <2>2. Len(front) = c + 1
    BY <1>3, <1>5, <2>1
  <2>3. front[c + 1] = b
    <3>1. c + 1 \in 1..Len(left) + Len(<<b>>) /\ ~(c + 1 <= Len(left)) /\ c + 1 - Len(left) = 1
      BY <1>1, <1>3, <1>5
    <3> QED BY <1>5, <2>1, <3>1
  <2>4. \A i \in 1..c : front[i] = x[i]
    <3>1. \A i \in 1..c : i \in 1..Len(left) + Len(<<b>>) /\ i <= Len(left)
      BY <1>1, <1>3, <1>5
    <3> QED BY <1>3, <2>1, <3>1
  <2> QED BY <2>1, <2>2, <2>3, <2>4
<1>7. new = front \o right
  OBVIOUS
<1> HIDE DEF front, new
<1>8. /\ new \in Seq(Bytes) /\ Len(new) = Len(front) + Len(right)
      /\ \A i \in 1..Len(front) + Len(right) :
           new[i] = IF i <= Len(front) THEN front[i] ELSE right[i - Len(front)]
  BY <1>4, <1>6, <1>7, ConcatProperties
<1>9. Len(new) = IF c = n THEN n + 1 ELSE n
  BY <1>1, <1>4, <1>6, <1>8
<1>10. new[c + 1] = b
  <2>1. c + 1 \in 1..Len(front) + Len(right) /\ c + 1 <= Len(front)
    BY <1>1, <1>4, <1>6
  <2> QED BY <1>6, <1>8, <2>1
<1>11. ASSUME NEW i \in 1..n, i # c + 1
       PROVE  new[i] = x[i]
  <2>1. CASE i <= c
    <3>1. i \in 1..Len(front) + Len(right) /\ i <= Len(front) /\ i \in 1..c
      BY <1>1, <1>4, <1>6, <2>1
    <3> QED BY <1>6, <1>8, <3>1
  <2>2. CASE i > c + 1
    <3>1. /\ i \in 1..Len(front) + Len(right) /\ ~(i <= Len(front))
          /\ i - Len(front) \in 1..Len(right) /\ c + 1 + (i - Len(front)) = i
      BY <1>1, <1>4, <1>6, <2>2
    <3>2. new[i] = right[i - Len(front)]
      BY <1>8, <3>1
    <3> QED BY <1>4, <3>1, <3>2
  <2> QED BY <1>1, <1>11, <2>1, <2>2
<1>12. c + 1 \in Nat /\ c + 1 <= Len(new)
  BY <1>1, <1>9
<1>13. /\ Show(s, b) \in Screens /\ Show(s, b).log = s.log
       /\ Show(s, b).cursor = c + 1 /\ Show(s, b).text = new
  BY <1>1, <1>2, <1>8, <1>12 DEF Screens
<1>14. /\ Len(Show(s, b).text) = (IF c = n THEN n + 1 ELSE n)
       /\ Show(s, b).text[c + 1] = b
       /\ \A i \in 1..n : i # c + 1 => Show(s, b).text[i] = x[i]
  BY <1>9, <1>10, <1>11, <1>13
<1> QED BY <1>13, <1>14 DEF x, n, c

\* Whatever the byte, there is a screen after it.
LEMMA ShowTyped ==
  ASSUME NEW s \in Screens, NEW b \in Bytes
  PROVE  Show(s, b) \in Screens
<1>1. CASE b \in {"NL", "LOG"}
  BY <1>1, ShowLine
<1>2. CASE b = "BS"
  BY <1>2, ShowBack
<1>3. CASE b \notin {"NL", "LOG", "BS"}
  BY <1>3, ShowCell
<1> QED BY <1>1, <1>2, <1>3

\* Nothing is on its way.
LEMMA LeadsNow ==
  /\ \A s \in Screens : Leads(s, <<>>, s)
  /\ \A s, t : Leads(s, <<>>, t) => t = s
<1>1. Len(<<>>) = 0
  OBVIOUS
<1>2. ASSUME NEW s \in Screens
      PROVE  Leads(s, <<>>, s)
  <2> DEFINE f == [i \in 0..0 |-> s]
  <2>1. f \in [0..0 -> Screens] /\ f[0] = s /\ \A i \in 1..0 : f[i] = Show(f[i - 1], <<>>[i])
    OBVIOUS
  <2> HIDE DEF f
  <2> QED BY <1>1, <2>1 DEF Leads
<1>3. ASSUME NEW s, NEW t, Leads(s, <<>>, t)
      PROVE  t = s
  BY <1>1, <1>3 DEF Leads
<1> QED BY <1>2, <1>3

\* One more byte at the end.
LEMMA LeadsOn ==
  ASSUME NEW s, NEW p \in Seq(Bytes), NEW t \in Screens, NEW b \in Bytes, Leads(s, p, t)
  PROVE  Leads(s, Append(p, b), Show(t, b))
<1> DEFINE n == Len(p)
           p2 == Append(p, b)
           u == Show(t, b)
<1>1. PICK f \in [0..n -> Screens] :
        f[0] = s /\ f[n] = t /\ \A i \in 1..n : f[i] = Show(f[i - 1], p[i])
  BY DEF Leads
<1>2. /\ n \in Nat /\ Len(p2) = n + 1 /\ p2[n + 1] = b
      /\ \A i \in 1..n : p2[i] = p[i]
  BY AppendProperties
<1>3. u \in Screens
  BY ShowTyped
<1> DEFINE g == [i \in 0..n + 1 |-> IF i = n + 1 THEN u ELSE f[i]]
<1>9. u = Show(t, b)
  OBVIOUS
<1> HIDE DEF n, p2, u
<1>4. g \in [0..n + 1 -> Screens] /\ g[0] = s /\ g[n + 1] = u
      /\ \A i \in 0..n : g[i] = f[i]
  BY <1>1, <1>2, <1>3
<1> HIDE DEF g
<1>5. ASSUME NEW i \in 1..n + 1
      PROVE  g[i] = Show(g[i - 1], p2[i])
  <2>1. CASE i = n + 1
    <3>1. i - 1 = n /\ n \in 0..n
      BY <1>2, <2>1
    <3> QED BY <1>1, <1>2, <1>4, <1>9, <2>1, <3>1
  <2>2. CASE i # n + 1
    <3>1. i \in 1..n /\ i \in 0..n /\ i - 1 \in 0..n
      BY <1>2, <2>2
    <3> QED BY <1>1, <1>2, <1>4, <3>1
  <2> QED BY <2>1, <2>2
<1>6. Leads(s, p2, u)
  BY <1>2, <1>4, <1>5 DEF Leads
<1> QED BY <1>6 DEF p2, u

\* The first byte reaches the terminal.
LEMMA LeadsFrom ==
  ASSUME NEW s, NEW p \in Seq(Bytes), p # <<>>, NEW t, Leads(s, p, t)
  PROVE  Leads(Show(s, Head(p)), Tail(p), t)
<1> DEFINE n == Len(p)
           p2 == Tail(p)
<1>1. PICK f \in [0..n -> Screens] :
        f[0] = s /\ f[n] = t /\ \A i \in 1..n : f[i] = Show(f[i - 1], p[i])
  BY DEF Leads
<1>2. /\ n \in Nat /\ n >= 1 /\ Len(p2) = n - 1 /\ Head(p) = p[1]
      /\ \A i \in 1..n - 1 : p2[i] = p[i + 1]
  BY HeadTailProperties
<1> DEFINE g == [i \in 0..n - 1 |-> f[i + 1]]
<1> HIDE DEF n, p2
<1>3. g \in [0..n - 1 -> Screens] /\ g[n - 1] = t /\ g[0] = f[1]
      /\ \A i \in 0..n - 1 : g[i] = f[i + 1]
  BY <1>1, <1>2
<1> HIDE DEF g
<1>4. f[1] = Show(s, p[1])
  <2>1. 1 \in 1..n /\ 1 - 1 = 0
    BY <1>2
  <2> QED BY <1>1, <2>1
<1>5. ASSUME NEW i \in 1..n - 1
      PROVE  g[i] = Show(g[i - 1], p2[i])
  <2>1. i \in 0..n - 1 /\ i - 1 \in 0..n - 1 /\ i - 1 + 1 = i /\ i + 1 \in 1..n /\ i + 1 - 1 = i
    BY <1>2
  <2>2. g[i] = f[i + 1] /\ g[i - 1] = f[i]
    BY <1>3, <2>1
  <2>3. f[i + 1] = Show(f[i], p[i + 1])
    BY <1>1, <2>1
  <2> QED BY <1>2, <2>2, <2>3
<1>6. Leads(Show(s, p[1]), p2, t)
  BY <1>2, <1>3, <1>4, <1>5 DEF Leads
<1> QED BY <1>2, <1>6 DEF p2

\* The texts of the CLI, byte by byte.
LEMMA ShortTexts ==
  /\ \A b : Head(<<b>>) = b /\ Tail(<<b>>) = <<>>
  /\ \A b, c : Head(<<b, c>>) = b /\ Tail(<<b, c>>) = <<c>>
  /\ \A b, c, d : Head(<<b, c, d>>) = b /\ Tail(<<b, c, d>>) = <<c, d>>
<1>1. ASSUME NEW b PROVE Head(<<b>>) = b /\ Tail(<<b>>) = <<>>
  OBVIOUS
<1>2. ASSUME NEW b, NEW c PROVE Head(<<b, c>>) = b /\ Tail(<<b, c>>) = <<c>>
  <2>1. Head(<<b, c>>) = b
    OBVIOUS
  <2>2. /\ <<b, c>> \in Seq({b, c}) /\ <<b, c>> # <<>> /\ Len(<<b, c>>) = 2
        /\ <<c>> \in Seq({b, c}) /\ Len(<<c>>) = 1
    OBVIOUS
  <2>3. /\ Tail(<<b, c>>) \in Seq({b, c}) /\ Len(Tail(<<b, c>>)) = 1
        /\ \A i \in 1..1 : Tail(<<b, c>>)[i] = <<b, c>>[i + 1]
    BY <2>2, HeadTailProperties
  <2>4. \A i \in 1..1 : Tail(<<b, c>>)[i] = <<c>>[i]
    BY <2>3
  <2>5. Tail(<<b, c>>) = <<c>>
    BY <2>2, <2>3, <2>4, SeqEqual
  <2> QED BY <2>1, <2>5
<1>3. ASSUME NEW b, NEW c, NEW d PROVE Head(<<b, c, d>>) = b /\ Tail(<<b, c, d>>) = <<c, d>>
  <2>1. Head(<<b, c, d>>) = b
    OBVIOUS
  <2>2. /\ <<b, c, d>> \in Seq({b, c, d}) /\ <<b, c, d>> # <<>> /\ Len(<<b, c, d>>) = 3
        /\ <<c, d>> \in Seq({b, c, d}) /\ Len(<<c, d>>) = 2
    OBVIOUS
  <2>3. /\ Tail(<<b, c, d>>) \in Seq({b, c, d}) /\ Len(Tail(<<b, c, d>>)) = 2
        /\ \A i \in 1..2 : Tail(<<b, c, d>>)[i] = <<b, c, d>>[i + 1]
    BY <2>2, HeadTailProperties
  <2>4. \A i \in 1..2 : Tail(<<b, c, d>>)[i] = <<c, d>>[i]
    BY <2>3
  <2>5. Tail(<<b, c, d>>) = <<c, d>>
    BY <2>2, <2>3, <2>4, SeqEqual
  <2> QED BY <2>1, <2>5
<1> QED BY <1>1, <1>2, <1>3

\* A log that comes between the bytes of the CLI: what follows the last NL of
\* the text is on a line of its own again, and without one the log stays.
LEMMA LogBetween ==
  ASSUME NEW s, NEW text, NEW line, InStep(s, text, line)
  PROVE  InStep(Show(s, "LOG"), text, line)
<1>1. Show(s, "LOG").log
  BY ShowLine
<1>2. CASE \A i \in 1..Len(text) : text[i] # "NL"
  BY <1>1, <1>2 DEF InStep
<1>3. CASE text \in {<<"NL", ">">>, <<"NL", "NL", ">">>} /\ line = <<>>
  BY <1>3 DEF InStep, Completes
<1>4. CASE \/ text = <<>> \/ \E c \in Letters : text = <<c>>
           \/ text = <<"BS", "SP", "BS">> \/ text = <<"SP", "BS">> \/ text = <<"BS">>
           \/ text = <<">">>
  <2>1. \A c \in Letters : c # "NL"
    BY CellBytes
  <2>2. \A i \in 1..Len(text) : text[i] # "NL"
    <3>1. CASE text = <<>>
      BY <3>1
    <3>2. CASE \E c \in Letters : text = <<c>>
      BY <2>1, <3>2
    <3>3. CASE text = <<"BS", "SP", "BS">>
      BY <3>3
    <3>4. CASE text = <<"SP", "BS">>
      BY <3>4
    <3>5. CASE text = <<"BS">> \/ text = <<">">>
      BY <3>5
    <3> QED BY <1>4, <3>1, <3>2, <3>3, <3>4, <3>5
  <2> QED BY <1>2, <2>2
<1> QED BY <1>2, <1>3, <1>4 DEF InStep, Completes

\* A letter of the line appears where the cursor is.
LEMMA LetterAppears ==
  ASSUME NEW s \in Screens, NEW l \in Seq(Letters), NEW c \in Letters,
         Looks(s, l, Len(l) + 1, Len(l) + 2)
  PROVE  Looks(Show(s, c), Append(l, c), Len(l) + 2, Len(l) + 3)
<1> DEFINE n == Len(l)
           m == Len(s.text)
           u == Show(s, c)
           x == s.text
           l2 == Append(l, c)
<1>0. s.cursor = n + 1
  BY DEF Looks
<1>1. /\ n < m /\ x[1] = ">" /\ \A i \in 1..n : x[i + 1] = l[i]
      /\ \A i \in (n + 2)..m : x[i] = "SP"
  BY DEF Looks
<1>2. n \in Nat /\ m \in Nat /\ n + 1 <= m
  BY <1>0 DEF Screens
<1>3. /\ u.cursor = n + 2 /\ Len(u.text) = (IF n + 1 = m THEN m + 1 ELSE m)
      /\ u.text[n + 2] = c
      /\ \A i \in 1..m : i # n + 2 => u.text[i] = x[i]
  <2>1. c \in Bytes \ {"NL", "LOG", "BS"} /\ n + 1 + 1 = n + 2
    BY <1>2, CellBytes
  <2> QED BY <1>0, <2>1, ShowCell
<1>4. /\ Len(l2) = n + 1 /\ l2[n + 1] = c /\ \A i \in 1..n : l2[i] = l[i]
  BY AppendProperties
<1> HIDE DEF n, m, u, x, l2
<1>5. Len(l2) < Len(u.text)
  BY <1>2, <1>3, <1>4
<1>6. u.text[1] = ">"
  BY <1>1, <1>2, <1>3
<1>7. ASSUME NEW i \in 1..Len(l2)
      PROVE  u.text[i + 1] = l2[i]
  <2>1. CASE i = n + 1
    BY <1>2, <1>3, <1>4, <2>1
  <2>2. CASE i # n + 1
    <3>1. i \in 1..n /\ i + 1 \in 1..m /\ i + 1 # n + 2
      BY <1>2, <1>4, <2>2
    <3> QED BY <1>1, <1>3, <1>4, <3>1
  <2> QED BY <2>1, <2>2
<1>8. ASSUME NEW i \in (n + 3)..Len(u.text)
      PROVE  u.text[i] = "SP"
  <2>1. i \in 1..m /\ i # n + 2 /\ i \in (n + 2)..m
    BY <1>2, <1>3
  <2> QED BY <1>1, <1>3, <2>1
<1>9. Looks(u, l2, n + 2, n + 3)
  BY <1>3, <1>5, <1>6, <1>7, <1>8 DEF Looks
<1> QED BY <1>9 DEF n, u, l2

\* The second byte of an erasure overwrites the letter.
LEMMA BlankAppears ==
  ASSUME NEW s \in Screens, NEW l \in Seq(Letters),
         Looks(s, l, Len(l) + 1, Len(l) + 3)
  PROVE  Looks(Show(s, "SP"), l, Len(l) + 2, Len(l) + 2)
<1> DEFINE n == Len(l)
           m == Len(s.text)
           u == Show(s, "SP")
           x == s.text
<1>0. s.cursor = n + 1
  BY DEF Looks
<1>1. /\ n < m /\ x[1] = ">" /\ \A i \in 1..n : x[i + 1] = l[i]
      /\ \A i \in (n + 3)..m : x[i] = "SP"
  BY DEF Looks
<1>2. n \in Nat /\ m \in Nat /\ n + 1 <= m
  BY <1>0 DEF Screens
<1>3. /\ u.cursor = n + 2 /\ Len(u.text) = (IF n + 1 = m THEN m + 1 ELSE m)
      /\ u.text[n + 2] = "SP"
      /\ \A i \in 1..m : i # n + 2 => u.text[i] = x[i]
  <2>1. "SP" \in Bytes \ {"NL", "LOG", "BS"} /\ n + 1 + 1 = n + 2
    BY <1>2, CellBytes
  <2> QED BY <1>0, <2>1, ShowCell
<1> HIDE DEF n, m, u, x
<1>5. n < Len(u.text)
  BY <1>2, <1>3
<1>6. u.text[1] = ">"
  BY <1>1, <1>2, <1>3
<1>7. ASSUME NEW i \in 1..n
      PROVE  u.text[i + 1] = l[i]
  <2>1. i + 1 \in 1..m /\ i + 1 # n + 2
    BY <1>2
  <2> QED BY <1>1, <1>3, <2>1
<1>8. ASSUME NEW i \in (n + 2)..Len(u.text)
      PROVE  u.text[i] = "SP"
  <2>1. CASE i = n + 2
    BY <1>3, <2>1
  <2>2. CASE i # n + 2
    <3>1. i \in 1..m /\ i \in (n + 3)..m
      BY <1>2, <1>3, <2>2
    <3> QED BY <1>1, <1>3, <2>2, <3>1
  <2> QED BY <2>1, <2>2
<1>9. Looks(u, l, n + 2, n + 2)
  BY <1>3, <1>5, <1>6, <1>7, <1>8 DEF Looks, n
<1> QED BY <1>9 DEF n, u

\* The first and the last byte of an erasure.
LEMMA CursorBack ==
  ASSUME NEW s \in Screens, NEW l \in Seq(Letters), NEW b,
         Looks(s, l, Len(l) + 2, b)
  PROVE  Looks(Show(s, "BS"), l, Len(l) + 1, b)
<1>1. s.cursor = Len(l) + 2 /\ Len(l) \in Nat
  BY DEF Looks
<1>2. Show(s, "BS").text = s.text /\ Show(s, "BS").cursor = Len(l) + 1
  <2>1. /\ Show(s, "BS").text = s.text
        /\ Show(s, "BS").cursor = IF s.cursor = 0 THEN 0 ELSE s.cursor - 1
    BY ShowBack
  <2> QED BY <1>1, <2>1
<1> QED BY <1>2 DEF Looks

\* The prompt on an empty line.
LEMMA PromptAppears ==
  ASSUME NEW s \in Screens, s.text = <<>>, s.cursor = 0
  PROVE  Looks(Show(s, ">"), <<>>, 1, 2)
<1> DEFINE u == Show(s, ">")
<1>1. Len(s.text) = 0 /\ s.cursor + 1 = 1 /\ ">" \in Bytes \ {"NL", "LOG", "BS"}
  BY CellBytes
<1>2. u.cursor = 1 /\ Len(u.text) = 1 /\ u.text[1] = ">"
  <2>1. /\ u.cursor = s.cursor + 1 /\ u.text[s.cursor + 1] = ">"
        /\ Len(u.text) = IF s.cursor = Len(s.text) THEN Len(s.text) + 1 ELSE Len(s.text)
    BY <1>1, ShowCell
  <2> QED BY <1>1, <2>1
<1> HIDE DEF u
<1>3. Looks(u, <<>>, 1, 2)
  BY <1>2 DEF Looks
<1> QED BY <1>3 DEF u

\* The CLI's next byte goes out.
LEMMA WriteOn ==
  ASSUME NEW s \in Screens, NEW text \in Seq(Bytes), text # <<>>, NEW line \in Seq(Letters),
         InStep(s, text, line)
  PROVE  InStep(Show(s, Head(text)), Tail(text), line)
<1> DEFINE u == Show(s, Head(text))
<1>0. Len(line) \in Nat
  OBVIOUS
<1>1. CASE s.log /\ \A i \in 1..Len(text) : text[i] # "NL"
  <2>1. /\ Head(text) = text[1] /\ Len(text) >= 1 /\ Head(text) \in Bytes
        /\ Len(Tail(text)) = Len(text) - 1
        /\ \A i \in 1..Len(Tail(text)) : Tail(text)[i] = text[i + 1]
    BY HeadTailProperties
  <2>2. Head(text) # "NL"
    BY <1>1, <2>1
  <2>3. u.log
    <3>1. CASE Head(text) = "LOG"
      BY <3>1, ShowLine
    <3>2. CASE Head(text) = "BS"
      BY <1>1, <3>2, ShowBack
    <3>3. CASE Head(text) \notin {"LOG", "BS"}
      BY <1>1, <2>1, <2>2, <3>3, ShowCell
    <3> QED BY <3>1, <3>2, <3>3
  <2>4. \A i \in 1..Len(Tail(text)) : i + 1 \in 1..Len(text)
    BY <2>1
  <2>5. \A i \in 1..Len(Tail(text)) : Tail(text)[i] # "NL"
    BY <1>1, <2>1, <2>4
  <2> QED BY <2>3, <2>5 DEF InStep
<1>2. ASSUME NEW l \in Seq(Letters), NEW c \in Letters,
             text = <<c>>, line = Append(l, c), Looks(s, l, Len(l) + 1, Len(l) + 2)
      PROVE  InStep(u, Tail(text), line)
  <2>1. Head(text) = c /\ Tail(text) = <<>>
    BY <1>2, ShortTexts
  <2>2. Len(l) \in Nat /\ Len(line) = Len(l) + 1
    BY <1>2, AppendProperties
  <2>3. Len(line) + 1 = Len(l) + 2 /\ Len(line) + 2 = Len(l) + 3
    BY <2>2
  <2>4. Looks(u, line, Len(line) + 1, Len(line) + 2)
    BY <1>2, <2>1, <2>3, LetterAppears
  <2> QED BY <2>1, <2>4 DEF InStep, Completes
<1>3. CASE text = <<"BS", "SP", "BS">> /\ Looks(s, line, Len(line) + 2, Len(line) + 3)
  <2>1. Head(text) = "BS" /\ Tail(text) = <<"SP", "BS">>
    BY <1>3, ShortTexts
  <2>2. Looks(u, line, Len(line) + 1, Len(line) + 3)
    BY <1>3, <2>1, CursorBack
  <2> QED BY <2>1, <2>2 DEF InStep, Completes
<1>4. CASE text = <<"SP", "BS">> /\ Looks(s, line, Len(line) + 1, Len(line) + 3)
  <2>1. Head(text) = "SP" /\ Tail(text) = <<"BS">>
    BY <1>4, ShortTexts
  <2>2. Looks(u, line, Len(line) + 2, Len(line) + 2)
    BY <1>4, <2>1, BlankAppears
  <2> QED BY <2>1, <2>2 DEF InStep, Completes
<1>5. CASE text = <<"BS">> /\ Looks(s, line, Len(line) + 2, Len(line) + 2)
  <2>1. Head(text) = "BS" /\ Tail(text) = <<>>
    BY <1>5, ShortTexts
  <2>2. Looks(u, line, Len(line) + 1, Len(line) + 2)
    BY <1>5, <2>1, CursorBack
  <2> QED BY <2>1, <2>2 DEF InStep, Completes
<1>6. CASE text = <<">">> /\ line = <<>> /\ s.text = <<>> /\ s.cursor = 0
  <2>1. Head(text) = ">" /\ Tail(text) = <<>> /\ Len(line) + 1 = 1 /\ Len(line) + 2 = 2
    BY <1>6, ShortTexts
  <2>2. Looks(u, line, Len(line) + 1, Len(line) + 2)
    BY <1>6, <2>1, PromptAppears
  <2> QED BY <2>1, <2>2 DEF InStep, Completes
<1>7. CASE text \in {<<"NL", ">">>, <<"NL", "NL", ">">>} /\ line = <<>>
  <2>1. Head(text) = "NL" /\ Tail(text) \in {<<">">>, <<"NL", ">">>}
    <3>1. CASE text = <<"NL", ">">>
      BY <3>1, ShortTexts
    <3>2. CASE text = <<"NL", "NL", ">">>
      BY <3>2, ShortTexts
    <3> QED BY <1>7, <3>1, <3>2
  <2>2. u.text = <<>> /\ u.cursor = 0
    BY <2>1, ShowLine
  <2> QED BY <1>7, <2>1, <2>2 DEF InStep, Completes
<1>8. CASE text = <<>>
  BY <1>8
<1> QED BY <1>1, <1>2, <1>3, <1>4, <1>5, <1>6, <1>7, <1>8 DEF InStep, Completes

\* cli_input_char: what it prints for a key is what the screen lacks of the
\* line as it is then.
LEMMA EchoCompletes ==
  ASSUME NEW s \in Screens, NEW line \in Seq(Letters), InStep(s, <<>>, line)
  PROVE  /\ \A c \in Letters : InStep(s, <<c>>, Append(line, c))
         /\ line # <<>> =>
              InStep(s, <<"BS", "SP", "BS">>, SubSeq(line, 1, Len(line) - 1))
<1>1. s.log \/ Looks(s, line, Len(line) + 1, Len(line) + 2)
  BY DEF InStep, Completes
<1>2. ASSUME NEW c \in Letters
      PROVE  InStep(s, <<c>>, Append(line, c))
  <2>1. CASE s.log
    <3>1. \A i \in 1..Len(<<c>>) : <<c>>[i] # "NL"
      BY CellBytes
    <3> QED BY <2>1, <3>1 DEF InStep
  <2>2. CASE Looks(s, line, Len(line) + 1, Len(line) + 2)
    BY <2>2 DEF InStep, Completes
  <2> QED BY <1>1, <2>1, <2>2
<1>3. ASSUME line # <<>>
      PROVE  InStep(s, <<"BS", "SP", "BS">>, SubSeq(line, 1, Len(line) - 1))
  <2>1. CASE s.log
    <3>1. \A i \in 1..Len(<<"BS", "SP", "BS">>) : <<"BS", "SP", "BS">>[i] # "NL"
      OBVIOUS
    <3> QED BY <2>1, <3>1 DEF InStep
  <2>2. CASE Looks(s, line, Len(line) + 1, Len(line) + 2)
    <3> DEFINE n == Len(line)
               m == Len(line) - 1
               l == SubSeq(line, 1, m)
    <3>1. n \in Nat /\ n >= 1 /\ m \in Nat /\ m + 1 = n /\ \A i \in 1..m : line[i] \in Letters
      BY <1>3
    <3>2. /\ Len(l) = (IF 1 <= m THEN m - 1 + 1 ELSE 0)
          /\ \A i \in 1..m - 1 + 1 : l[i] = line[1 + i - 1]
      BY <3>1, SubSeqProperties
    <3>3. /\ n < Len(s.text) /\ s.text[1] = ">" /\ s.cursor = n + 1
          /\ \A i \in 1..n : s.text[i + 1] = line[i]
          /\ \A i \in (n + 2)..Len(s.text) : s.text[i] = "SP"
      BY <2>2 DEF Looks
    <3> HIDE DEF n, m, l
    <3>4. Len(l) = m /\ \A i \in 1..m : l[i] = line[i]
      BY <3>1, <3>2
    <3>5. Len(l) + 2 = n + 1 /\ Len(l) + 3 = n + 2
      BY <3>1, <3>4
    <3>6. Len(l) < Len(s.text)
      <4>1. Len(s.text) \in Nat
        BY DEF Screens
      <4> QED BY <3>1, <3>3, <3>4, <4>1
    <3>7. \A i \in 1..Len(l) : s.text[i + 1] = l[i]
      <4>1. \A i \in 1..Len(l) : i \in 1..n /\ i \in 1..m
        BY <3>1, <3>4
      <4> QED BY <3>3, <3>4, <4>1
    <3>8. Looks(s, l, Len(l) + 2, Len(l) + 3)
      BY <3>3, <3>5, <3>6, <3>7 DEF Looks
    <3>9. InStep(s, <<"BS", "SP", "BS">>, l)
      BY <3>8 DEF InStep, Completes
    <3> QED BY <3>9 DEF l, m
  <2> QED BY <1>1, <2>1, <2>2
<1> QED BY <1>2, <1>3

\* The bytes on their way, as DR and the ring change.
LEMMA PendingSeq ==
  ASSUME NEW c \in Seq(Bytes), NEW d \in Bytes
  PROVE  /\ <<d>> \o c \in Seq(Bytes) /\ <<d>> \o c # <<>>
         /\ Head(<<d>> \o c) = d /\ Tail(<<d>> \o c) = c
         /\ \A b \in Bytes : <<d>> \o Append(c, b) = Append(<<d>> \o c, b)
<1> DEFINE p == <<d>> \o c
<1>1. <<d>> \in Seq(Bytes) /\ Len(<<d>>) = 1 /\ <<d>>[1] = d
  OBVIOUS
<1>2. /\ p \in Seq(Bytes) /\ Len(p) = 1 + Len(c) /\ p[1] = d
      /\ \A i \in 1..Len(c) : p[i + 1] = c[i]
  <2>1. /\ p \in Seq(Bytes) /\ Len(p) = Len(<<d>>) + Len(c)
        /\ \A i \in 1..Len(<<d>>) + Len(c) :
             p[i] = IF i <= Len(<<d>>) THEN <<d>>[i] ELSE c[i - Len(<<d>>)]
    BY <1>1, ConcatProperties
  <2> HIDE DEF p
  <2>2. Len(c) \in Nat
    OBVIOUS
  <2>3. Len(p) = 1 + Len(c)
    BY <1>1, <2>1
  <2>4. 1 \in 1..1 + Len(c) /\ 1 <= 1
    BY <2>2
  <2>5. p[1] = d
    BY <1>1, <2>1, <2>4
  <2>6. ASSUME NEW i \in 1..Len(c)
        PROVE  p[i + 1] = c[i]
    <3>1. i + 1 \in 1..1 + Len(c) /\ ~(i + 1 <= 1) /\ i + 1 - 1 = i
      BY <2>2
    <3> QED BY <1>1, <2>1, <3>1
  <2> QED BY <2>1, <2>3, <2>5, <2>6
<1>3. ASSUME NEW b \in Bytes
      PROVE  <<d>> \o Append(c, b) = Append(p, b)
  <2>1. Append(c, b) = c \o <<b>> /\ <<b>> \in Seq(Bytes)
    BY AppendIsConcat
  <2>2. (<<d>> \o c) \o <<b>> = <<d>> \o (c \o <<b>>)
    BY <1>1, <2>1, ConcatAssociative
  <2>3. Append(p, b) = p \o <<b>>
    BY <1>2, AppendIsConcat
  <2> QED BY <2>1, <2>2, <2>3
<1> HIDE DEF p
<1>4. p # <<>> /\ Head(p) = d
  BY <1>2
<1>5. Tail(p) = c
  <2>1. /\ Tail(p) \in Seq(Bytes) /\ Len(Tail(p)) = Len(p) - 1
        /\ \A i \in 1..Len(Tail(p)) : Tail(p)[i] = p[i + 1]
    BY <1>2, <1>4, HeadTailProperties
  <2>2. Len(Tail(p)) = Len(c)
    BY <1>2, <2>1
  <2>3. \A i \in 1..Len(Tail(p)) : Tail(p)[i] = c[i]
    BY <1>2, <2>1, <2>2
  <2> QED BY <2>1, <2>2, <2>3, SeqEqual
<1> QED BY <1>2, <1>3, <1>4, <1>5 DEF p

\* What is on its way is a sequence of bytes.
LEMMA PendingTyped ==
  ASSUME TxInv
  PROVE  Pending \in Seq(Bytes) /\ Contents(tx) \in Seq(Bytes) /\ (tdr # None => tdr \in Bytes)
<1>1. Contents(tx) \in Seq(Bytes) /\ (tdr # None => tdr \in Bytes)
  BY DEF TxInv, TxBytes, Types
<1> QED BY <1>1, PendingSeq DEF Pending

\* Steps that neither move output nor change the line.
LEMMA ShowsSame ==
  ASSUME ScreenInv, Pending' = Pending, todo' = todo,
         UNCHANGED <<screen, cli_buffer, rebooting>>, Starting' <=> Starting
  PROVE  ScreenInv'
  BY DEF ScreenInv, Shows

\* The handler moves the first byte of the ring into DR.
LEMMA InterruptShows ==
  ASSUME TxInv, ScreenInv, Interrupt
  PROVE  ScreenInv'
<1>1. /\ HandlerTx /\ UNCHANGED <<todo, pc, screen, cli_buffer, rebooting>>
  BY DEF Interrupt, Usart2Handler, Rest
<1>2. Pending' = Pending
  <2>1. CASE TxPending /\ ~Empty(tx)
    <3>1. tdr = None /\ tdr' = tx.buf[tx.tail] /\ tx' = Dropped(tx)
      BY <1>1, <2>1 DEF HandlerTx, TxPending
    <3>2. /\ Contents(tx) # <<>> /\ Head(Contents(tx)) = tx.buf[tx.tail]
          /\ Contents(Dropped(tx)) = Tail(Contents(tx)) /\ tx.buf[tx.tail] \in Bytes
      BY <2>1, HandlerTakes
    <3> DEFINE c == Contents(tx)
    <3>3. c \in Seq(Bytes) /\ c # <<>> /\ tdr' = Head(c) /\ Contents(tx') = Tail(c)
          /\ Head(c) \in Bytes /\ Head(c) # None
      BY <3>1, <3>2, PendingTyped, ByteNames
    <3>4. Pending = c /\ Pending' = <<Head(c)>> \o Tail(c)
      BY <3>1, <3>3 DEF Pending
    <3> HIDE DEF c
    <3>5. /\ Tail(c) \in Seq(Bytes) /\ Len(Tail(c)) = Len(c) - 1 /\ Len(c) >= 1
          /\ \A i \in 1..Len(Tail(c)) : Tail(c)[i] = c[i + 1]
          /\ Head(c) = c[1] /\ Len(c) \in Nat
      BY <3>3, HeadTailProperties
    <3> DEFINE p == <<Head(c)>> \o Tail(c)
               h == <<Head(c)>>
    <3>6. h \in Seq(Bytes) /\ Len(h) = 1 /\ h[1] = c[1]
      BY <3>3, <3>5
    <3>7. /\ p \in Seq(Bytes) /\ Len(p) = Len(h) + Len(Tail(c))
          /\ \A i \in 1..Len(h) + Len(Tail(c)) :
               p[i] = IF i <= Len(h) THEN h[i] ELSE Tail(c)[i - Len(h)]
      BY <3>5, <3>6, ConcatProperties
    <3> HIDE DEF p, h
    <3>8. Len(p) = Len(c)
      BY <3>5, <3>6, <3>7
    <3>9. ASSUME NEW i \in 1..Len(c)
          PROVE  p[i] = c[i]
      <4>1. i \in 1..Len(h) + Len(Tail(c))
        BY <3>5, <3>6
      <4>2. CASE i = 1
        BY <3>6, <3>7, <4>1, <4>2
      <4>3. CASE i # 1
        <5>1. ~(i <= Len(h)) /\ i - Len(h) \in 1..Len(Tail(c)) /\ i - Len(h) + 1 = i
          BY <3>5, <3>6, <4>3
        <5>2. p[i] = Tail(c)[i - Len(h)]
          BY <3>7, <4>1, <5>1
        <5> QED BY <3>5, <5>1, <5>2
      <4> QED BY <4>2, <4>3
    <3>10. p = c
      BY <3>3, <3>7, <3>8, <3>9, SeqEqual
    <3> QED BY <3>4, <3>10 DEF p
  <2>2. CASE ~(TxPending /\ ~Empty(tx))
    BY <1>1, <2>2 DEF HandlerTx, Pending
  <2> QED BY <2>1, <2>2
<1>3. Starting' <=> Starting
  BY <1>1 DEF Starting
<1> QED BY <1>1, <1>2, <1>3, ShowsSame

\* The terminal shows the byte that was in DR.
LEMMA DisplayShows ==
  ASSUME TxInv, ScreenInv, Display
  PROVE  ScreenInv'
<1>1. /\ tdr # None /\ tdr' = None /\ screen' = Show(screen, tdr)
      /\ UNCHANGED <<tx, todo, pc, cli_buffer, rebooting>>
  BY DEF Display, Transmit
<1>2. Pending = <<tdr>> \o Contents(tx) /\ Pending' = Contents(tx)
  BY <1>1 DEF Pending
<1>3. /\ Contents(tx) \in Seq(Bytes) /\ tdr \in Bytes /\ Pending \in Seq(Bytes)
  BY <1>1, PendingTyped
<1>4. Pending # <<>> /\ Head(Pending) = tdr /\ Tail(Pending) = Contents(tx)
  BY <1>2, <1>3, PendingSeq
<1>5. PICK t \in Screens :
        /\ Leads(screen, Pending, t)
        /\ ~rebooting /\ ~Starting => InStep(t, todo["cli"], cli_buffer)
  BY DEF ScreenInv, Shows
<1>6. Leads(Show(screen, Head(Pending)), Tail(Pending), t)
  BY <1>3, <1>4, <1>5, LeadsFrom
<1>7. Leads(screen', Pending', t)
  BY <1>1, <1>2, <1>4, <1>6
<1>8. Starting' <=> Starting
  BY <1>1 DEF Starting
<1>9. Shows'
  BY <1>1, <1>5, <1>7, <1>8 DEF Shows
<1> QED BY <1>1, <1>8, <1>9 DEF ScreenInv

\* A byte enters the ring: of the CLI, or a log.
LEMMA AdvanceShows ==
  ASSUME TxInv, ScreenInv, NEW w \in Writers, PutcAdvance(w), Rest
  PROVE  ScreenInv'
<1> DEFINE b == Head(todo[w])
<1>1. /\ pc[w] = "advance" /\ pc' = [pc EXCEPT ![w] = "wrap"] /\ tdr' = tdr
      /\ todo' = [todo EXCEPT ![w] = Tail(todo[w])]
      /\ UNCHANGED <<screen, cli_buffer, rebooting>>
  BY DEF PutcAdvance, Rest
<1>2. /\ todo[w] # <<>> /\ todo[w] \in Seq(Bytes) /\ todo \in [Writers -> Seq(Bytes)]
      /\ pc \in [Writers -> Places] /\ "cli" \in Writers /\ cli_buffer \in Seq(Letters)
      /\ todo["cli"] \in Seq(Bytes)
  BY <1>1, ByteNames DEF TxInv, TxBytes, Types
<1>3. b \in Bytes /\ Contents(tx') = Append(Contents(tx), b)
  BY <1>2, HeadTailProperties, PutcContents
<1>4. Pending' = Append(Pending, b)
  <2>1. CASE tdr = None
    BY <1>1, <1>3, <2>1 DEF Pending
  <2>2. CASE tdr # None
    <3>1. Pending' = <<tdr>> \o Append(Contents(tx), b) /\ Pending = <<tdr>> \o Contents(tx)
      BY <1>1, <1>3, <2>2 DEF Pending
    <3>2. Contents(tx) \in Seq(Bytes) /\ tdr \in Bytes
      BY <2>2, PendingTyped
    <3> HIDE DEF b
    <3> QED BY <1>3, <3>1, <3>2, PendingSeq
  <2> QED BY <2>1, <2>2
<1>5. PICK t \in Screens :
        /\ Leads(screen, Pending, t)
        /\ ~rebooting /\ ~Starting => InStep(t, todo["cli"], cli_buffer)
  BY DEF ScreenInv, Shows
<1>6. Show(t, b) \in Screens /\ Leads(screen', Pending', Show(t, b))
  BY <1>1, <1>3, <1>4, <1>5, LeadsOn, ShowTyped, PendingTyped
<1>7. Starting' <=> Starting
  BY <1>1, <1>2 DEF Starting
<1>8. CASE w = "cli"
  <2>1. /\ todo'["cli"] = Tail(todo["cli"]) /\ b = Head(todo["cli"])
        /\ \A v \in Writers : v # "cli" => todo'[v] = todo[v]
    BY <1>1, <1>2, <1>8
  <2>2. ~rebooting /\ ~Starting => InStep(Show(t, b), Tail(todo["cli"]), cli_buffer)
    BY <1>2, <1>5, <1>8, WriteOn
  <2>3. Shows'
    BY <1>1, <1>6, <1>7, <2>1, <2>2 DEF Shows
  <2> QED BY <1>1, <1>7, <2>1, <2>3 DEF ScreenInv
<1>9. CASE w # "cli"
  <2>1. todo[w] = <<"LOG">>
    BY <1>2, <1>9 DEF ScreenInv, LogLine
  <2>2. b = "LOG" /\ Tail(todo[w]) = <<>>
    BY <2>1, ShortTexts
  <2>3. /\ todo'["cli"] = todo["cli"]
        /\ \A v \in Writers : v # "cli" => todo'[v] = IF v = w THEN <<>> ELSE todo[v]
    BY <1>1, <1>2, <1>9, <2>2
  <2>4. ~rebooting /\ ~Starting => InStep(Show(t, b), todo["cli"], cli_buffer)
    BY <1>5, <2>2, LogBetween
  <2>5. Shows'
    BY <1>1, <1>6, <1>7, <2>3, <2>4 DEF Shows
  <2> QED BY <1>1, <1>7, <2>3, <2>5 DEF ScreenInv
<1> QED BY <1>8, <1>9

\* cli_input_char.
LEMMA InputShows ==
  ASSUME TxInv, ScreenInv, CliInput
  PROVE  ScreenInv'
<1>1. /\ current = "cli" /\ pc["cli"] = "return" /\ pc' = [pc EXCEPT !["cli"] = "idle"]
      /\ UNCHANGED <<tx, tdr, screen>> /\ (CliEnter \/ CliBackspace \/ CliLetter)
  BY DEF CliInput, GetcWrap
<1>2. /\ todo \in [Writers -> Seq(Bytes)] /\ pc \in [Writers -> Places] /\ "cli" \in Writers
      /\ cli_buffer \in Seq(Letters) /\ todo["cli"] = <<>>
  BY <1>1, ByteNames DEF TxInv, Types, Control
<1>3. ~Starting /\ ~Starting' /\ Pending' = Pending
  BY <1>1, <1>2 DEF Starting, Pending
<1>4. PICK t \in Screens :
        /\ Leads(screen, Pending, t)
        /\ ~rebooting => InStep(t, <<>>, cli_buffer)
  BY <1>2, <1>3 DEF ScreenInv, Shows
<1>5. /\ \A v \in Writers : v # "cli" => todo'[v] = todo[v]
      /\ ~rebooting' => InStep(t, todo'["cli"], cli_buffer')
  <2>1. CASE CliEnter
    <3>1. CASE cli_buffer = RebootLine
      BY <1>2, <2>1, <3>1 DEF CliEnter, Write
    <3>2. CASE cli_buffer # RebootLine
      <4>1. /\ todo' = [todo EXCEPT !["cli"] = <<"NL">> \o Output(cli_buffer) \o <<">">>]
            /\ cli_buffer' = <<>>
        BY <2>1, <3>2 DEF CliEnter, Write
      <4>2. <<"NL">> \o Output(cli_buffer) \o <<">">> \in {<<"NL", ">">>, <<"NL", "NL", ">">>}
        BY EnterText
      <4>3. /\ todo'["cli"] = <<"NL">> \o Output(cli_buffer) \o <<">">>
            /\ \A v \in Writers : v # "cli" => todo'[v] = todo[v]
        BY <1>2, <4>1
      <4>4. todo'["cli"] \in {<<"NL", ">">>, <<"NL", "NL", ">">>}
        BY <4>2, <4>3, Zenon
      <4> QED BY <4>1, <4>3, <4>4 DEF InStep, Completes
    <3> QED BY <3>1, <3>2
  <2>2. CASE CliBackspace
    <3>1. CASE cli_buffer # <<>>
      <4>1. /\ cli_buffer' = SubSeq(cli_buffer, 1, Len(cli_buffer) - 1)
            /\ todo' = [todo EXCEPT !["cli"] = <<"BS", "SP", "BS">>] /\ rebooting' = rebooting
        BY <2>2, <3>1 DEF CliBackspace, Write
      <4>2. ~rebooting => InStep(t, <<"BS", "SP", "BS">>, cli_buffer')
        BY <1>2, <1>4, <3>1, <4>1, EchoCompletes
      <4>3. /\ todo'["cli"] = <<"BS", "SP", "BS">>
            /\ \A v \in Writers : v # "cli" => todo'[v] = todo[v]
        BY <1>2, <4>1
      <4> QED BY <4>1, <4>2, <4>3
    <3>2. CASE cli_buffer = <<>>
      BY <1>2, <1>4, <2>2, <3>2 DEF CliBackspace
    <3> QED BY <3>1, <3>2
  <2>3. CASE CliLetter
    <3>1. CASE Len(cli_buffer) < LineMax
      <4>1. /\ cli_buffer' = Append(cli_buffer, data) /\ data \in Letters
            /\ todo' = [todo EXCEPT !["cli"] = <<data>>] /\ rebooting' = rebooting
        BY <2>3, <3>1 DEF CliLetter, Write
      <4>2. ~rebooting => InStep(t, <<data>>, cli_buffer')
        BY <1>2, <1>4, <4>1, EchoCompletes
      <4>3. todo'["cli"] = <<data>> /\ \A v \in Writers : v # "cli" => todo'[v] = todo[v]
        BY <1>2, <4>1
      <4> QED BY <4>1, <4>2, <4>3
    <3>2. CASE ~(Len(cli_buffer) < LineMax)
      BY <1>2, <1>4, <2>3, <3>2 DEF CliLetter
    <3> QED BY <3>1, <3>2
  <2> QED BY <1>1, <2>1, <2>2, <2>3
<1>6. Shows'
  BY <1>1, <1>3, <1>4, <1>5 DEF Shows
<1> QED BY <1>3, <1>5, <1>6 DEF ScreenInv

\* The banner of cli_task.
LEMMA BannerShows ==
  ASSUME TxInv, ScreenInv, CliStart
  PROVE  ScreenInv'
<1>1. /\ pc["cli"] = "start" /\ pc' = [pc EXCEPT !["cli"] = "idle"]
      /\ todo' = [todo EXCEPT !["cli"] = Banner]
      /\ UNCHANGED <<tx, tdr, screen, cli_buffer, rebooting>>
  BY DEF CliStart, Write
<1>2. /\ todo \in [Writers -> Seq(Bytes)] /\ pc \in [Writers -> Places] /\ "cli" \in Writers
  BY ByteNames DEF TxInv, Types
<1>3. Starting /\ ~Starting' /\ Pending' = Pending
  BY <1>1, <1>2 DEF Starting, Pending
<1>4. todo'["cli"] = <<"NL", ">">> /\ \A v \in Writers : v # "cli" => todo'[v] = todo[v]
  BY <1>1, <1>2 DEF Banner
<1>5. cli_buffer' = <<>>
  BY <1>1, <1>3 DEF ScreenInv
<1>6. \A t : InStep(t, todo'["cli"], cli_buffer')
  BY <1>4, <1>5 DEF InStep, Completes
<1>7. Shows'
  BY <1>1, <1>3, <1>6 DEF ScreenInv, Shows
<1> QED BY <1>3, <1>4, <1>7 DEF ScreenInv

\* The reset: the screen keeps what it shows, and nothing is on its way.
LEMMA RebootShows ==
  ASSUME screen \in Screens, Reboot
  PROVE  ScreenInv'
<1>1. /\ tx' = EmptyRing /\ tdr' = None /\ screen' = screen
      /\ pc' = [w \in Writers |-> IF w = "cli" THEN "clear" ELSE "idle"]
      /\ todo' = [w \in Writers |-> <<>>] /\ cli_buffer' = <<>> /\ rebooting' = FALSE
  BY DEF Reboot, ResetState
<1>2. Contents(tx') = <<>> /\ "cli" \in Writers
  BY <1>1, ResetFacts, ByteNames
<1>3. Pending' = <<>> /\ Starting' /\ \A w \in Writers : todo'[w] = <<>>
  BY <1>1, <1>2 DEF Pending, Starting
<1>4. Leads(screen', Pending', screen)
  BY <1>1, <1>3, LeadsNow
<1>5. Shows'
  BY <1>3, <1>4 DEF Shows
<1> QED BY <1>1, <1>3, <1>5 DEF ScreenInv

\* The screen is one at every moment.
LEMMA ScreenTyped == ScreenInv => screen \in Screens
<1> SUFFICES ASSUME ScreenInv
             PROVE  screen \in Screens
  OBVIOUS
<1>1. PICK t \in Screens : Leads(screen, Pending, t)
  BY DEF ScreenInv, Shows
<1>2. PICK f \in [0..Len(Pending) -> Screens] : f[0] = screen /\ f[Len(Pending)] = t
  BY <1>1 DEF Leads
<1> QED BY <1>2

\* Every step.
LEMMA StepShows ==
  ASSUME TxInv, ScreenInv, [Next]_vars
  PROVE  ScreenInv'
<1>0. /\ todo \in [Writers -> Seq(Bytes)] /\ pc \in [Writers -> Places] /\ "cli" \in Writers
  BY ByteNames DEF TxInv, Types
<1>1. CASE UsartStart
  <2>1. UNCHANGED <<todo, tdr, screen, cli_buffer, rebooting>> /\ (Starting' <=> Starting)
    BY <1>0, <1>1 DEF UsartStart, ClearBuffers, CreateRxSem, Rest, Starting
  <2>2. Pending' = Pending
    BY <1>1, <2>1, StartContents DEF Pending
  <2> QED BY <2>1, <2>2, ShowsSame
<1>2. CASE Interrupt
  BY <1>2, InterruptShows
<1>3. CASE Display
  BY <1>3, DisplayShows
<1>4. CASE \E k \in Keys : Type(k)
  <2>1. UNCHANGED <<todo, tdr, tx, pc, screen, cli_buffer, rebooting>>
    BY <1>4 DEF Type, Receive
  <2>2. Pending' = Pending /\ (Starting' <=> Starting)
    BY <2>1 DEF Pending, Starting
  <2> QED BY <2>1, <2>2, ShowsSame
<1>5. ASSUME NEW w \in Writers, Task(w)
      PROVE  ScreenInv'
  <2>1. CASE PutcAdvance(w) /\ Rest
    BY <2>1, AdvanceShows
  <2>2. CASE (PutcStore(w) \/ PutcWrap(w) \/ PutcEnable(w)) /\ Rest
    <3>1. /\ UNCHANGED <<todo, tdr, screen, cli_buffer, rebooting>>
          /\ pc[w] \in {"idle", "wrap", "enable"}
          /\ \E place \in {"advance", "enable", "idle"} : pc' = [pc EXCEPT ![w] = place]
      BY <2>2 DEF PutcStore, PutcWrap, PutcEnable, Rest
    <3>2. Contents(tx') = Contents(tx)
      BY <2>2, PutcContents DEF PutcEnable
    <3>3. Pending' = Pending /\ (Starting' <=> Starting)
      BY <1>0, <3>1, <3>2 DEF Pending, Starting
    <3> QED BY <3>1, <3>3, ShowsSame
  <2>3. CASE Getc /\ Rest
    <3>1. /\ UNCHANGED <<todo, tdr, tx, screen, cli_buffer, rebooting>>
          /\ pc["cli"] \in {"idle", "load", "drop"}
          /\ \E place \in {"load", "drop", "return"} : pc' = [pc EXCEPT !["cli"] = place]
      BY <2>3 DEF Getc, GetcWait, GetcLoad, GetcAdvance, Rest
    <3>2. Pending' = Pending /\ (Starting' <=> Starting)
      BY <1>0, <3>1 DEF Pending, Starting
    <3> QED BY <3>1, <3>2, ShowsSame
  <2>4. CASE CliInput
    BY <2>4, InputShows
  <2>5. CASE CliStart
    BY <2>5, BannerShows
  <2>6. CASE Reboot
    BY <2>6, RebootShows, ScreenTyped
  <2> QED BY <1>5, <2>1, <2>2, <2>3, <2>4, <2>5, <2>6 DEF Task, Putc
<1>6. ASSUME NEW w \in Writers, Log(w)
      PROVE  ScreenInv'
  <2>1. /\ w # "cli" /\ UNCHANGED <<tx, tdr, pc, screen, cli_buffer, rebooting>>
        /\ todo' = [todo EXCEPT ![w] = LogLine]
    BY <1>6 DEF Log
  <2>2. /\ todo'["cli"] = todo["cli"]
        /\ \A v \in Writers : todo'[v] = IF v = w THEN LogLine ELSE todo[v]
    BY <1>0, <2>1
  <2>3. Pending' = Pending /\ (Starting' <=> Starting)
    BY <2>1 DEF Pending, Starting
  <2>4. Shows'
    BY <2>1, <2>2, <2>3 DEF ScreenInv, Shows
  <2> QED BY <2>1, <2>2, <2>3, <2>4 DEF ScreenInv
<1>7. ASSUME NEW w \in Writers, Switch(w)
      PROVE  ScreenInv'
  <2>1. UNCHANGED <<todo, tdr, tx, pc, screen, cli_buffer, rebooting>>
    BY <1>7 DEF Switch
  <2>2. Pending' = Pending /\ (Starting' <=> Starting)
    BY <2>1 DEF Pending, Starting
  <2> QED BY <2>1, <2>2, ShowsSame
<1>8. CASE UNCHANGED vars
  <2>1. UNCHANGED <<todo, tdr, tx, pc, screen, cli_buffer, rebooting>>
    BY <1>8 DEF vars
  <2>2. Pending' = Pending /\ (Starting' <=> Starting)
    BY <2>1 DEF Pending, Starting
  <2> QED BY <2>1, <2>2, ShowsSame
<1> QED BY <1>1, <1>2, <1>3, <1>4, <1>5, <1>6, <1>7, <1>8 DEF Next

\* The initial state.
LEMMA InitShows ==
  ASSUME Init
  PROVE  ScreenInv
<1>1. /\ tx = EmptyRing /\ tdr = None
      /\ screen = [text |-> <<>>, cursor |-> 0, log |-> FALSE]
      /\ pc = [w \in Writers |-> IF w = "cli" THEN "clear" ELSE "idle"]
      /\ todo = [w \in Writers |-> <<>>] /\ cli_buffer = <<>>
  BY DEF Init, UsartInit
<1>2. Contents(tx) = <<>> /\ "cli" \in Writers
  BY <1>1, ResetFacts, ByteNames
<1>3. Pending = <<>> /\ Starting /\ \A w \in Writers : todo[w] = <<>>
  BY <1>1, <1>2 DEF Pending, Starting
<1>4. screen \in Screens
  BY <1>1 DEF Screens
<1>5. Leads(screen, Pending, screen)
  BY <1>3, <1>4, LeadsNow
<1>6. Shows
  BY <1>3, <1>4, <1>5 DEF Shows
<1> QED BY <1>1, <1>3, <1>6 DEF ScreenInv

\* Nothing is under way: what the screen leads to is the screen.
LEMMA ShowsMeaning == TxInv /\ ScreenInv => ScreenShowsLine
<1> SUFFICES ASSUME TxInv, ScreenInv, Quiet, ~rebooting, ~screen.log
             PROVE  /\ SubSeq(screen.text, 1, screen.cursor) = <<">">> \o cli_buffer
                    /\ \A i \in screen.cursor + 1..Len(screen.text) : screen.text[i] = "SP"
  BY DEF ScreenShowsLine
<1>1. /\ tdr = None /\ Empty(tx) /\ "cli" \in Writers /\ pc["cli"] = "idle"
      /\ todo["cli"] = <<>> /\ \A w \in Writers : pc[w] = "idle"
  BY ByteNames DEF Quiet
<1>2. Contents(tx) = <<>>
  <2>1. tx \in RingType /\ tx.tail < Size /\ tx.head < Size
    BY <1>1 DEF TxInv, Types, Empty
  <2>2. Count(tx) = 0 /\ tx.head \in 0..Size /\ tx.tail \in 0..Size
    BY <1>1, <2>1, RingTests
  <2>3. Contents(tx) = [i \in 1..Count(tx) |-> tx.buf[Place(tx, i)]]
    BY <2>2, RingFacts
  <2> QED BY <2>2, <2>3
<1>3. Pending = <<>> /\ ~Starting
  BY <1>1, <1>2 DEF Pending, Starting
<1>4. InStep(screen, <<>>, cli_buffer)
  BY <1>1, <1>3, LeadsNow DEF ScreenInv, Shows
<1> DEFINE l == cli_buffer
           n == Len(cli_buffer)
           x == screen.text
<1>5. Looks(screen, l, n + 1, n + 2)
  BY <1>4 DEF InStep, Completes
<1>6. /\ n < Len(x) /\ x[1] = ">" /\ screen.cursor = n + 1
      /\ \A i \in 1..n : x[i + 1] = l[i]
      /\ \A i \in (n + 2)..Len(x) : x[i] = "SP"
  BY <1>5 DEF Looks
<1>7. x \in Seq(Bytes) /\ n \in Nat /\ l \in Seq(Bytes) /\ Len(x) \in Nat
  <2>1. l \in Seq(Letters) /\ Letters \subseteq Bytes
    BY ByteNames DEF TxInv, Types
  <2>2. l \in Seq(Bytes)
    BY <2>1
  <2> QED BY <2>1, <2>2, ScreenTyped DEF Screens
<1> DEFINE a == SubSeq(x, 1, n + 1)
           p == <<">">>
           z == p \o l
<1>14. n = Len(l)
  OBVIOUS
<1> HIDE DEF l, n, x
<1>8. a \in Seq(Bytes) /\ Len(a) = n + 1 /\ \A i \in 1..n + 1 : a[i] = x[i]
  <2> DEFINE k == n + 1
  <2>1. 1 \in Int /\ k \in Int /\ k >= 1 /\ \A i \in 1..k : x[i] \in Bytes
    BY <1>6, <1>7
  <2> HIDE DEF k
  <2>2. /\ SubSeq(x, 1, k) \in Seq(Bytes)
        /\ Len(SubSeq(x, 1, k)) = IF 1 <= k THEN k - 1 + 1 ELSE 0
        /\ \A i \in 1..k - 1 + 1 : SubSeq(x, 1, k)[i] = x[1 + i - 1]
    BY <2>1, SubSeqProperties
  <2>3. a = SubSeq(x, 1, k)
    BY DEF k
  <2> HIDE DEF a
  <2>4. a \in Seq(Bytes) /\ Len(a) = k /\ \A i \in 1..k : a[i] = x[i]
    BY <2>1, <2>2, <2>3
  <2> QED BY <2>4 DEF k
<1>9. p \in Seq(Bytes) /\ Len(p) = 1 /\ p[1] = ">"
  BY ByteNames
<1>10. /\ z \in Seq(Bytes) /\ Len(z) = Len(p) + Len(l)
       /\ \A i \in 1..Len(p) + Len(l) : z[i] = IF i <= Len(p) THEN p[i] ELSE l[i - Len(p)]
  BY <1>7, <1>9, ConcatProperties
<1> HIDE DEF a, p, z
<1>11. ASSUME NEW i \in 1..n + 1
       PROVE  a[i] = z[i]
  <2>1. i \in 1..Len(p) + Len(l)
    BY <1>7, <1>9, <1>14
  <2>2. CASE i = 1
    BY <1>6, <1>8, <1>9, <1>10, <2>1, <2>2
  <2>3. CASE i # 1
    <3>1. ~(i <= Len(p)) /\ i - Len(p) = i - 1 /\ i - 1 \in 1..n /\ i - 1 + 1 = i
      BY <1>7, <1>9, <2>3
    <3>2. z[i] = l[i - 1]
      BY <1>10, <2>1, <3>1
    <3> QED BY <1>6, <1>8, <3>1, <3>2
  <2> QED BY <2>2, <2>3
<1>12. Len(a) = Len(z)
  BY <1>7, <1>8, <1>9, <1>10, <1>14
<1>13. a = z
  BY <1>8, <1>10, <1>11, <1>12, SeqEqual
<1>15. SubSeq(x, 1, screen.cursor) = p \o l
  BY <1>6, <1>13 DEF a, z
<1>16. \A i \in screen.cursor + 1..Len(x) : x[i] = "SP"
  BY <1>6, <1>7
<1> QED BY <1>15, <1>16 DEF x, l, p

\* When nothing is under way, the terminal shows the prompt and the line that
\* Enter would execute, unless a log came between: what cli_input_char echoes
\* and erases matches what it stores, wherever the logs of other tasks fall
\* between the bytes, whatever the host sends and whenever.
THEOREM ScreenShowsTheLine == Preemption = FALSE => (Spec => []ScreenShowsLine)
<1> SUFFICES ASSUME Preemption = FALSE
             PROVE  Spec => []ScreenShowsLine
  OBVIOUS
<1>1. Init => ScreenInv
  BY InitShows
<1>2. TxInv /\ ScreenInv /\ [Next]_vars => ScreenInv'
  BY StepShows
<1> QED BY <1>1, <1>2, OutputInvariant, ShowsMeaning, PTL DEF Spec
=============================================================================
