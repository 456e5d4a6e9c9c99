------------------------------- MODULE Usart -------------------------------
(***************************************************************************)
(* The USART2 driver (usart.c) and its two ring buffers (ring_buffer.c).   *)
(* The build is -O0, so each C statement on a ring is a step of its own in *)
(* a task, and usart2_handler may come before any of them.  The handler    *)
(* has the highest priority of all handlers and is one step.  While it is  *)
(* pending no task takes a step.                                           *)
(***************************************************************************)
EXTENDS Integers, Sequences

CONSTANTS
  Size,        \* RX_BUFFER_SIZE and TX_BUFFER_SIZE, at most 255
  Writers,     \* the tasks that write, "cli" is one of them
  Preemption,  \* may a task lose the processor within a ring function?
  Paced,       \* does the host wait while the receive buffer is full?
  EarlyBytes   \* does the host send while usart2_init runs?

ASSUME UsartAssumption ==
  /\ Size \in 2..255
  /\ "cli" \in Writers
  /\ {Preemption, Paced, EarlyBytes} \subseteq BOOLEAN

VARIABLES
  tx, rx,      \* the rings: buf, head, tail
  rx_sem,      \* the count of rx_sem, NoSem before usart2_init has created it
  txeie,       \* CR1 bit TXEIE
  tdr, rdr,    \* DR towards the line (None: TXE) and from it (None: not RXNE)
  current,     \* the writer that has the processor
  pc,          \* where each writer is in usart2_putc or usart2_getc_blocking
  todo,        \* what each of them has still to write
  data,        \* data of ring_buffer_get
  moved        \* the registers that moved while an index was out of range

usartVars == <<tx, rx, rx_sem, txeie, tdr, rdr, current, pc, todo, data, moved>>

None == "none"
NoSem == 0 - 1
EmptyRing == [buf |-> [i \in 0..Size - 1 |-> None], head |-> 0, tail |-> 0]

-----------------------------------------------------------------------------
(* ring_buffer.c                                                           *)

Wrapped(i) == IF i = Size THEN 0 ELSE i

Empty(r) == r.head = r.tail

\* Mutant of Full: there is always room.
NeverFull(r) == FALSE

Full(r) == Wrapped(r.head + 1) = r.tail

\* ring_buffer_put and ring_buffer_get in the handler, where they are not
\* interrupted.  An index past the end stays past the end, as in the code.
PutByte(r, b) ==
  [r EXCEPT !.buf[r.head] = b, !.head = Wrapped(r.head + 1)]
Dropped(r) == [r EXCEPT !.tail = Wrapped(r.tail + 1)]

\* The bytes between tail and head, also when one of them is not yet wrapped.
Contents(r) ==
  LET first == Wrapped(r.tail)
      n == (Wrapped(r.head) + Size - first) % Size
  IN [i \in 1..n |-> r.buf[(first + i - 1) % Size]]

-----------------------------------------------------------------------------
(* usart2_handler.  The interrupt is level-triggered: it is pending again  *)
(* at once after a byte that found no room and was left in DR.             *)

TxPending == tdr = None /\ txeie
RxPending == rdr # None
IrqPending == TxPending \/ RxPending

\* Mutant of HandlerTx: one interrupt for one byte.
HandlerTxOnce ==
  IF ~TxPending \/ Empty(tx) THEN UNCHANGED <<tx, txeie, tdr>>
  ELSE tdr' = tx.buf[tx.tail] /\ tx' = Dropped(tx) /\ txeie' = FALSE

\* The first half: the next byte, or no more interrupts.
HandlerTx ==
  IF ~TxPending THEN UNCHANGED <<tx, txeie, tdr>>
  ELSE IF Empty(tx)
  THEN txeie' = FALSE /\ UNCHANGED <<tx, tdr>>
  ELSE /\ tdr' = tx.buf[tx.tail]
       /\ tx' = Dropped(tx)
       /\ UNCHANGED txeie

\* Mutant of Posted: a post only for the first byte.
PostedFirst == IF rx_sem = NoSem \/ ~Empty(rx) THEN rx_sem ELSE rx_sem + 1

\* semaphore_post; without a semaphore it finds none that is open
Posted == IF rx_sem = NoSem THEN rx_sem ELSE rx_sem + 1

\* The second half: the byte is read from DR if there is room for it.
HandlerRx ==
  IF RxPending /\ ~Full(rx)
  THEN rx' = PutByte(rx, rdr) /\ rdr' = None /\ rx_sem' = Posted
  ELSE UNCHANGED <<rx, rdr, rx_sem>>

Usart2Handler ==
  /\ IrqPending
  /\ HandlerTx /\ HandlerRx
  /\ UNCHANGED <<current, pc, todo, data, moved>>

-----------------------------------------------------------------------------
(* usart2_init, from the moment the interrupt is enabled.                  *)

ClearBuffers ==
  /\ pc["cli"] = "clear" /\ ~IrqPending
  /\ tx' = [tx EXCEPT !.buf = EmptyRing.buf]
  /\ rx' = [rx EXCEPT !.buf = EmptyRing.buf]
  /\ pc' = [pc EXCEPT !["cli"] = "create"]
  /\ UNCHANGED <<rx_sem, txeie, tdr, rdr, current, todo, data, moved>>

CreateRxSem ==
  /\ pc["cli"] = "create" /\ ~IrqPending
  /\ rx_sem' = 0
  /\ pc' = [pc EXCEPT !["cli"] = "start"]
  /\ UNCHANGED <<tx, rx, txeie, tdr, rdr, current, todo, data, moved>>

-----------------------------------------------------------------------------
(* usart2_putc, for each byte of a buffer (usart2_drv_write).  The test of *)
(* the loop, the three statements of ring_buffer_put, and CR1.             *)

At(w, place) == current = w /\ pc[w] = place /\ ~IrqPending
Goto(w, place) == pc' = [pc EXCEPT ![w] = place]

\* The test and the store are one step: the handler only makes room.
PutcStore(w) ==
  /\ At(w, "idle") /\ todo[w] # <<>>
  /\ ~Full(tx)
  /\ tx' = [tx EXCEPT !.buf[tx.head] = Head(todo[w])]
  /\ Goto(w, "advance")
  /\ UNCHANGED <<rx, rx_sem, txeie, tdr, rdr, current, todo, data, moved>>

PutcAdvance(w) ==
  /\ At(w, "advance")
  /\ tx' = [tx EXCEPT !.head = @ + 1]
  /\ todo' = [todo EXCEPT ![w] = Tail(@)]
  /\ Goto(w, "wrap")
  /\ UNCHANGED <<rx, rx_sem, txeie, tdr, rdr, current, data, moved>>

\* Mutant of PutcWrap: the index wraps one too late.
PutcWrapLate(w) ==
  /\ At(w, "wrap")
  /\ tx' = [tx EXCEPT !.head = IF @ > Size THEN 0 ELSE @]
  /\ Goto(w, "enable")
  /\ moved' = {}
  /\ UNCHANGED <<rx, rx_sem, txeie, tdr, rdr, current, todo, data>>

PutcWrap(w) ==
  /\ At(w, "wrap")
  /\ tx' = [tx EXCEPT !.head = Wrapped(@)]
  /\ Goto(w, "enable")
  /\ moved' = {}
  /\ UNCHANGED <<rx, rx_sem, txeie, tdr, rdr, current, todo, data>>

PutcEnable(w) ==
  /\ At(w, "enable")
  /\ txeie' = TRUE
  /\ Goto(w, "idle")
  /\ UNCHANGED <<tx, rx, rx_sem, tdr, rdr, current, todo, data, moved>>

Putc(w) == PutcStore(w) \/ PutcAdvance(w) \/ PutcWrap(w) \/ PutcEnable(w)

-----------------------------------------------------------------------------
(* usart2_getc_blocking.  That a waiter is woken for every unit is what    *)
(* module Kernel shows; here the wait is a step that needs a unit.  The    *)
(* last statement, with what the reader does next, is the reader's.        *)

\* Mutant of GetcWait: the byte is fetched without waiting for it.
GetcNoWait ==
  /\ At("cli", "idle") /\ todo["cli"] = <<>>
  /\ rx_sem' = rx_sem
  /\ Goto("cli", "load")
  /\ UNCHANGED <<tx, rx, txeie, tdr, rdr, current, todo, data, moved>>

GetcWait ==
  /\ At("cli", "idle") /\ todo["cli"] = <<>> /\ rx_sem > 0
  /\ rx_sem' = rx_sem - 1
  /\ Goto("cli", "load")
  /\ UNCHANGED <<tx, rx, txeie, tdr, rdr, current, todo, data, moved>>

GetcLoad ==
  /\ At("cli", "load")
  /\ data' = rx.buf[rx.tail]
  /\ Goto("cli", "drop")
  /\ UNCHANGED <<tx, rx, rx_sem, txeie, tdr, rdr, current, todo, moved>>

GetcAdvance ==
  /\ At("cli", "drop")
  /\ rx' = [rx EXCEPT !.tail = @ + 1]
  /\ Goto("cli", "return")
  /\ UNCHANGED <<tx, rx_sem, txeie, tdr, rdr, current, todo, data, moved>>

Getc == GetcWait \/ GetcLoad \/ GetcAdvance

\* ring_buffer_get's wrap and the return to the reader
GetcWrap ==
  /\ At("cli", "return")
  /\ rx' = [rx EXCEPT !.tail = Wrapped(@)]
  /\ moved' = {} /\ data' = None
  /\ UNCHANGED <<tx, rx_sem, txeie, tdr, rdr, current>>

-----------------------------------------------------------------------------
(* The line, 87 us for a byte in each direction.  Unless the task loses    *)
(* the processor there, no two bytes of one direction fit between the      *)
(* increment of an index and its wrap, a few instructions later.           *)

Inside == pc[current] \in {"wrap", "return"}

Moves(reg) ==
  /\ Inside => Preemption \/ reg \notin moved
  /\ moved' = IF Inside THEN moved \cup {reg} ELSE moved

\* The shift register takes the byte: TXE.
Transmit ==
  /\ tdr # None
  /\ tdr' = None
  /\ Moves("tdr")
  /\ UNCHANGED <<tx, rx, rx_sem, txeie, rdr, current, pc, todo, data>>

\* A byte from the host: RXNE.
Receive(b) ==
  /\ rdr = None
  /\ rx_sem # NoSem \/ EarlyBytes
  /\ Paced => Len(Contents(rx)) < Size - 1
  /\ rdr' = b
  /\ Moves("rdr")
  /\ UNCHANGED <<tx, rx, rx_sem, txeie, tdr, current, pc, todo, data>>

\* The state after a reset, until usart2_init enables the interrupt.
ResetState ==
  /\ tx' = EmptyRing /\ rx' = EmptyRing
  /\ rx_sem' = NoSem /\ txeie' = FALSE
  /\ tdr' = None /\ rdr' = None
  /\ current' = "cli" /\ data' = None /\ moved' = {}
  /\ pc' = [w \in Writers |-> IF w = "cli" THEN "clear" ELSE "idle"]

UsartInit ==
  /\ tx = EmptyRing /\ rx = EmptyRing
  /\ rx_sem = NoSem /\ txeie = FALSE
  /\ tdr = None /\ rdr = None
  /\ current = "cli" /\ data = None /\ moved = {}
  /\ pc = [w \in Writers |-> IF w = "cli" THEN "clear" ELSE "idle"]
=============================================================================
