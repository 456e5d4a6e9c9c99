------------------------------ MODULE Console ------------------------------
(***************************************************************************)
(* The console: cli_task reads keys through the USART driver, edits a line *)
(* (cli_input_char) and writes the echo back, while other tasks log.  With *)
(* one sink attached, console_write and console_read_blocking are the      *)
(* driver's write and read.  Texts are single bytes here: NL for \r\n, >   *)
(* for the prompt, NL again for what a command prints.                     *)
(***************************************************************************)
EXTENDS Usart

CONSTANTS
  Letters,     \* the keys that are no control keys
  LineMax,     \* CLI_BUFFER_SIZE - 1
  RebootLine,  \* the line that is the command reboot
  MaxKeys,     \* bound: how many keys are typed
  MaxLogs      \* bound: how many times other tasks write

VARIABLES
  cli_buffer,  \* the line, up to cli_pos
  rebooting,   \* cli_cmd_reboot has been called
  screen,      \* the terminal's last line: cells, cursor, does it follow a log
  keys, logs   \* how many keys and logs there may still be

vars == <<tx, rx, rx_sem, txeie, tdr, rdr, current, pc, todo, data, moved,
          cli_buffer, rebooting, screen, keys, logs>>

Keys == Letters \cup {"DEL", "ENTER"}
LogLine == <<"LOG">>

ASSUME ConsoleAssumption ==
  /\ LineMax \in Nat \ {0} /\ MaxKeys \in Nat /\ MaxLogs \in Nat
  /\ Letters \cap {"DEL", "ENTER", "NL", "BS", "LOG", None} = {}
  /\ RebootLine \in Seq(Letters)

-----------------------------------------------------------------------------
(* cli.c                                                                   *)

Banner == <<"NL", ">">>

\* cli_execute: nothing, a command's output, or unknown command
Output(line) == IF line = <<>> THEN <<>> ELSE <<"NL">>

Write(text) == todo' = [todo EXCEPT !["cli"] = text]

CliEnter ==
  /\ data = "ENTER"
  /\ IF cli_buffer = RebootLine
     THEN /\ Write(<<"NL", "SP">>)
          /\ rebooting' = TRUE
          /\ UNCHANGED cli_buffer
     ELSE /\ Write(<<"NL">> \o Output(cli_buffer) \o <<">">>)
          /\ cli_buffer' = <<>>
          /\ UNCHANGED rebooting

\* Mutant of CliBackspace: the prompt is erased with an empty line.
CliBackspaceAlways ==
  /\ data = "DEL"
  /\ cli_buffer' = SubSeq(cli_buffer, 1, Len(cli_buffer) - 1)
  /\ Write(<<"BS", "SP", "BS">>)
  /\ UNCHANGED rebooting

CliBackspace ==
  /\ data = "DEL"
  /\ IF cli_buffer # <<>>
     THEN /\ cli_buffer' = SubSeq(cli_buffer, 1, Len(cli_buffer) - 1)
          /\ Write(<<"BS", "SP", "BS">>)
     ELSE UNCHANGED <<cli_buffer, todo>>
  /\ UNCHANGED rebooting

CliLetter ==
  /\ data \in Letters
  /\ IF Len(cli_buffer) < LineMax
     THEN cli_buffer' = Append(cli_buffer, data) /\ Write(<<data>>)
     ELSE UNCHANGED <<cli_buffer, todo>>
  /\ UNCHANGED rebooting

\* The return from console_read_blocking and cli_input_char; what it prints is
\* written by the steps of usart2_putc.
CliInput ==
  /\ GetcWrap /\ Goto("cli", "idle")
  /\ CliEnter \/ CliBackspace \/ CliLetter
  /\ UNCHANGED <<screen, keys, logs>>

\* The reset that cli_cmd_reboot asks for when it has put its text into the
\* ring; what is still there is not transmitted.
Reboot ==
  /\ rebooting /\ At("cli", "idle") /\ todo["cli"] = <<>>
  /\ ResetState
  /\ todo' = [w \in Writers |-> <<>>]
  /\ cli_buffer' = <<>> /\ rebooting' = FALSE
  /\ UNCHANGED <<screen, keys, logs>>

\* cli_task before its loop
CliStart ==
  /\ At("cli", "start")
  /\ Write(Banner) /\ Goto("cli", "idle")
  /\ UNCHANGED <<tx, rx, rx_sem, txeie, tdr, rdr, current, data, moved,
                 cli_buffer, rebooting, screen, keys, logs>>

-----------------------------------------------------------------------------
(* The terminal, the typist, and the tasks that log: kprintf in net_task,  *)
(* SYS_CONSOLE_WRITE for the user's tasks.                                 *)

\* A log ends with a new line, on which there is no prompt.
Show(scr, b) ==
  CASE b \in {"NL", "LOG"} -> [text |-> <<>>, cursor |-> 0, log |-> b = "LOG"]
    [] b = "BS" -> [scr EXCEPT !.cursor = IF @ = 0 THEN 0 ELSE @ - 1]
    [] OTHER -> [scr EXCEPT !.text = SubSeq(@, 1, scr.cursor) \o <<b>>
                                     \o SubSeq(@, scr.cursor + 2, Len(@)),
                            !.cursor = @ + 1]

Display ==
  /\ Transmit
  /\ screen' = Show(screen, tdr)
  /\ UNCHANGED <<cli_buffer, rebooting, keys, logs>>

Type(k) ==
  /\ keys > 0 /\ keys' = keys - 1
  /\ Receive(k)
  /\ UNCHANGED <<cli_buffer, rebooting, screen, logs>>

Log(w) ==
  /\ w # "cli" /\ rx_sem # NoSem /\ todo[w] = <<>> /\ pc[w] = "idle"
  /\ logs > 0 /\ logs' = logs - 1
  /\ todo' = [todo EXCEPT ![w] = LogLine]
  /\ UNCHANGED <<tx, rx, rx_sem, txeie, tdr, rdr, current, pc, data, moved,
                 cli_buffer, rebooting, screen, keys>>

\* The processor goes to another task that has something to do.
HasWork(w) == \/ pc[w] # "idle" \/ todo[w] # <<>>
              \/ w = "cli" /\ (rebooting \/ rx_sem > 0)

Switch(w) ==
  /\ w # current /\ HasWork(w) /\ rx_sem # NoSem
  /\ Preemption \/ pc[current] = "idle"
  /\ current' = w
  /\ UNCHANGED <<tx, rx, rx_sem, txeie, tdr, rdr, pc, todo, data, moved,
                 cli_buffer, rebooting, screen, keys, logs>>

-----------------------------------------------------------------------------

Init ==
  /\ UsartInit
  /\ todo = [w \in Writers |-> <<>>]
  /\ cli_buffer = <<>> /\ rebooting = FALSE
  /\ screen = [text |-> <<>>, cursor |-> 0, log |-> FALSE]
  /\ keys = MaxKeys /\ logs = MaxLogs

Rest == UNCHANGED <<cli_buffer, rebooting, screen, keys, logs>>

\* What the task w does next.
Task(w) ==
  \/ Putc(w) /\ Rest
  \/ w = "cli" /\ ~rebooting /\ Getc /\ Rest
  \/ w = "cli" /\ (CliInput \/ CliStart \/ Reboot)

UsartStart == (ClearBuffers \/ CreateRxSem) /\ Rest
Interrupt == Usart2Handler /\ Rest

Next ==
  \/ UsartStart \/ Interrupt \/ Display
  \/ \E k \in Keys : Type(k)
  \/ \E w \in Writers : Task(w) \/ Log(w) \/ Switch(w)

Spec == Init /\ [][Next]_vars

\* The line and the interrupt do their work, and the scheduler gives every task
\* its turns (module Kernel: EqualsTakeTurns).  Nothing is assumed of the host.
FairSpec ==
  /\ Spec
  /\ WF_vars(UsartStart) /\ WF_vars(Interrupt) /\ WF_vars(Display)
  /\ \A w \in Writers : SF_vars(Task(w)) /\ SF_vars(Switch(w))

-----------------------------------------------------------------------------
(* Properties                                                              *)

Bytes == Keys \cup {"NL", ">", "BS", "SP", "LOG"}
Places == {"clear", "create", "start", "idle", "advance", "wrap", "enable",
           "load", "drop", "return"}

RingType == [buf : [0..Size - 1 -> Bytes \cup {None}], head : 0..Size, tail : 0..Size]

\* The types; an index is out of range only between its increment and its wrap
\* (ring_buffer_put, ring_buffer_get).
TypeOK ==
  /\ tx \in RingType /\ rx \in RingType
  /\ tx.head = Size => \E w \in Writers : pc[w] = "wrap"
  /\ rx.tail = Size => pc["cli"] = "return"
  /\ tx.tail < Size /\ rx.head < Size
  /\ rx_sem \in -1..Size - 1
  /\ tdr \in Bytes \cup {None} /\ rdr \in Keys \cup {None} /\ data \in Keys \cup {None}
  /\ txeie \in BOOLEAN /\ rebooting \in BOOLEAN
  /\ current \in Writers /\ pc \in [Writers -> Places]
  /\ Len(cli_buffer) <= LineMax

\* Every byte in the receive ring has its unit of rx_sem, or the reader has
\* taken it: cli_task neither sleeps on a byte nor fetches one that is not
\* there, whatever the handler does in between.
UnitsMatchBytes ==
  rx_sem # NoSem =>
    Len(Contents(rx)) = rx_sem + IF pc["cli"] \in {"load", "drop"} THEN 1 ELSE 0

\* When nothing is under way, the terminal shows the prompt and the line that
\* Enter would execute, unless a log came between: cli_input_char echoes what
\* it stores and erases what it removes, and the rings lose nothing of it.
Quiet ==
  /\ rx_sem = 0 /\ rdr = None /\ tdr = None /\ Empty(tx)
  /\ \A w \in Writers : pc[w] = "idle" /\ todo[w] = <<>>

ScreenShowsLine ==
  Quiet /\ ~rebooting /\ ~screen.log =>
    /\ SubSeq(screen.text, 1, screen.cursor) = <<">">> \o cli_buffer
    /\ \A i \in screen.cursor + 1..Len(screen.text) : screen.text[i] = "SP"

\* Output: what the tasks hand to usart2_putc leaves through DR, each byte once
\* and in order, although the handler runs between any two statements.
Texts ==
  {Banner, LogLine, <<"NL", "SP">>, <<"BS", "SP", "BS">>, <<"NL", ">">>,
   <<"NL", "NL", ">">>} \cup {<<c>> : c \in Letters}
TxQueue == INSTANCE ByteQueue WITH
  Sources <- Writers, Strings <- Texts,
  src <- todo, q <- Contents(tx), dst <- tdr
TxIsQueue == TxQueue!Spec

\* Input: what arrives in DR is returned by usart2_getc_blocking, each byte once
\* and in order.
RxQueue == INSTANCE ByteQueue WITH
  Sources <- {"host"}, Strings <- {<<k>> : k \in Keys},
  src <- [h \in {"host"} |-> IF rdr = None THEN <<>> ELSE <<rdr>>],
  q <- Contents(rx), dst <- IF pc["cli"] = "return" THEN data ELSE None
RxIsQueue == RxQueue!Spec

\* The transmitter does not stay idle while the ring holds something, although
\* the handler and usart2_putc both write TXEIE.
OutputFlows == []<>(tdr # None \/ Contents(tx) = <<>>)

\* Every byte in the receive ring is read, unless the processor is reset.
KeysAreRead ==
  (Contents(rx) # <<>>) ~> (pc["cli"] = "return" \/ rx_sem = NoSem)
=============================================================================
