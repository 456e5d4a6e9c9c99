------------------------------- MODULE W5500 -------------------------------
(***************************************************************************)
(* net_task with the W5500 and SPI drivers under it: what it does on the   *)
(* bus for each request, one SPI frame at a time, while the chip works on  *)
(* its own: it takes commands, sends, gives up on ARP, receives datagrams, *)
(* loses power.  A frame may be cut short by a byte that times out; SPI is *)
(* then FAULTED, and no frame reaches the chip until spi1_recover.         *)
(*                                                                         *)
(* One UDP socket.  A payload and its buffers are counted in cells, the    *)
(* eight bytes of a received datagram's header are one cell.  Pointers are *)
(* counted from the last OPEN and do not wrap.  Frames that follow each    *)
(* other with the same error handling and that nothing tells apart (the    *)
(* four of w5500_init, the destination of a send, the read and the write   *)
(* of w5500_reset_tx_wr) are one; a frame cut short has reached the chip   *)
(* or it has not.  The chip is external: it does what the driver expects   *)
(* of it, as late as it likes.                                             *)
(***************************************************************************)
EXTENDS Net

CONSTANTS
  Tries,       \* polls and attempts before the driver gives up (5)
  Lengths,     \* lengths of the payloads sent and received
  BufLen,      \* the length of the client's receive buffer
  TxSize, RxSize, \* the chip's buffers
  MaxSends,    \* bound on the sends
  MaxRx,       \* bound on the cells received since the socket was opened
  MaxFaults    \* bound on the frames cut short and the losses of power

ASSUME DriverAssumption ==
  /\ {Tries, BufLen, TxSize, RxSize} \subseteq Nat \ {0}
  /\ Lengths \subseteq 1..TxSize /\ Lengths # {}
  /\ {MaxSends, MaxRx, MaxFaults} \subseteq Nat

VARIABLES
  pc,          \* the driver's next frame, or where net_task is otherwise
  ret,         \* ret_status
  loc,         \* the locals of the w5500_socket_* function being run
  socket,      \* the socket_t: its status and has_unreaped_send
  spi,         \* SPI1's state
  faults,      \* frames cut short and losses of power so far
  chip,        \* the chip's registers and buffers
  \* For the properties only: the sends so far; the end of the last datagram
  \* delivered to the client while driver and chip agreed; and whether they
  \* do: since the socket was opened no frame was cut short, no command given
  \* up on, and the chip kept its power.
  sends, delivered, sync

driverVars == <<pc, ret, loc, socket>>
spiVars == <<spi, faults>>
ghostVars == <<sends, delivered>>
vars == <<netVars, driverVars, spiVars, chip, ghostVars, sync>>

NoHeader == -1
NoSend == [end |-> 0, dst |-> 0, arp |-> FALSE]
Cells == [send : 1..MaxSends, index : Lengths \cup 1..TxSize, of : Lengths]
NoCell == [send |-> 0, index |-> 0, of |-> 0]
MaxTx == MaxSends * TxSize

(* The chip out of reset.                                                  *)
Fresh ==
  [sr |-> "CLOSED", cr |-> "none", mr |-> "none", port |-> "none", ir |-> {},
   dst |-> 0, tx |-> [i \in 0..MaxTx - 1 |-> NoCell], tx_rd |-> 0, tx_wr |-> 0,
   sending |-> NoSend, rx |-> <<>>, rx_base |-> 0, rx_rd |-> 0]

NoLocals == [tries |-> 0, len |-> 0, rp |-> 0, hlen |-> 0, wp |-> 0]

(* The socket as socket_memory_init leaves it.                             *)
NewSocket == [status |-> "CREATED", has_unreaped_send |-> FALSE]

Init ==
  /\ NetInit
  /\ pc = "reset" /\ ret = "OK" /\ loc = NoLocals
  /\ socket = NewSocket
  /\ spi = "READY" /\ faults = 0
  /\ chip = Fresh
  /\ sends = 0
  /\ delivered = 0 /\ sync = FALSE

-----------------------------------------------------------------------------
(* SPI frames.                                                             *)

Results == {"OK", "TRANSIENT", "FAULT"}

(* spi1_transfer_frame under w5500_transfer: the chip is to be left as     *)
(* `after', and the driver gets a status.                                  *)
Frame(after, status) ==
  \/ /\ status = "OK" /\ spi = "READY"
     /\ chip' = after /\ UNCHANGED spiVars
  \/ /\ status = "TRANSIENT" /\ spi = "READY" /\ faults < MaxFaults
     /\ chip' \in {chip, after}
     /\ spi' = "FAULTED" /\ faults' = faults + 1
  \/ /\ status = "FAULT" /\ spi = "FAULTED"
     /\ UNCHANGED <<chip, spi, faults>>

Goto(next, locals) == pc' = next /\ loc' = locals /\ UNCHANGED <<ret, socket>>

ReturnFrom(status, sock) ==
  /\ pc' = IF pc \in {"version", "config"} THEN "initdone" ELSE "done"
  /\ ret' = status /\ loc' = NoLocals /\ socket' = sock

Return(status) == ReturnFrom(status, socket)

(* w5500_read16_stable: a register that differs from one read to the next  *)
(* 255 times.                                                              *)
UnstableRead ==
  /\ spi = "READY" /\ UNCHANGED <<chip, spi, faults>>
  /\ Return("UNSTABLE")

(* The shape of most frames: go on if it was transferred, else return.     *)
Continue(status, next, locals) ==
  IF status = "OK" THEN Goto(next, locals) ELSE Return(status)

(* Undo a pointer, then return the status.                                 *)
Restore(status, point) ==
  pc' = point /\ ret' = status /\ UNCHANGED <<loc, socket>>

(* Mutant of Polled: the turns are not counted.                            *)
PolledForever(status, seen, Found, Abort, Spent) ==
  IF status \notin {"OK", "TRANSIENT"} THEN Abort
  ELSE IF status = "OK" /\ seen THEN Found
  ELSE Goto(pc, loc)

(* Mutant of Polled: one turn too many.                                    *)
PolledOnceMore(status, seen, Found, Abort, Spent) ==
  IF status \notin {"OK", "TRANSIENT"} THEN Abort
  ELSE IF status = "OK" /\ seen THEN Found
  ELSE IF loc.tries + 1 > Tries THEN Spent
  ELSE Goto(pc, [loc EXCEPT !.tries = @ + 1])

(* One turn of the driver's polling loops, which let a frame that was cut  *)
(* short pass as a register not yet seen to change.                        *)
Polled(status, seen, Found, Abort, Spent) ==
  IF status \notin {"OK", "TRANSIENT"} THEN Abort
  ELSE IF status = "OK" /\ seen THEN Found
  ELSE IF loc.tries + 1 = Tries THEN Spent
  ELSE Goto(pc, [loc EXCEPT !.tries = @ + 1])

-----------------------------------------------------------------------------
(* w5500_init.                                                             *)

HwReset ==
  /\ pc = "reset"
  /\ chip' = Fresh
  /\ Goto("version", loc)
  /\ UNCHANGED spiVars

(* VERSIONR reads 4, or something else while the chip does not answer.     *)
ReadVersion ==
  /\ pc = "version"
  /\ \E st \in Results : Frame(chip, st) /\
       \E answers \in BOOLEAN :
         IF st \notin {"OK", "TRANSIENT"} THEN Return(st)
         ELSE IF st = "OK" /\ answers THEN Goto("config", NoLocals)
         ELSE IF loc.tries + 1 = Tries THEN Return("STATE")
         ELSE Goto("reset", [loc EXCEPT !.tries = @ + 1])

Configure ==
  /\ pc = "config"
  /\ \E st \in Results : Frame(chip, st) /\ Return(st)

-----------------------------------------------------------------------------
(* w5500_link_up, w5500_socket_close and w5500_socket_open.                *)

LinkUp ==
  /\ pc = "link"
  /\ \E st \in Results : Frame(chip, st) /\ Return(st)

CloseCommand ==
  /\ pc = "close"
  /\ \E st \in Results : Frame([chip EXCEPT !.cr = "CLOSE"], st) /\
       Goto("closing", loc)

AwaitClosed ==
  /\ pc = "closing"
  /\ \E st \in Results : Frame(chip, st) /\
       Polled(st, chip.sr = "CLOSED",
              IF my_req.op = "open"
              THEN /\ pc' = "mr" /\ loc' = NoLocals /\ UNCHANGED ret
                   /\ socket' = [socket EXCEPT !.status = "CLOSED"]
              ELSE ReturnFrom("OK", [socket EXCEPT !.status = "CLOSED"]),
              Return(st),
              ReturnFrom("TRANSIENT", [socket EXCEPT !.status = "ERROR"]))

OpenCommand ==
  \/ /\ pc = "mr"
     /\ \E st \in Results : Frame([chip EXCEPT !.mr = "UDP"], st) /\
          Continue(st, "port", loc)
  \/ /\ pc = "port"
     /\ \E st \in Results : Frame([chip EXCEPT !.port = "set"], st) /\
          Continue(st, "opencmd", loc)
  \/ /\ pc = "opencmd"
     /\ \E st \in Results : Frame([chip EXCEPT !.cr = "OPEN"], st) /\
          Continue(st, "opening", loc)

OpenFailed(status) == ReturnFrom(status, [socket EXCEPT !.status = "ERROR"])

AwaitOpen ==
  /\ pc = "opening"
  /\ \E st \in Results : Frame(chip, st) /\
       Polled(st, chip.sr = "UDP", Goto("mrcheck", NoLocals),
              Return(st), OpenFailed("TRANSIENT"))

(* The mode and the port are read back; loc.len keeps whether the mode was *)
(* the right one until the port has been read too.                         *)
CheckOpen ==
  \/ /\ pc = "mrcheck"
     /\ \E st \in Results : Frame(chip, st) /\
          IF st = "OK"
          THEN Goto("portcheck", [loc EXCEPT !.len = IF chip.mr = "UDP" THEN 1 ELSE 0])
          ELSE OpenFailed(st)
  \/ /\ pc = "portcheck"
     /\ \E st \in Results : Frame(chip, st) /\
          IF st # "OK" THEN OpenFailed(st)
          ELSE IF loc.len = 0 \/ chip.port # "set" THEN OpenFailed("STATE")
          ELSE ReturnFrom("OK", [socket EXCEPT !.status = "OPEN"])

-----------------------------------------------------------------------------
(* w5500_socket_recv.                                                      *)

Rsr == Len(chip.rx) - chip.rx_base

(* The length in the header at a position: what lies between two headers   *)
(* or beyond the last datagram reads as any length.                        *)
HeaderAt(p) ==
  IF p < Len(chip.rx) /\ chip.rx[p + 1] # NoHeader
  THEN {chip.rx[p + 1]} ELSE Lengths

ReadSize ==
  /\ pc = "rsr"
  /\ \/ \E st \in Results : Frame(chip, st) /\
          IF st = "OK" /\ Rsr = 0 THEN Return("OK")
          ELSE Continue(st, "rxrd", [loc EXCEPT !.len = Rsr])
     \/ UnstableRead

ReadDatagram ==
  \/ /\ pc = "rxrd"
     /\ \E st \in Results : Frame(chip, st) /\
          Continue(st, "header", [loc EXCEPT !.rp = chip.rx_rd])
  \/ /\ pc = "header"
     /\ \E n \in HeaderAt(loc.rp) :
          \E st \in Results : Frame(chip, st) /\
            Continue(st, "payload", [loc EXCEPT !.hlen = n])
  \/ /\ pc = "payload"
     /\ \E st \in Results : Frame(chip, st) /\ Continue(st, "retire", loc)

(* Mutant of Retire: only what was copied is retired.                      *)
RetireCopied ==
  /\ pc = "retire"
  /\ LET copied == IF loc.hlen < BufLen THEN loc.hlen ELSE BufLen IN
     \E st \in Results : Frame([chip EXCEPT !.rx_rd = loc.rp + 1 + copied], st) /\
       Continue(st, "recvcmd", loc)

(* The whole datagram is retired, however much of it was copied.           *)
Retire ==
  /\ pc = "retire"
  /\ \E st \in Results : Frame([chip EXCEPT !.rx_rd = loc.rp + 1 + loc.hlen], st) /\
       Continue(st, "recvcmd", loc)

RecvCommand ==
  /\ pc = "recvcmd"
  /\ \E st \in Results : Frame([chip EXCEPT !.cr = "RECV"], st) /\
       IF st = "OK" THEN Goto("recving", loc) ELSE Restore(st, "rxrestore")

AwaitRecv ==
  /\ pc = "recving"
  /\ \E st \in Results : Frame(chip, st) /\
       Polled(st, chip.cr = "none", Goto("rsr2", loc),
              Restore(st, "rxrestore"), Restore("TRANSIENT", "rxrestore"))

RestoreRxRd ==
  /\ pc = "rxrestore"
  /\ \E st \in Results : Frame([chip EXCEPT !.rx_rd = loc.rp], st) /\ Return(ret)

ConfirmRetired ==
  /\ pc = "rsr2"
  /\ \/ \E st \in Results : Frame(chip, st) /\
          Return(IF st = "OK" /\ Rsr >= loc.len THEN "UNSTABLE" ELSE st)
     \/ UnstableRead

-----------------------------------------------------------------------------
(* w5500_socket_send.  loc.len is tx_length, loc.wp is write_pointer.      *)

Unreaped(flag) == [socket EXCEPT !.has_unreaped_send = flag]

(* Sn_IR is read to reap a send, else cleared.                             *)
ReapFrame == IF socket.has_unreaped_send THEN chip ELSE [chip EXCEPT !.ir = {}]

(* Mutant of Reap: the flag outlives the send it stands for.               *)
ReapKeepingFlag ==
  /\ pc = "reap"
  /\ \E st \in Results : Frame(ReapFrame, st) /\
       IF st # "OK" \/ ~socket.has_unreaped_send THEN Continue(st, "fsr", loc)
       ELSE IF "SENDOK" \in chip.ir THEN Goto("clearok", loc)
       ELSE IF "TIMEOUT" \in chip.ir THEN Goto("cleartimeout", loc)
       ELSE Return("TRANSIENT")

(* What became of the send before, if that was not known yet.              *)
Reap ==
  /\ pc = "reap"
  /\ \E st \in Results : Frame(ReapFrame, st) /\
       IF st # "OK" \/ ~socket.has_unreaped_send THEN Continue(st, "fsr", loc)
       ELSE IF "SENDOK" \in chip.ir
       THEN pc' = "clearok" /\ socket' = Unreaped(FALSE) /\ UNCHANGED <<ret, loc>>
       ELSE IF "TIMEOUT" \in chip.ir THEN Goto("cleartimeout", loc)
       ELSE Return("TRANSIENT")

(* Mutant of ResetTxWr: the payload stays between the pointers.            *)
TxNotReset == chip

(* What the frames of w5500_reset_tx_wr do.                                *)
ResetTxWr == [chip EXCEPT !.tx_wr = chip.tx_rd]

ClearReaped ==
  \/ /\ pc = "clearok"
     /\ \E st \in Results : Frame([chip EXCEPT !.ir = @ \ {"SENDOK"}], st) /\
          Continue(st, "fsr", loc)
  \/ /\ pc = "cleartimeout"
     /\ \E st \in Results : Frame([chip EXCEPT !.ir = @ \ {"TIMEOUT"}], st) /\
          Continue(st, "txreset", loc)
  \/ /\ pc = "txreset"
     /\ \E st \in Results : Frame(ResetTxWr, st) /\
          IF st = "OK"
          THEN pc' = "fsr" /\ socket' = Unreaped(FALSE) /\ UNCHANGED <<ret, loc>>
          ELSE Return(st)

AwaitSpace ==
  /\ pc = "fsr"
  /\ \/ \E st \in Results : Frame(chip, st) /\
          Polled(st, TxSize - (chip.tx_wr - chip.tx_rd) >= loc.len,
                 Goto("txwr", [loc EXCEPT !.tries = 0]), Return(st), Return("TRANSIENT"))
     \/ UnstableRead

(* The cells of a payload at the write pointer.                            *)
Filled ==
  [i \in 0..MaxTx - 1 |->
     IF i \in loc.wp..loc.wp + loc.len - 1
     THEN [send |-> sends, index |-> i - loc.wp + 1, of |-> loc.len]
     ELSE chip.tx[i]]

FillBuffer ==
  \/ /\ pc = "txwr"
     /\ \E st \in Results : Frame(chip, st) /\
          Continue(st, "fill", [loc EXCEPT !.wp = chip.tx_wr])
  \/ /\ pc = "fill"
     /\ \E st \in Results : Frame([chip EXCEPT !.tx = Filled], st) /\
          Continue(st, "dst", loc)
  \/ /\ pc = "dst"
     /\ \E st \in Results : Frame([chip EXCEPT !.dst = sends], st) /\
          Continue(st, "advance", loc)
  \/ /\ pc = "advance"
     /\ \E st \in Results : Frame([chip EXCEPT !.tx_wr = loc.wp + loc.len], st) /\
          Continue(st, "clearold", loc)

SendCommand ==
  \/ /\ pc = "clearold"
     /\ \E st \in Results : Frame([chip EXCEPT !.ir = @ \ {"SENDOK"}], st) /\
          Goto("sendcmd", loc)
  \/ /\ pc = "sendcmd"
     /\ LET command == IF my_req.op = "send" THEN "SEND" ELSE "SEND_MAC" IN
        \E st \in Results : Frame([chip EXCEPT !.cr = command], st) /\
          IF st = "OK" THEN Goto("sending", loc) ELSE Restore(st, "txrestore")

(* Sn_CR = 0 commits the datagram.                                         *)
AwaitCommit ==
  /\ pc = "sending"
  /\ \E st \in Results : Frame(chip, st) /\
       Polled(st, chip.cr = "none", Goto("outcome", [loc EXCEPT !.tries = 0]),
              Restore(st, "txrestore"), Restore("TRANSIENT", "txrestore"))

AwaitOutcome ==
  /\ pc = "outcome"
  /\ \E st \in Results : Frame(chip, st) /\
       Polled(st, chip.ir # {},
              IF "TIMEOUT" \in chip.ir THEN Goto("unsent", loc) ELSE Return("OK"),
              Restore(st, "txrestore"), ReturnFrom("OK", Unreaped(TRUE)))

RestoreTxWr ==
  /\ pc = "txrestore"
  /\ \E st \in Results : Frame([chip EXCEPT !.tx_wr = loc.wp], st) /\ Return(ret)

(* ARP gave up: both frames are sent whatever becomes of them.             *)
Unsent ==
  \/ pc = "unsent" /\ \E st \in Results : Frame(ResetTxWr, st) /\ Goto("cleararp", loc)
  \/ /\ pc = "cleararp"
     /\ \E st \in Results : Frame([chip EXCEPT !.ir = @ \ {"TIMEOUT"}], st) /\
          Return("UNREACHABLE")

-----------------------------------------------------------------------------
(* net_task.                                                               *)

(* A client opens its socket once, and uses it from when that succeeded    *)
(* on, as dhcp_task does; one that closes its socket may call anything at  *)
(* any time.                                                               *)
Call(c, op) ==
  /\ \/ "close" \in Ops[c]
     \/ op \notin {"open", "recv", "send", "send_mac"}
     \/ (op = "open") = (socket.status # "OPEN")
  /\ op \in {"send", "send_mac"} => sends < MaxSends
  /\ NetSendRequest(c, op)
  /\ UNCHANGED <<driverVars, spiVars, chip, ghostVars, sync>>

Entry ==
  [link |-> "link", open |-> "close", close |-> "close", recv |-> "rsr",
   send |-> "reap", send_mac |-> "reap", bad |-> "done"]

(* The request is taken and the function it names called; that one returns *)
(* W5500_ERR_ARG at once for a null pointer or a zero length.              *)
Dispatch ==
  /\ pc = "idle"
  /\ TakeRequest
  /\ LET op == current_req.op IN
     /\ pc' = IF dead THEN "done" ELSE Entry[op]
     /\ ret' = IF op = "bad" THEN "ARG" ELSE "OK"
     /\ IF op \in {"send", "send_mac"}
        THEN /\ \E n \in Lengths : loc' = [NoLocals EXCEPT !.len = n]
             /\ sends' = sends + 1
        ELSE UNCHANGED <<loc, sends>>
  /\ UNCHANGED <<socket, spiVars, chip, delivered, sync>>

NetStatus ==
  [OK |-> "OK", UNREACHABLE |-> "UNREACHABLE", UNSTABLE |-> "RETRY",
   TRANSIENT |-> "RETRY", ARG |-> "BAD_REQUEST"]

Answer ==
  /\ pc = "done" /\ (dead \/ ret \notin {"STATE", "FAULT"})
  /\ Reply(IF dead THEN "DEAD" ELSE NetStatus[ret])
  /\ pc' = "idle"
  /\ UNCHANGED <<dead, ret, loc, socket, spiVars>>

(* Mutant of Recover: SPI stays FAULTED.                                   *)
AnswerUnrecovered ==
  /\ pc = "done" /\ ~dead /\ ret = "FAULT"
  /\ Reply("FAULT")
  /\ pc' = "idle"
  /\ UNCHANGED <<dead, ret, loc, socket, spiVars>>

(* W5500_ERR_FAULT: spi1_recover, then the answer.                         *)
Recover ==
  /\ pc = "done" /\ ~dead /\ ret = "FAULT"
  /\ spi' = "READY" /\ UNCHANGED faults
  /\ Reply("FAULT")
  /\ pc' = "idle"
  /\ UNCHANGED <<dead, ret, loc, socket>>

(* W5500_ERR_STATE: w5500_init again.                                      *)
Reinit ==
  /\ pc = "done" /\ ~dead /\ ret = "STATE"
  /\ Goto("reset", loc)
  /\ UNCHANGED <<netVars, spiVars>>

(* Mutant of ReinitDone: the client is not told that the chip is gone.     *)
ReinitUnchecked ==
  /\ pc = "initdone" /\ svc = "serving"
  /\ socket' = NewSocket
  /\ dead' = (ret # "OK")
  /\ Reply("FAULT")
  /\ pc' = "idle"
  /\ UNCHANGED <<ret, loc, spiVars>>

(* ... and socket_memory_init and the answer.                              *)
ReinitDone ==
  /\ pc = "initdone" /\ svc = "serving"
  /\ socket' = NewSocket
  /\ dead' = (ret # "OK")
  /\ Reply(IF ret # "OK" THEN "DEAD" ELSE "FAULT")
  /\ pc' = "idle"
  /\ UNCHANGED <<ret, loc, spiVars>>

BootDone ==
  /\ pc = "initdone"
  /\ InitReturns(ret # "OK")
  /\ pc' = "idle"
  /\ UNCHANGED <<ret, loc, socket, spiVars>>

Frames ==
  \/ HwReset \/ ReadVersion \/ Configure
  \/ LinkUp \/ CloseCommand \/ AwaitClosed \/ OpenCommand \/ AwaitOpen \/ CheckOpen
  \/ ReadSize \/ ReadDatagram \/ Retire \/ RecvCommand \/ AwaitRecv \/ RestoreRxRd
  \/ ConfirmRetired
  \/ Reap \/ ClearReaped \/ AwaitSpace \/ FillBuffer \/ SendCommand \/ AwaitCommit
  \/ AwaitOutcome \/ RestoreTxWr \/ Unsent

(* A recv that is answered with a datagram, and an open that succeeds.     *)
Delivers == pc = "rsr2" /\ pc' = "done" /\ ret' = "OK"
Opens == pc = "portcheck" /\ socket'.status = "OPEN"

NetTask ==
  \/ /\ Frames
     /\ delivered' = IF Delivers /\ sync THEN loc.rp + 1 + loc.hlen ELSE delivered
     /\ sync' = (Opens \/ (sync /\ spi' = "READY" /\ pc' \notin {"rxrestore", "txrestore"}))
     /\ UNCHANGED <<netVars, sends>>
  \/ Dispatch
  \/ /\ Answer \/ Recover \/ Reinit \/ ReinitDone \/ BootDone
     /\ UNCHANGED <<chip, ghostVars, sync>>

-----------------------------------------------------------------------------
(* The chip.                                                               *)

Accepted ==
  CASE chip.cr = "OPEN" ->
         [Fresh EXCEPT !.sr = IF chip.mr = "UDP" THEN "UDP" ELSE "CLOSED",
                       !.mr = chip.mr, !.port = chip.port, !.ir = chip.ir]
    [] chip.cr = "CLOSE" ->
         [chip EXCEPT !.cr = "none", !.sr = "CLOSED", !.sending = NoSend]
    [] chip.cr = "RECV" ->
         [chip EXCEPT !.cr = "none",
                      !.rx_base = IF chip.rx_rd < Len(chip.rx) THEN chip.rx_rd ELSE Len(chip.rx)]
    [] chip.cr \in {"SEND", "SEND_MAC"} ->
         [chip EXCEPT !.cr = "none",
                      !.sending = IF chip.sr = "UDP"
                                  THEN [end |-> chip.tx_wr, dst |-> chip.dst, arp |-> chip.cr = "SEND"]
                                  ELSE @]

(* The chip takes a command and clears Sn_CR.                              *)
Accept ==
  /\ chip.cr # "none"
  /\ chip' = Accepted
  /\ delivered' = IF chip.cr = "OPEN" THEN 0 ELSE delivered
  /\ UNCHANGED <<faults, sync>>

(* A datagram leaves, from TX_RD up to where TX_WR was at the command; the *)
(* buffer is free again up to there.                                       *)
OnTheWire ==
  [i \in 1..chip.sending.end - chip.tx_rd |-> chip.tx[chip.tx_rd + i - 1]]

Transmit ==
  /\ chip.sending # NoSend
  /\ chip' = [chip EXCEPT !.tx_rd = chip.sending.end, !.sending = NoSend,
                          !.tx = [i \in DOMAIN @ |-> IF i < chip.sending.end THEN NoCell ELSE @[i]],
                          !.ir = @ \cup {"SENDOK"}]
  /\ UNCHANGED <<delivered, faults, sync>>

(* Nobody answers ARP for the destination: the payload stays in the buffer.*)
ArpTimeout ==
  /\ chip.sending # NoSend /\ chip.sending.arp
  /\ chip' = [chip EXCEPT !.sending = NoSend, !.ir = @ \cup {"TIMEOUT"}]
  /\ UNCHANGED <<delivered, faults, sync>>

Arrive(n) ==
  /\ chip.sr = "UDP"
  /\ Rsr + 1 + n <= RxSize /\ Len(chip.rx) + 1 + n <= MaxRx
  /\ chip' = [chip EXCEPT !.rx = @ \o <<n>> \o [i \in 1..n |-> NoHeader]]
  /\ UNCHANGED <<delivered, faults, sync>>

LosePower ==
  /\ faults < MaxFaults
  /\ faults' = faults + 1
  /\ chip' = Fresh
  /\ sync' = FALSE
  /\ UNCHANGED delivered

Chip ==
  /\ Accept \/ Transmit \/ ArpTimeout \/ (\E n \in Lengths : Arrive(n)) \/ LosePower
  /\ UNCHANGED <<netVars, driverVars, spi, sends>>

Next ==
  \/ \E c \in Clients : \E op \in Ops[c] : Call(c, op)
  \/ NetTask
  \/ Chip

Spec == Init /\ [][Next]_vars

(* net_task is never kept from running: it has the highest priority and    *)
(* its sleeps end.  Of the chip nothing is assumed.                        *)
FairSpec == Spec /\ WF_vars(NetTask)

-----------------------------------------------------------------------------
(* Properties.                                                             *)

Points ==
  {"reset", "version", "config", "initdone", "idle", "done", "link", "close",
   "closing", "mr", "port", "opencmd", "opening", "mrcheck", "portcheck", "rsr",
   "rxrd", "header", "payload", "retire", "recvcmd", "recving", "rxrestore",
   "rsr2", "reap", "clearok", "cleartimeout", "txreset", "fsr", "txwr", "fill",
   "dst", "advance", "clearold", "sendcmd", "sending", "outcome", "txrestore",
   "unsent", "cleararp"}

(* The types of the variables; a poll counter stays below its limit, so    *)
(* that "tries == 5" is met (w5500.c), and the transmit pointers stay in   *)
(* the buffer.                                                             *)
TypeOK ==
  /\ NetTypeOK
  /\ pc \in Points
  /\ ret \in {"OK", "TRANSIENT", "FAULT", "UNSTABLE", "STATE", "ARG", "UNREACHABLE"}
  /\ loc \in [tries : 0..Tries - 1, len : 0..MaxRx + TxSize, rp : Nat, hlen : Nat, wp : 0..MaxTx]
  /\ socket \in [status : {"CREATED", "OPEN", "ERROR", "CLOSED"}, has_unreaped_send : BOOLEAN]
  /\ spi \in {"READY", "FAULTED"} /\ faults \in 0..MaxFaults
  /\ chip.sr \in {"CLOSED", "UDP"} /\ chip.ir \subseteq {"SENDOK", "TIMEOUT"}
  /\ chip.tx \in [0..MaxTx - 1 -> Cells \cup {NoCell}]
  /\ {chip.tx_rd, chip.tx_wr} \subseteq 0..MaxTx
  /\ chip.rx \in Seq(Lengths \cup {NoHeader})
  /\ sends \in 0..MaxSends /\ sync \in BOOLEAN

(* A datagram is atomic: what the chip transmits while it and the driver   *)
(* agree is the whole payload of one send, to that send's destination,     *)
(* also after sends that timed out, were not waited for or were given up   *)
(* for want of space (w5500_socket_send).                                  *)
DatagramsWhole ==
  [][Transmit /\ sync =>
       /\ OnTheWire # <<>>
       /\ \A i \in DOMAIN OnTheWire :
            OnTheWire[i] = [send |-> chip.sending.dst, index |-> i, of |-> Len(OnTheWire)]]_vars

(* A send whose outcome the driver still has to reap has one: it is under  *)
(* way, or SENDOK or TIMEOUT is set.  Otherwise every later send would be  *)
(* answered RETRY for ever (has_unreaped_send in w5500_socket_send).       *)
UnreapedHasOutcome ==
  sync /\ svc = "idle" /\ socket.has_unreaped_send =>
    chip.sending # NoSend \/ chip.ir # {}

(* A recv answered with a datagram got it from its header on, and never    *)
(* one it got before or one older than that, while driver and chip agree:  *)
(* truncated copies and commands that race arrivals do not lose the place  *)
(* (w5500_socket_recv).                                                    *)
ReceivedInOrder ==
  [][Delivers /\ sync =>
       /\ loc.rp < Len(chip.rx) /\ chip.rx[loc.rp + 1] = loc.hlen
       /\ loc.rp >= delivered]_vars

(* A client whose call returns with FAULT, or with OK unless it sends,     *)
(* finds SPI working at its next call: OK means that no frame of the call  *)
(* was lost, polls that let one pass included, and FAULT that the service  *)
(* has recovered SPI (net_task).  A send is OK from its commit on, and a   *)
(* frame lost while its outcome is awaited does not change that.           *)
OkMeansHealthy ==
  [][\A c \in Clients :
       /\ calling[c] # NoCall /\ calling'[c] = NoCall
       /\ \/ slot'[c] = "FAULT"
          \/ slot'[c] = "OK" /\ calling[c] \notin {"send", "send_mac"}
       => spi' = "READY"]_vars

(* The drivers under net_task do what the service promises its clients:    *)
(* each request is answered once, with DEAD exactly from the first         *)
(* initialisation that failed on (net_task).                               *)
ServiceContract == NetSpec

(* Every system call on the network returns, whatever the chip does or     *)
(* fails to do: each wait for it is bounded (the loops of w5500.c).        *)
EveryCallReturns ==
  \A c \in Clients : calling[c] # NoCall ~> calling[c] = NoCall

(* No operation succeeds silently: a client whose call has returned has    *)
(* the status of that call in its reply slot (net_send_request,            *)
(* net_will_wait).                                                         *)
RepliesWritten ==
  \A c \in Clients : calling[c] = NoCall => slot[c] # Unset
=============================================================================
