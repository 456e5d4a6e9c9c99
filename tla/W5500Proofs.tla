---------------------------- MODULE W5500Proofs -----------------------------
(***************************************************************************)
(* Theorems about W5500, for every number of polls, all lengths, sizes of  *)
(* the chip's buffers and numbers of faults.  For any clients: the drivers *)
(* implement the service contract of Net.  For one client: it is answered  *)
(* before its call returns, OK tells it that the bus works, and the driver *)
(* has its types.  For one client that does not close its socket, as       *)
(* dhcp_task: what is in the transmit buffer settles, and datagrams leave  *)
(* whole and arrive in order.                                              *)
(***************************************************************************)
EXTENDS W5500, TLAPS

-----------------------------------------------------------------------------
(* The inductive invariants.                                               *)

\* The points of w5500_init, and those of w5500_socket_send.
Booting == {"reset", "version", "config", "initdone"}
SendPoints ==
  {"reap", "clearok", "cleartimeout", "txreset", "fsr", "txwr", "fill", "dst",
   "advance", "clearold", "sendcmd", "sending", "outcome", "txrestore", "unsent",
   "cleararp"}
Restores == {"rxrestore", "txrestore"}
Sends == {"send", "send_mac"}
DriverStatuses ==
  {"OK", "TRANSIENT", "FAULT", "UNSTABLE", "STATE", "ARG", "UNREACHABLE"}

\* The service: what was posted is a request, and a service that is dead
\* initialises the chip no more.
Service ==
  /\ NetTypeOK
  /\ net_posted > 0 => current_req \in Requests
  /\ svc = "serving" => my_req \in Requests
  /\ ret \in DriverStatuses
  /\ svc = "serving" /\ pc \in Booting => ~dead

\* The only client c: its call is in the mailbox, or being served, or over
\* and answered.
OneCall(c) ==
  /\ net_done = 0
  /\ calling[c] = NoCall =>
       waiting = <<>> /\ net_posted = 0 /\ svc # "serving" /\ slot[c] # Unset
  /\ calling[c] # NoCall =>
       /\ waiting = <<c>>
       /\ svc = "serving" => net_posted = 0 /\ my_req = [client |-> c, op |-> calling[c]]
       /\ svc # "serving" => net_posted = 1 /\ current_req = [client |-> c, op |-> calling[c]]

\* The bus: a driver function that takes a pointer back has failed, and one
\* that has succeeded has lost no frame, unless it sends.
Bus ==
  /\ pc \in SendPoints => my_req.op \in Sends
  /\ pc \in Restores => ret # "OK"
  /\ pc = "done" /\ ~dead /\ ret = "OK" /\ my_req.op \notin Sends => spi = "READY"
  /\ pc = "initdone" /\ ret = "OK" => spi = "READY"

-----------------------------------------------------------------------------
(* The driver's frames.                                                    *)

\* What a frame's status says of SPI.
LEMMA FrameStatus ==
  ASSUME NEW after, NEW st \in Results, Frame(after, st)
  PROVE  st = "OK" => spi' = "READY"
  BY DEF Frame, spiVars

\* Where a step of the driver may lead: into w5500_init and
\* w5500_socket_send only from within, to a pointer that is taken back only
\* with an error, and to OK only with a bus that works.
Leads ==
  /\ ret' \in DriverStatuses
  /\ pc' \in Booting => pc \in Booting
  /\ pc' \in SendPoints => pc \in SendPoints
  /\ pc' \in Restores => ret' # "OK"
  /\ pc' \in {"done", "initdone"} /\ ret' = "OK" => spi' = "READY" \/ pc \in SendPoints

\* The frames of w5500_init, w5500_link_up, w5500_socket_close and
\* w5500_socket_open.
LEMMA OpenLeads ==
  ASSUME ret \in DriverStatuses,
         \/ HwReset \/ ReadVersion \/ Configure \/ LinkUp \/ CloseCommand
         \/ AwaitClosed \/ OpenCommand \/ AwaitOpen \/ CheckOpen
  PROVE  Leads
<1> USE DEF Leads, Booting, SendPoints, Restores, DriverStatuses
<1>1. CASE HwReset
  BY <1>1 DEF HwReset, Goto
<1>2. CASE ReadVersion
  BY <1>2, FrameStatus DEF ReadVersion, Goto, Return, ReturnFrom, Results
<1>3. CASE Configure
  BY <1>3, FrameStatus DEF Configure, Return, ReturnFrom, Results
<1>4. CASE LinkUp
  BY <1>4, FrameStatus DEF LinkUp, Return, ReturnFrom, Results
<1>5. CASE CloseCommand
  BY <1>5 DEF CloseCommand, Goto
<1>6. CASE AwaitClosed
  BY <1>6, FrameStatus DEF AwaitClosed, Polled, Goto, Return, ReturnFrom, Results
<1>7. CASE OpenCommand
  BY <1>7, FrameStatus DEF OpenCommand, Continue, Goto, Return, ReturnFrom, Results
<1>8. CASE AwaitOpen
  BY <1>8, FrameStatus DEF AwaitOpen, OpenFailed, Polled, Goto, Return, ReturnFrom, Results
<1>9. CASE CheckOpen
  BY <1>9, FrameStatus DEF CheckOpen, OpenFailed, Goto, ReturnFrom, Results
<1> QED
  BY <1>1, <1>2, <1>3, <1>4, <1>5, <1>6, <1>7, <1>8, <1>9

\* The frames of w5500_socket_recv.
LEMMA RecvLeads ==
  ASSUME ret \in DriverStatuses, pc \in Restores => ret # "OK",
         \/ ReadSize \/ ReadDatagram \/ Retire \/ RecvCommand \/ AwaitRecv
         \/ RestoreRxRd \/ ConfirmRetired
  PROVE  Leads
<1> USE DEF Leads, Booting, SendPoints, Restores, DriverStatuses
<1>1. CASE ReadSize
  BY <1>1, FrameStatus DEF ReadSize, UnstableRead, Continue, Goto, Return, ReturnFrom, Results
<1>2. CASE ReadDatagram
  BY <1>2, FrameStatus DEF ReadDatagram, Continue, Goto, Return, ReturnFrom, Results
<1>3. CASE Retire
  BY <1>3, FrameStatus DEF Retire, Continue, Goto, Return, ReturnFrom, Results
<1>4. CASE RecvCommand
  BY <1>4, FrameStatus DEF RecvCommand, Restore, Goto, Results
<1>5. CASE AwaitRecv
  BY <1>5, FrameStatus DEF AwaitRecv, Polled, Restore, Goto, Results
<1>6. CASE RestoreRxRd
  BY <1>6, FrameStatus DEF RestoreRxRd, Return, ReturnFrom, Results
<1>7. CASE ConfirmRetired
  BY <1>7, FrameStatus DEF ConfirmRetired, UnstableRead, Return, ReturnFrom, Results
<1> QED
  BY <1>1, <1>2, <1>3, <1>4, <1>5, <1>6, <1>7

\* The frames of w5500_socket_send.
LEMMA SendLeads ==
  ASSUME ret \in DriverStatuses, pc \in Restores => ret # "OK",
         \/ Reap \/ ClearReaped \/ AwaitSpace \/ FillBuffer \/ SendCommand
         \/ AwaitCommit \/ AwaitOutcome \/ RestoreTxWr \/ Unsent
  PROVE  Leads
<1> USE DEF Leads, Booting, SendPoints, Restores, DriverStatuses
<1>1. CASE Reap
  BY <1>1 DEF Reap, Continue, Goto, Return, ReturnFrom, Results
<1>2. CASE ClearReaped
  BY <1>2 DEF ClearReaped, Continue, Goto, Return, ReturnFrom, Results
<1>3. CASE AwaitSpace
  BY <1>3 DEF AwaitSpace, UnstableRead, Polled, Goto, Return, ReturnFrom, Results
<1>4. CASE FillBuffer
  BY <1>4 DEF FillBuffer, Continue, Goto, Return, ReturnFrom, Results
<1>5. CASE SendCommand
  BY <1>5 DEF SendCommand, Restore, Goto, Results
<1>6. CASE AwaitCommit
  BY <1>6 DEF AwaitCommit, Polled, Restore, Goto, Results
<1>7. CASE AwaitOutcome
  BY <1>7 DEF AwaitOutcome, Polled, Restore, Goto, Return, ReturnFrom, Results
<1>8. CASE RestoreTxWr
  BY <1>8 DEF RestoreTxWr, Return, ReturnFrom, Results
<1>9. CASE Unsent
  BY <1>9 DEF Unsent, Goto, Return, ReturnFrom, Results
<1> QED
  BY <1>1, <1>2, <1>3, <1>4, <1>5, <1>6, <1>7, <1>8, <1>9

\* Every frame that a driver function sends, whichever function it is.
LEMMA FramesLead ==
  ASSUME ret \in DriverStatuses, pc \in Restores => ret # "OK", Frames
  PROVE  Leads
  BY OpenLeads, RecvLeads, SendLeads DEF Frames

-----------------------------------------------------------------------------
(* The steps of net_task around the frames, and the others.                *)

\* Statuses of the service; NetStatus never says DEAD.
LEMMA NetStatusType ==
  ASSUME NEW r \in DriverStatuses \ {"STATE", "FAULT"}
  PROVE  NetStatus[r] \in Statuses \ {"DEAD"}
  BY DEF NetStatus, DriverStatuses, Statuses

\* The answers: which status, and what becomes of dead.
LEMMA AnswerStatus ==
  ASSUME Service, Answer \/ Recover \/ ReinitDone
  PROVE  \E status \in Statuses :
           /\ Reply(status) /\ dead' = (status = "DEAD") /\ (dead => dead')
           /\ status = "OK" => ~dead /\ ret = "OK" /\ pc = "done"
           /\ status = "OK" => spi' = spi
           /\ status = "FAULT" => spi' = "READY" \/ (spi' = spi /\ pc = "initdone" /\ ret = "OK")
           /\ pc' = "idle" /\ ret' = ret
<1> USE DEF Statuses
<1>1. ret \in DriverStatuses /\ dead \in BOOLEAN
      /\ (svc = "serving" /\ pc \in Booting => ~dead)
  BY DEF Service, NetTypeOK
<1>2. CASE Answer
  <2>1. CASE dead
    BY <1>1, <1>2, <2>1 DEF Answer
  <2>2. CASE ~dead
    <3>1. ret \in DriverStatuses \ {"STATE", "FAULT"}
      BY <1>1, <1>2, <2>2 DEF Answer
    <3>2. PICK status \in Statuses \ {"DEAD"} : status = NetStatus[ret]
      BY <3>1, NetStatusType
    <3>3. status # "FAULT" /\ (status = "OK" => ret = "OK")
      BY <3>1, <3>2 DEF NetStatus, DriverStatuses
    <3>4. Reply(status) /\ dead' = dead /\ pc' = "idle" /\ ret' = ret /\ pc = "done"
          /\ spi' = spi
      BY <1>2, <2>2, <3>2 DEF Answer, spiVars
    <3> QED
      BY <1>1, <2>2, <3>2, <3>3, <3>4
  <2> QED
    BY <2>1, <2>2
<1>3. CASE Recover
  BY <1>1, <1>3 DEF Recover
<1>4. CASE ReinitDone
  BY <1>1, <1>4 DEF ReinitDone, Booting, spiVars
<1> QED
  BY <1>2, <1>3, <1>4

\* Both invariants hold when net_task starts.
LEMMA ServiceInit == Init => Service /\ Bus
<1> SUFFICES ASSUME Init PROVE Service /\ Bus
  OBVIOUS
<1>1. /\ current_req = NoRequest /\ my_req = NoRequest /\ net_posted = 0 /\ net_done = 0
      /\ waiting = <<>> /\ svc = "init" /\ dead = FALSE /\ pc = "reset" /\ ret = "OK"
  BY DEF Init, NetInit
<1>2. calling \in [Clients -> Operations \cup {NoCall}]
  BY DEF Init, NetInit
<1>3. slot \in [Clients -> Statuses \cup {Unset, NoCall}]
  BY DEF Init, NetInit
<1>4. waiting \in Seq(Clients)
  BY <1>1
<1>5. NetTypeOK
  BY <1>1, <1>2, <1>3, <1>4 DEF NetTypeOK
<1>6. Service
  BY <1>1, <1>5 DEF Service, DriverStatuses
<1>7. Bus
  BY <1>1 DEF Bus, SendPoints, Restores
<1> QED
  BY <1>6, <1>7

\* What an answer does to the service's variables.
LEMMA ReplyTypes ==
  ASSUME Service, NEW status \in Statuses, Reply(status), dead' \in BOOLEAN
  PROVE  NetTypeOK' /\ svc' = "idle"
         /\ UNCHANGED <<current_req, net_posted>>
<1>1. /\ svc = "serving" /\ svc' = "idle" /\ my_req' = NoRequest
      /\ UNCHANGED <<current_req, net_posted>>
      /\ slot' = [slot EXCEPT ![my_req.client] = status] /\ PostDone
  BY DEF Reply
<1>2. NetTypeOK /\ my_req \in Requests
  BY <1>1 DEF Service
<1>3. slot' \in [Clients -> Statuses \cup {Unset, NoCall}]
  BY <1>1, <1>2 DEF NetTypeOK
<1>4. /\ net_done' \in Nat /\ waiting' \in Seq(Clients)
      /\ calling' \in [Clients -> Operations \cup {NoCall}]
  <2>1. CASE waiting = <<>>
    BY <1>1, <1>2, <2>1 DEF PostDone, NetTypeOK
  <2>2. CASE waiting # <<>>
    <3>1. waiting \in Seq(Clients) /\ Head(waiting) \in Clients /\ Tail(waiting) \in Seq(Clients)
      BY <1>2, <2>2 DEF NetTypeOK
    <3> QED
      BY <1>1, <1>2, <2>2, <3>1 DEF PostDone, NetTypeOK
  <2> QED
    BY <2>1, <2>2
<1> QED
  BY <1>1, <1>2, <1>3, <1>4 DEF NetTypeOK

\* A client's call leaves the driver alone.
LEMMA CallStep ==
  ASSUME Service, Bus, NEW c \in Clients, NEW op \in Ops[c], Call(c, op)
  PROVE  Service' /\ Bus' /\ op \in Operations /\ NetSendRequest(c, op)
<1>1. op \in Operations
  BY ClientsAssumption
<1>2. /\ NetSendRequest(c, op)
      /\ UNCHANGED <<pc, ret, spi>>
  BY DEF Call, driverVars, spiVars
<1>3. [client |-> c, op |-> op] \in Requests
  BY <1>1 DEF Requests
<1>4. /\ current_req' = [client |-> c, op |-> op] /\ net_posted' = net_posted + 1
      /\ slot' = [slot EXCEPT ![c] = Unset]
      /\ NetWillWait(c, op) /\ UNCHANGED <<my_req, svc, dead>>
  BY <1>2 DEF NetSendRequest
<1>5. NetTypeOK
  BY DEF Service
<1>6. /\ net_done' \in Nat /\ waiting' \in Seq(Clients)
      /\ calling' \in [Clients -> Operations \cup {NoCall}]
  <2>1. /\ net_done \in Nat /\ waiting \in Seq(Clients)
        /\ calling \in [Clients -> Operations \cup {NoCall}]
    BY <1>5 DEF NetTypeOK
  <2>2. CASE net_done > 0
    BY <1>4, <2>1, <2>2 DEF NetWillWait
  <2>3. CASE ~(net_done > 0)
    <3>1. /\ waiting' = Append(waiting, c) /\ net_done' = net_done
          /\ calling' = [calling EXCEPT ![c] = op]
      BY <1>4, <2>3 DEF NetWillWait
    <3>2. Append(waiting, c) \in Seq(Clients)
      BY <2>1
    <3> QED
      BY <1>1, <2>1, <3>1, <3>2
  <2> QED
    BY <2>2, <2>3
<1>7. NetTypeOK'
  BY <1>3, <1>4, <1>5, <1>6 DEF NetTypeOK
<1>8. Service'
  BY <1>2, <1>3, <1>4, <1>7 DEF Service
<1>9. Bus'
  BY <1>2, <1>4 DEF Bus
<1> QED
  BY <1>1, <1>2, <1>8, <1>9

\* Taking a request starts the driver function it names.
LEMMA DispatchStep ==
  ASSUME Service, Bus, Dispatch
  PROVE  Service' /\ Bus' /\ TakeRequest
<1>1. /\ pc = "idle" /\ TakeRequest
      /\ pc' = IF dead THEN "done" ELSE Entry[current_req.op]
      /\ ret' = IF current_req.op = "bad" THEN "ARG" ELSE "OK"
      /\ spi' = spi
  BY DEF Dispatch, spiVars
<1>2. /\ net_posted > 0 /\ net_posted' = net_posted - 1 /\ my_req' = current_req
      /\ svc' = "serving"
      /\ UNCHANGED <<current_req, net_done, waiting, calling, slot, dead>>
  BY <1>1 DEF TakeRequest
<1>3. current_req \in Requests /\ NetTypeOK
  BY <1>2 DEF Service
<1>4. PICK op \in Operations : op = current_req.op
  BY <1>3 DEF Requests
<1>5. Entry[op] \notin Booting \cup Restores /\ (Entry[op] \in SendPoints => op \in Sends)
      /\ (Entry[op] = "done" => op = "bad")
  BY DEF Entry, Operations, Booting, Restores, SendPoints, Sends
<1>6. NetTypeOK'
  BY <1>2, <1>3 DEF NetTypeOK
<1>7. "done" \notin Booting \cup SendPoints \cup Restores
  BY DEF Booting, SendPoints, Restores
<1>8. ret' \in DriverStatuses /\ dead' \in BOOLEAN
  BY <1>1, <1>2, <1>3 DEF DriverStatuses, NetTypeOK
<1>9. pc' \notin Booting \cup Restores
  BY <1>1, <1>4, <1>5, <1>7
<1>10. Service'
  BY <1>2, <1>3, <1>6, <1>8, <1>9 DEF Service
<1>11. pc' \in SendPoints => my_req'.op \in Sends
  BY <1>1, <1>2, <1>4, <1>5, <1>7
<1>12. pc' = "done" /\ ~dead' => ret' # "OK"
  BY <1>1, <1>2, <1>4, <1>5
<1>13. "initdone" \in Booting
  BY DEF Booting
<1>14. Bus'
  BY <1>9, <1>11, <1>12, <1>13 DEF Bus
<1> QED
  BY <1>1, <1>10, <1>14

\* Answers and the end of an initialisation leave the driver idle.
LEMMA AnswerStep ==
  ASSUME Service, Bus, Answer \/ Recover \/ ReinitDone
  PROVE  Service' /\ Bus'
<1>1. PICK status \in Statuses :
         /\ Reply(status) /\ dead' = (status = "DEAD")
         /\ pc' = "idle" /\ ret' = ret
  BY AnswerStatus
<1>2. dead' \in BOOLEAN
  BY <1>1
<1>3. NetTypeOK' /\ svc' = "idle" /\ UNCHANGED <<current_req, net_posted>>
  BY <1>1, <1>2, ReplyTypes
<1>4. Service'
  BY <1>1, <1>3 DEF Service
<1>5. Bus'
  BY <1>1 DEF Bus, SendPoints, Restores
<1> QED
  BY <1>4, <1>5

\* Every step keeps both invariants.
LEMMA ServiceStep == (Service /\ Bus) /\ [Next]_vars => (Service /\ Bus)'
<1> SUFFICES ASSUME Service, Bus, [Next]_vars PROVE Service' /\ Bus'
  OBVIOUS
<1>1. ASSUME NEW c \in Clients, NEW op \in Ops[c], Call(c, op) PROVE Service' /\ Bus'
  BY <1>1, CallStep
<1>2. CASE Frames /\ UNCHANGED netVars
  <2>1. Leads
    BY <1>2, FramesLead DEF Service, Bus
  <2>2. UNCHANGED <<current_req, my_req, net_posted, net_done, waiting, calling, slot,
                    svc, dead>>
    BY <1>2 DEF netVars
  <2>3. NetTypeOK'
    BY <2>2 DEF Service, NetTypeOK
  <2>4. Service'
    BY <2>1, <2>2, <2>3 DEF Service, Leads
  <2>5. Bus'
    <3>1. pc' = "initdone" => pc \notin SendPoints
      BY <2>1 DEF Leads, Booting, SendPoints
    <3> QED
      BY <2>1, <2>2, <3>1 DEF Bus, Leads
  <2> QED
    BY <2>4, <2>5
<1>3. CASE Dispatch
  BY <1>3, DispatchStep
<1>4. CASE Answer \/ Recover \/ ReinitDone
  BY <1>4, AnswerStep
<1>5. CASE Reinit
  <2>1. /\ ~dead /\ pc' = "reset" /\ ret' = ret
        /\ UNCHANGED <<current_req, my_req, net_posted, net_done, waiting, calling,
                       slot, svc, dead>>
    BY <1>5 DEF Reinit, Goto, netVars
  <2> QED
    BY <2>1 DEF Service, NetTypeOK, Bus, SendPoints, Restores
<1>6. CASE BootDone
  <2>1. /\ pc' = "idle" /\ ret' = ret /\ svc' = "idle" /\ dead' \in BOOLEAN
        /\ UNCHANGED <<current_req, my_req, net_posted, net_done, waiting, calling,
                       slot>>
    BY <1>6 DEF BootDone, InitReturns
  <2> QED
    BY <2>1 DEF Service, NetTypeOK, Bus, SendPoints, Restores
<1>7. CASE Chip \/ UNCHANGED vars
  <2>1. /\ UNCHANGED <<pc, ret, spi>>
        /\ UNCHANGED <<current_req, my_req, net_posted, net_done, waiting, calling,
                       slot, svc, dead>>
    BY <1>7 DEF Chip, vars, netVars, driverVars, spiVars
  <2> QED
    BY <2>1 DEF Service, NetTypeOK, Bus
<1> QED
  BY <1>1, <1>2, <1>3, <1>4, <1>5, <1>6, <1>7 DEF Next, NetTask

-----------------------------------------------------------------------------
(* The service contract.                                                   *)

\* net_task with the drivers under it does what the service promises, for any
\* number of clients and whatever the chip does: it takes each posted request
\* once and answers it, with DEAD exactly from the first initialisation that
\* failed on (net_task).
THEOREM ServiceImplemented == Spec => ServiceContract
<1>1. Init => Service /\ Bus
  BY ServiceInit
<1>2. (Service /\ Bus) /\ [Next]_vars => (Service /\ Bus)'
  BY ServiceStep
<1>3. Init => NetInit
  BY DEF Init
<1>4. (Service /\ Bus) /\ [Next]_vars => [NetNext]_netVars
  <2> SUFFICES ASSUME Service, Bus, [Next]_vars PROVE NetNext \/ UNCHANGED netVars
    OBVIOUS
  <2>1. ASSUME NEW c \in Clients, NEW op \in Ops[c], Call(c, op) PROVE NetNext
    BY <2>1, CallStep DEF NetNext
  <2>2. CASE Dispatch
    BY <2>2, DispatchStep DEF NetNext
  <2>3. CASE Answer \/ Recover \/ ReinitDone
    <3>1. PICK status \in Statuses :
            Reply(status) /\ dead' = (status = "DEAD") /\ (dead => dead')
      BY <2>3, AnswerStatus
    <3> QED
      BY <3>1 DEF NetNext
  <2>4. CASE BootDone
    <3>1. InitReturns(ret # "OK")
      BY <2>4 DEF BootDone
    <3>2. (ret # "OK") \in BOOLEAN
      OBVIOUS
    <3>3. \E failed \in BOOLEAN : InitReturns(failed)
      BY <3>1, <3>2
    <3> QED
      BY <3>3 DEF NetNext
  <2>5. CASE (Frames /\ UNCHANGED netVars) \/ Reinit \/ Chip \/ UNCHANGED vars
    BY <2>5 DEF Reinit, Chip, vars
  <2> QED
    BY <2>1, <2>2, <2>3, <2>4, <2>5 DEF Next, NetTask
<1> QED
  BY <1>1, <1>2, <1>3, <1>4, PTL DEF Spec, ServiceContract, NetSpec

-----------------------------------------------------------------------------
(* One client.                                                             *)

\* The call of the only client, from the mailbox to the answer.
LEMMA OneCallReply ==
  ASSUME NEW c, Clients = {c}, Service, OneCall(c), NEW status \in Statuses,
         Reply(status)
  PROVE  /\ calling[c] # NoCall /\ my_req = [client |-> c, op |-> calling[c]]
         /\ slot'[c] = status /\ calling'[c] = NoCall
         /\ OneCall(c)'
<1>1. NetTypeOK
  BY DEF Service
<1>2. svc = "serving"
  BY DEF Reply
<1>3. /\ calling[c] # NoCall /\ waiting = <<c>> /\ net_posted = 0 /\ net_done = 0
      /\ my_req = [client |-> c, op |-> calling[c]]
  BY <1>2 DEF OneCall
<1>4. my_req.client = c
  BY <1>3
<1>5. slot' = [slot EXCEPT ![c] = status] /\ svc' = "idle" /\ net_posted' = net_posted
      /\ PostDone
  BY <1>4 DEF Reply
<1>6. slot'[c] = status
  BY <1>1, <1>5 DEF NetTypeOK
<1>7. <<c>> # <<>> /\ Head(<<c>>) = c /\ Tail(<<c>>) = <<>>
  OBVIOUS
<1>8. waiting' = <<>> /\ calling' = [calling EXCEPT ![c] = NoCall] /\ net_done' = net_done
  BY <1>3, <1>5, <1>7 DEF PostDone
<1>9. calling'[c] = NoCall
  BY <1>1, <1>8 DEF NetTypeOK
<1>10. status # Unset
  BY DEF Statuses, Unset
<1>11. OneCall(c)'
  BY <1>3, <1>5, <1>6, <1>8, <1>9, <1>10 DEF OneCall
<1> QED
  BY <1>3, <1>6, <1>9, <1>11

\* With one client the mailbox never holds a request that nobody waits for.
LEMMA OneCallStep ==
  ASSUME NEW c, Clients = {c}
  PROVE  Service /\ Bus /\ OneCall(c) /\ [Next]_vars => OneCall(c)'
<1> SUFFICES ASSUME Service, Bus, OneCall(c), [Next]_vars PROVE OneCall(c)'
  OBVIOUS
<1>1. NetTypeOK
  BY DEF Service
<1>2. ASSUME NEW op \in Ops[c], Call(c, op) PROVE OneCall(c)'
  <2>1. op \in Operations /\ NetSendRequest(c, op)
    BY <1>2, CallStep
  <2>2. /\ calling[c] = NoCall /\ current_req' = [client |-> c, op |-> op]
        /\ net_posted' = net_posted + 1 /\ NetWillWait(c, op) /\ svc' = svc
    BY <2>1 DEF NetSendRequest
  <2>3. waiting = <<>> /\ net_posted = 0 /\ svc # "serving" /\ net_done = 0
    BY <2>2 DEF OneCall
  <2>4. /\ waiting' = Append(<<>>, c) /\ calling' = [calling EXCEPT ![c] = op]
        /\ net_done' = 0
    BY <2>2, <2>3 DEF NetWillWait
  <2>5. waiting' = <<c>>
    BY <2>4
  <2>6. calling'[c] = op /\ op # NoCall
    BY <1>1, <2>1, <2>4 DEF NetTypeOK, Operations, NoCall
  <2> QED
    BY <2>2, <2>3, <2>4, <2>5, <2>6 DEF OneCall
<1>3. CASE Dispatch
  <2>1. TakeRequest
    BY <1>3 DEF Dispatch
  <2>2. /\ svc = "idle" /\ net_posted > 0 /\ net_posted' = net_posted - 1
        /\ my_req' = current_req /\ svc' = "serving"
        /\ UNCHANGED <<net_done, waiting, calling, slot>>
    BY <2>1 DEF TakeRequest
  <2>3. calling[c] # NoCall /\ net_posted = 1
    BY <2>2 DEF OneCall
  <2> QED
    BY <2>2, <2>3 DEF OneCall
<1>4. CASE Answer \/ Recover \/ ReinitDone
  <2>1. PICK status \in Statuses : Reply(status)
    BY <1>4, AnswerStatus
  <2> QED
    BY <2>1, OneCallReply
<1>5. CASE BootDone
  BY <1>5 DEF BootDone, InitReturns, OneCall
<1>6. CASE (Frames /\ UNCHANGED netVars) \/ Reinit \/ Chip \/ UNCHANGED vars
  BY <1>6 DEF Reinit, Chip, vars, netVars, OneCall
<1> QED
  BY <1>2, <1>3, <1>4, <1>5, <1>6 DEF Next, NetTask

\* The invariant of the one-client theorems holds at the start.
LEMMA OneCallInit ==
  ASSUME NEW c, Clients = {c}
  PROVE  Init => OneCall(c)
  BY DEF Init, NetInit, OneCall, NoCall, Unset

\* A client that is alone finds the status of its call in its reply slot when
\* the call returns.  (With two clients it need not: the run net_two.)
THEOREM LoneClientAnswered ==
  (\E c : Clients = {c}) => (Spec => []RepliesWritten)
<1> SUFFICES ASSUME NEW c, Clients = {c} PROVE Spec => []RepliesWritten
  OBVIOUS
<1>1. Init => Service /\ Bus /\ OneCall(c)
  BY ServiceInit, OneCallInit
<1>2. (Service /\ Bus /\ OneCall(c)) /\ [Next]_vars => (Service /\ Bus /\ OneCall(c))'
  BY ServiceStep, OneCallStep
<1>3. Service /\ Bus /\ OneCall(c) => RepliesWritten
  BY DEF OneCall, RepliesWritten
<1> QED
  BY <1>1, <1>2, <1>3, PTL DEF Spec

\* A client that is alone and gets FAULT, or OK for anything but a send, has a
\* bus that works (net_task, spi1_recover).
THEOREM LoneClientHealthy ==
  (\E u : Clients = {u}) => (Spec => OkMeansHealthy)
<1> SUFFICES ASSUME NEW u, Clients = {u} PROVE Spec => OkMeansHealthy
  OBVIOUS
<1> DEFINE Healthy ==
      \A c \in Clients :
       /\ calling[c] # NoCall /\ calling'[c] = NoCall
       /\ \/ slot'[c] = "FAULT"
          \/ slot'[c] = "OK" /\ calling[c] \notin {"send", "send_mac"}
       => spi' = "READY"
<1>1. Init => Service /\ Bus /\ OneCall(u)
  BY ServiceInit, OneCallInit
<1>2. (Service /\ Bus /\ OneCall(u)) /\ [Next]_vars => (Service /\ Bus /\ OneCall(u))'
  BY ServiceStep, OneCallStep
<1>3. (Service /\ Bus /\ OneCall(u)) /\ [Next]_vars => [Healthy]_vars
  <2> SUFFICES ASSUME Service, Bus, OneCall(u), Next,
                      calling[u] # NoCall, calling'[u] = NoCall,
                      \/ slot'[u] = "FAULT"
                      \/ slot'[u] = "OK" /\ calling[u] \notin {"send", "send_mac"}
               PROVE  spi' = "READY"
    OBVIOUS
  <2>1. ASSUME NEW op \in Ops[u], Call(u, op) PROVE FALSE
    BY <2>1 DEF Call, NetSendRequest
  <2>2. CASE Answer \/ Recover \/ ReinitDone
    <3>1. PICK status \in Statuses :
           /\ Reply(status)
           /\ status = "OK" => ~dead /\ ret = "OK" /\ pc = "done"
           /\ status = "OK" => spi' = spi
           /\ status = "FAULT" => spi' = "READY" \/ (spi' = spi /\ pc = "initdone" /\ ret = "OK")
      BY <2>2, AnswerStatus
    <3>2. my_req = [client |-> u, op |-> calling[u]] /\ slot'[u] = status
      BY <3>1, OneCallReply
    <3>3. CASE status = "FAULT"
      BY <3>1, <3>3 DEF Bus
    <3>4. CASE status = "OK" /\ calling[u] \notin {"send", "send_mac"}
      <4>1. my_req.op \notin Sends
        BY <3>2, <3>4 DEF Sends
      <4> QED
        BY <3>1, <3>4, <4>1 DEF Bus
    <3> QED
      BY <3>2, <3>3, <3>4
  <2>3. CASE \/ Frames /\ UNCHANGED netVars
             \/ Dispatch \/ BootDone \/ Reinit \/ Chip
    BY <2>3 DEF Dispatch, TakeRequest, BootDone, InitReturns, Reinit, Chip, netVars
  <2> QED
    BY <2>1, <2>2, <2>3 DEF Next, NetTask
<1> HIDE DEF Healthy
<1>4. Spec => [][Healthy]_vars
  BY <1>1, <1>2, <1>3, PTL DEF Spec
<1> QED
  BY <1>4, PTL DEF OkMeansHealthy, Healthy

-----------------------------------------------------------------------------
(* The inductive invariants of the one client's socket.                    *)

\* The points of w5500_socket_close and w5500_socket_open, and those of
\* w5500_socket_recv; those of w5500_socket_send before TX_WR is moved.
OpenPoints ==
  {"close", "closing", "mr", "port", "opencmd", "opening", "mrcheck", "portcheck"}
RecvPoints ==
  {"rsr", "rxrd", "header", "payload", "retire", "recvcmd", "recving", "rsr2"}
EarlySends ==
  {"reap", "clearok", "cleartimeout", "txreset", "fsr", "txwr", "fill", "dst", "advance"}
SendCommands == {"SEND", "SEND_MAC"}

Locals ==
  [tries : 0..Tries - 1, len : 0..MaxRx + TxSize, rp : Nat, hlen : Nat, wp : Nat]
Sockets == [status : {"CREATED", "OPEN", "ERROR", "CLOSED"}, has_unreaped_send : BOOLEAN]
Buffers == [0..MaxTx - 1 -> Cells \cup {NoCell}]
Sendings == [end : Nat, dst : Nat, arp : BOOLEAN]
Registers ==
  [sr : {"CLOSED", "UDP"}, cr : {"none", "OPEN", "CLOSE", "RECV", "SEND", "SEND_MAC"},
   mr : {"none", "UDP"}, port : {"none", "set"}, ir : SUBSET {"SENDOK", "TIMEOUT"},
   dst : Nat, tx : Buffers, tx_rd : Nat, tx_wr : Nat, sending : Sendings,
   rx : Seq(Lengths \cup {NoHeader}), rx_base : Nat, rx_rd : Nat]

\* The driver has its types.  A send that was asked for is one that may still
\* be counted, and one that is under way has been counted.
Typed ==
  /\ pc \in Points /\ loc \in Locals /\ socket \in Sockets
  /\ spi \in {"READY", "FAULTED"} /\ faults \in 0..MaxFaults
  /\ sends \in 0..MaxSends /\ sync \in BOOLEAN /\ delivered \in Nat
  /\ net_posted > 0 /\ current_req.op \in Sends => sends < MaxSends
  /\ pc \in SendPoints => loc.len \in Lengths /\ sends > 0

\* The room that a number of sends takes, and the one taken so far: each send
\* moves the pointers by at most the size of the buffer, once.
Room(n) == n * TxSize
Taken == IF pc \in EarlySends THEN Room(sends - 1) ELSE Room(sends)

\* The chip has its types, and its transmit pointers are within a room.
Fits(x, room) ==
  /\ x \in Registers
  /\ x.rx_base <= Len(x.rx) /\ Len(x.rx) <= MaxRx
  /\ x.tx_rd <= room /\ x.tx_wr <= room /\ x.sending.end <= room
Within == Fits(chip, Taken) /\ loc.wp <= Taken

\* Where net_task is.
Placed ==
  /\ svc = "init" => pc \in Booting
  /\ svc = "idle" <=> pc = "idle"

\* Datagrams lie one behind the other in the receive buffer.
Boundary(rx, p) ==
  p \in Nat /\ (p = Len(rx) \/ (p < Len(rx) /\ rx[p + 1] # NoHeader))
Chained ==
  /\ Boundary(chip.rx, 0)
  /\ \A p \in 0..Len(chip.rx) - 1 :
       chip.rx[p + 1] # NoHeader => Boundary(chip.rx, p + 1 + chip.rx[p + 1])

\* A socket that is not open yet: nothing was sent or received, and the open
\* under way, if no frame of it was lost, will find the chip as OPEN left it.
Unopened ==
  socket.status # "OPEN" =>
    /\ ~sync /\ delivered = 0 /\ ~socket.has_unreaped_send
    /\ pc \in Booting \cup {"idle", "done", "link"} \cup OpenPoints
    /\ net_posted > 0 => current_req.op \notin Sends \cup {"recv"}
    /\ chip.ir = {} /\ chip.sending = NoSend /\ chip.tx_rd = 0 /\ chip.tx_wr = 0
    /\ chip.rx_base = 0 /\ chip.rx_rd = 0 /\ chip.cr \in {"none", "OPEN", "CLOSE"}
    /\ spi = "READY" =>
         /\ pc \in {"closing", "mr", "port", "opencmd"} => chip.cr \in {"none", "CLOSE"}
         /\ pc \in {"mr", "port", "opencmd"} => chip.sr = "CLOSED"
         /\ pc = "opening" /\ chip.sr = "UDP" => chip.cr = "none"
         /\ pc \in {"mrcheck", "portcheck"} =>
              chip.cr = "none" /\ (chip.port = "set" => chip.sr = "UDP")

\* An open socket is not opened again, nor the chip initialised.
Opened ==
  socket.status = "OPEN" =>
    /\ pc \notin Booting \cup OpenPoints
    /\ pc \in Restores \cup {"done"} => ret # "STATE"
    /\ net_posted > 0 => current_req.op \notin {"open", "close"}

\* While driver and chip agree: the bus works, and a command is pending only
\* while the driver waits for it.
Agreed ==
  sync =>
    /\ socket.status = "OPEN" /\ spi = "READY" /\ pc \notin Restores
    /\ chip.sr = "UDP"
    /\ chip.cr # "none" => \/ pc = "recving" /\ chip.cr = "RECV"
                           \/ pc = "sending" /\ chip.cr \in SendCommands

\* ... the receive pointer is at a header, and the driver's copy of it too;
Receiving ==
  sync =>
    /\ Boundary(chip.rx, chip.rx_rd) /\ delivered <= chip.rx_rd
    /\ pc \notin {"recvcmd", "recving"} \/ (pc = "recving" /\ chip.cr = "none") =>
         chip.rx_rd = chip.rx_base
    /\ pc = "rxrd" => chip.rx_rd < Len(chip.rx)
    /\ pc \in {"header", "payload", "retire"} => loc.rp = chip.rx_rd
    /\ pc \in {"header", "payload", "retire", "recvcmd", "recving", "rsr2"} =>
         loc.rp < Len(chip.rx)
    /\ pc \in {"payload", "retire", "recvcmd", "recving", "rsr2"} =>
         chip.rx[loc.rp + 1] = loc.hlen /\ loc.hlen \in Nat
    /\ pc \in {"recvcmd", "recving", "rsr2"} =>
         chip.rx_rd = loc.rp + 1 + loc.hlen /\ delivered <= loc.rp

\* ... and the transmit buffer holds nothing, or one datagram whose SEND the
\* chip has taken: it is under way, or has timed out, or is gone.
Drained == chip.sending = NoSend /\ chip.tx_wr = chip.tx_rd
WholeFrom(first, end, s) ==
  \A i \in first..end - 1 : chip.tx[i] = [send |-> s, index |-> i - first + 1, of |-> end - first]
Committed ==
  \/ /\ chip.sending # NoSend /\ chip.ir = {}
     /\ chip.sending.end = chip.tx_wr /\ chip.tx_rd < chip.tx_wr
     /\ WholeFrom(chip.tx_rd, chip.tx_wr, chip.sending.dst)
  \/ chip.sending = NoSend /\ chip.ir = {"TIMEOUT"}
  \/ Drained /\ chip.ir = {"SENDOK"}
Sending ==
  sync =>
    /\ pc \in {"idle", "done", "link", "reap"} \cup RecvPoints =>
         IF socket.has_unreaped_send THEN Committed ELSE Drained
    /\ pc \in SendPoints \ {"reap", "cleartimeout", "txreset"} => ~socket.has_unreaped_send
    /\ pc = "clearok" => Drained /\ chip.ir = {"SENDOK"}
    /\ pc \in {"cleartimeout", "unsent"} => chip.sending = NoSend /\ chip.ir = {"TIMEOUT"}
    /\ pc = "txreset" => chip.sending = NoSend /\ chip.ir = {}
    /\ pc \in {"fsr", "txwr", "fill", "dst", "advance"} => Drained /\ chip.ir = {}
    /\ pc \in {"fill", "dst", "advance", "clearold", "sendcmd"} => loc.wp = chip.tx_rd
    /\ pc \in {"dst", "advance", "clearold", "sendcmd"} =>
         WholeFrom(loc.wp, loc.wp + loc.len, sends)
    /\ pc \in {"advance", "clearold", "sendcmd"} => chip.dst = sends
    /\ pc \in {"clearold", "sendcmd"} =>
         chip.sending = NoSend /\ chip.ir = {} /\ chip.tx_wr = loc.wp + loc.len
    /\ pc = "sending" /\ chip.cr # "none" =>
         /\ chip.sending = NoSend /\ chip.ir = {} /\ chip.dst = sends
         /\ chip.tx_rd < chip.tx_wr
         /\ WholeFrom(chip.tx_rd, chip.tx_wr, sends)
    /\ (pc = "sending" /\ chip.cr = "none") \/ pc = "outcome" => Committed
    /\ pc = "cleararp" => Drained /\ chip.ir = {"TIMEOUT"}

-----------------------------------------------------------------------------
(* Types.                                                                  *)

\* Room is linear in the sends.
LEMMA RoomFacts ==
  ASSUME NEW n \in Nat
  PROVE  /\ Room(n) \in Nat /\ Room(n + 1) = Room(n) + TxSize
         /\ \A m \in 0..n : Room(m) <= Room(n)
<1>1. TxSize \in Nat
  BY DriverAssumption
<1>2. Room(n) \in Nat /\ Room(n + 1) = Room(n) + TxSize
  BY <1>1 DEF Room
<1>3. ASSUME NEW m \in 0..n PROVE Room(m) <= Room(n)
  <2> DEFINE d == n - m
  <2>1. d \in Nat /\ n = m + d
    OBVIOUS
  <2>2. d * TxSize \in Nat /\ m * TxSize \in Nat
    BY <1>1, <2>1
  <2>3. n * TxSize = m * TxSize + d * TxSize
    BY <1>1, <2>1
  <2> QED
    BY <2>2, <2>3 DEF Room
<1> QED
  BY <1>2, <1>3

\* What is taken never shrinks while the sends are not counted down.
LEMMA TakenFacts ==
  ASSUME sends \in Nat, pc \in EarlySends => sends > 0
  PROVE  /\ Taken \in Nat /\ Taken <= Room(sends)
         /\ pc \in EarlySends => Taken + TxSize = Room(sends)
<1>1. CASE pc \in EarlySends
  <2> DEFINE n == sends - 1
  <2>1. n \in Nat /\ sends = n + 1 /\ n \in 0..sends
    BY <1>1
  <2>2. Room(n) \in Nat /\ Room(sends) = Room(n) + TxSize /\ Room(n) <= Room(sends)
    BY <2>1, RoomFacts
  <2> QED
    BY <1>1, <2>2 DEF Taken
<1>2. CASE pc \notin EarlySends
  BY <1>2, RoomFacts DEF Taken
<1> QED
  BY <1>1, <1>2

\* The registers that the driver and the chip write, one by one.
LEMMA Writes ==
  ASSUME NEW x, NEW room \in Nat, Fits(x, room)
  PROVE  /\ \A v \in {"none", "OPEN", "CLOSE", "RECV", "SEND", "SEND_MAC"} :
              Fits([x EXCEPT !.cr = v], room)
         /\ Fits([x EXCEPT !.mr = "UDP"], room)
         /\ Fits([x EXCEPT !.port = "set"], room)
         /\ \A v \in SUBSET {"SENDOK", "TIMEOUT"} : Fits([x EXCEPT !.ir = v], room)
         /\ \A v \in Nat : Fits([x EXCEPT !.dst = v], room)
         /\ \A v \in Buffers : Fits([x EXCEPT !.tx = v], room)
         /\ \A v \in 0..room : Fits([x EXCEPT !.tx_wr = v], room)
         /\ \A v \in Nat : Fits([x EXCEPT !.rx_rd = v], room)
         /\ \A m \in Nat : room <= m => Fits(x, m)
<1> USE DEF Fits, Registers
<1>1. x.tx_rd \in Nat /\ x.tx_wr \in Nat /\ x.sending \in Sendings /\ x.sending.end \in Nat
  BY DEF Sendings
<1>2. ASSUME NEW v \in {"none", "OPEN", "CLOSE", "RECV", "SEND", "SEND_MAC"}
      PROVE  Fits([x EXCEPT !.cr = v], room)
  OBVIOUS
<1>3. Fits([x EXCEPT !.mr = "UDP"], room) /\ Fits([x EXCEPT !.port = "set"], room)
  OBVIOUS
<1>4. ASSUME NEW v \in SUBSET {"SENDOK", "TIMEOUT"} PROVE Fits([x EXCEPT !.ir = v], room)
  OBVIOUS
<1>5. ASSUME NEW v \in Nat PROVE Fits([x EXCEPT !.dst = v], room)
  OBVIOUS
<1>6. ASSUME NEW v \in Buffers PROVE Fits([x EXCEPT !.tx = v], room)
  OBVIOUS
<1>7. ASSUME NEW v \in 0..room PROVE Fits([x EXCEPT !.tx_wr = v], room)
  OBVIOUS
<1>8. ASSUME NEW v \in Nat PROVE Fits([x EXCEPT !.rx_rd = v], room)
  OBVIOUS
<1>9. ASSUME NEW m \in Nat, room <= m PROVE Fits(x, m)
  BY <1>1, <1>9
<1> QED
  BY <1>2, <1>3, <1>4, <1>5, <1>6, <1>7, <1>8, <1>9

\* The chip out of reset.
LEMMA FreshFits ==
  ASSUME NEW room \in Nat
  PROVE  Fresh \in Registers /\ Fits(Fresh, room)
<1>1. MaxRx \in Nat
  BY DriverAssumption
<1>2. Fresh \in Registers
  BY DEF Fresh, Registers, Buffers, Sendings, NoSend
<1>3. Fresh.rx = <<>> /\ Fresh.rx_base = 0 /\ Fresh.tx_rd = 0 /\ Fresh.tx_wr = 0
      /\ Fresh.sending.end = 0
  BY DEF Fresh, NoSend
<1> QED
  BY <1>1, <1>2, <1>3 DEF Fits

\* What the chip does on its own keeps its types and the room.
LEMMA ChipFits ==
  ASSUME NEW room \in Nat, Fits(chip, room),
         Accept \/ Transmit \/ ArpTimeout \/ (\E n \in Lengths : Arrive(n)) \/ LosePower
  PROVE  Fits(chip', room)
<1>1. /\ chip \in Registers /\ chip.tx_rd \in Nat /\ chip.tx_wr \in Nat
      /\ chip.sending \in Sendings /\ chip.sending.end \in Nat /\ chip.tx \in Buffers
      /\ chip.rx \in Seq(Lengths \cup {NoHeader}) /\ chip.rx_base \in Nat /\ chip.rx_rd \in Nat
      /\ Len(chip.rx) \in Nat
  BY DEF Fits, Registers, Sendings
<1>2. NoSend \in Sendings /\ NoSend.end = 0
  BY DEF NoSend, Sendings
<1>3. CASE Accept
  <2>1. chip.cr # "none" /\ chip' = Accepted
    BY <1>3 DEF Accept
  <2>2. CASE chip.cr = "OPEN"
    <3>1. chip' = [Fresh EXCEPT !.sr = IF chip.mr = "UDP" THEN "UDP" ELSE "CLOSED",
                                !.mr = chip.mr, !.port = chip.port, !.ir = chip.ir]
      BY <2>1, <2>2 DEF Accepted
    <3>2. chip.mr \in {"none", "UDP"} /\ chip.port \in {"none", "set"}
          /\ chip.ir \in SUBSET {"SENDOK", "TIMEOUT"}
      BY <1>1 DEF Registers
    <3>3. Fresh \in Registers /\ Fits(Fresh, room)
      BY FreshFits
    <3>4. chip' \in Registers
      BY <3>1, <3>2, <3>3 DEF Registers
    <3>5. /\ chip'.rx_base = Fresh.rx_base /\ chip'.rx = Fresh.rx
          /\ chip'.tx_rd = Fresh.tx_rd /\ chip'.tx_wr = Fresh.tx_wr
          /\ chip'.sending = Fresh.sending
      BY <3>1, <3>3 DEF Registers
    <3> QED
      BY <3>3, <3>4, <3>5 DEF Fits
  <2>3. CASE chip.cr = "CLOSE"
    <3>1. chip' = [chip EXCEPT !.cr = "none", !.sr = "CLOSED", !.sending = NoSend]
      BY <2>1, <2>3 DEF Accepted
    <3>2. chip' \in Registers
      BY <1>1, <1>2, <3>1 DEF Registers
    <3>3. chip'.sending = NoSend /\ UNCHANGED <<chip.rx, chip.rx_base, chip.tx_rd, chip.tx_wr>>
      BY <1>1, <3>1 DEF Registers
    <3> QED
      BY <1>2, <3>2, <3>3 DEF Fits
  <2>4. CASE chip.cr = "RECV"
    <3> DEFINE b == IF chip.rx_rd < Len(chip.rx) THEN chip.rx_rd ELSE Len(chip.rx)
    <3>1. chip' = [chip EXCEPT !.cr = "none", !.rx_base = b]
      BY <2>1, <2>4 DEF Accepted
    <3>2. b \in Nat /\ b <= Len(chip.rx)
      BY <1>1
    <3> HIDE DEF b
    <3>3. chip' \in Registers
      BY <1>1, <3>1, <3>2 DEF Registers
    <3>4. chip'.rx_base = b /\ UNCHANGED <<chip.rx, chip.sending, chip.tx_rd, chip.tx_wr>>
      BY <1>1, <3>1 DEF Registers
    <3> QED
      BY <3>2, <3>3, <3>4 DEF Fits
  <2>5. CASE chip.cr \in {"SEND", "SEND_MAC"}
    <3>1. PICK s : /\ chip' = [chip EXCEPT !.cr = "none", !.sending = s]
                   /\ \/ s = [end |-> chip.tx_wr, dst |-> chip.dst, arp |-> chip.cr = "SEND"]
                      \/ s = chip.sending
      BY <2>1, <2>5 DEF Accepted
    <3>2. chip.tx_wr <= room /\ chip.sending.end <= room /\ chip.dst \in Nat
      BY <1>1 DEF Fits, Registers
    <3>3. s \in Sendings /\ s.end <= room
      <4> DEFINE arp == chip.cr = "SEND"
      <4>1. arp \in BOOLEAN
        OBVIOUS
      <4> HIDE DEF arp
      <4>2. s = [end |-> chip.tx_wr, dst |-> chip.dst, arp |-> arp] \/ s = chip.sending
        BY <3>1 DEF arp
      <4> QED
        BY <1>1, <3>2, <4>1, <4>2 DEF Sendings
    <3>4. chip' \in Registers
      BY <1>1, <3>1, <3>3 DEF Registers
    <3>5. chip'.sending = s /\ UNCHANGED <<chip.rx, chip.rx_base, chip.tx_rd, chip.tx_wr>>
      BY <1>1, <3>1 DEF Registers
    <3> QED
      BY <3>3, <3>4, <3>5 DEF Fits
  <2> QED
    BY <1>1, <2>1, <2>2, <2>3, <2>4, <2>5 DEF Registers
<1>4. CASE Transmit
  <2> DEFINE tx == [i \in DOMAIN chip.tx |-> IF i < chip.sending.end THEN NoCell ELSE chip.tx[i]]
  <2>1. chip' = [chip EXCEPT !.tx_rd = chip.sending.end, !.sending = NoSend,
                             !.tx = tx, !.ir = chip.ir \cup {"SENDOK"}]
    BY <1>4 DEF Transmit
  <2>2. tx \in Buffers
    BY <1>1 DEF Buffers
  <2>3. chip.ir \cup {"SENDOK"} \in SUBSET {"SENDOK", "TIMEOUT"}
    BY <1>1 DEF Registers
  <2> HIDE DEF tx
  <2>4. chip' \in Registers
    BY <1>1, <1>2, <2>1, <2>2, <2>3 DEF Registers
  <2>5. /\ chip'.sending = NoSend /\ chip'.tx_rd = chip.sending.end
        /\ UNCHANGED <<chip.rx, chip.rx_base, chip.tx_wr>>
    BY <1>1, <2>1 DEF Registers
  <2> QED
    BY <1>2, <2>4, <2>5 DEF Fits
<1>5. CASE ArpTimeout
  <2>1. chip' = [chip EXCEPT !.sending = NoSend, !.ir = chip.ir \cup {"TIMEOUT"}]
    BY <1>5 DEF ArpTimeout
  <2>2. chip.ir \cup {"TIMEOUT"} \in SUBSET {"SENDOK", "TIMEOUT"}
    BY <1>1 DEF Registers
  <2>3. chip' \in Registers
    BY <1>1, <1>2, <2>1, <2>2 DEF Registers
  <2>4. chip'.sending = NoSend /\ UNCHANGED <<chip.rx, chip.rx_base, chip.tx_rd, chip.tx_wr>>
    BY <1>1, <2>1 DEF Registers
  <2> QED
    BY <1>2, <2>3, <2>4 DEF Fits
<1>6. ASSUME NEW n \in Lengths, Arrive(n) PROVE Fits(chip', room)
  <2> DEFINE tail == [i \in 1..n |-> NoHeader]
             rx == chip.rx \o <<n>> \o tail
  <2>1. chip' = [chip EXCEPT !.rx = rx] /\ Len(chip.rx) + 1 + n <= MaxRx
    BY <1>6 DEF Arrive
  <2>2. n \in Nat /\ MaxRx \in Nat
    BY DriverAssumption
  <2>3. tail \in Seq(Lengths \cup {NoHeader}) /\ Len(tail) = n
    BY <2>2
  <2>4. <<n>> \in Seq(Lengths \cup {NoHeader}) /\ Len(<<n>>) = 1
    OBVIOUS
  <2> HIDE DEF tail
  <2>5. chip.rx \o <<n>> \in Seq(Lengths \cup {NoHeader}) /\ Len(chip.rx \o <<n>>) = Len(chip.rx) + 1
    BY <1>1, <2>4
  <2>6. rx \in Seq(Lengths \cup {NoHeader}) /\ Len(rx) = Len(chip.rx) + 1 + n
    BY <2>3, <2>5
  <2> HIDE DEF rx
  <2>7. chip' \in Registers
    BY <1>1, <2>1, <2>6 DEF Registers
  <2>8. chip'.rx = rx /\ UNCHANGED <<chip.sending, chip.rx_base, chip.tx_rd, chip.tx_wr>>
    BY <1>1, <2>1 DEF Registers
  <2> QED
    BY <1>1, <2>1, <2>2, <2>6, <2>7, <2>8 DEF Fits
<1>7. CASE LosePower
  BY <1>7, FreshFits DEF LosePower
<1> QED
  BY <1>3, <1>4, <1>5, <1>6, <1>7

\* A frame leaves the chip as it was or as the driver wants it.
LEMMA FrameFits ==
  ASSUME NEW after, NEW st \in Results, Frame(after, st),
         NEW room \in Nat, Fits(chip, room), Fits(after, room),
         spi \in {"READY", "FAULTED"}, faults \in 0..MaxFaults
  PROVE  Fits(chip', room) /\ spi' \in {"READY", "FAULTED"} /\ faults' \in 0..MaxFaults
<1>1. MaxFaults \in Nat
  BY DriverAssumption
<1> QED
  BY <1>1 DEF Frame, spiVars

\* Where a frame may leave the driver.
Moves ==
  /\ pc' \in Points /\ loc' \in Locals /\ socket' \in Sockets
  /\ pc' \in SendPoints => loc'.len = loc.len
  /\ pc' \in EarlySends => pc \in EarlySends /\ pc # "advance"
  /\ loc'.wp \in {0, loc.wp, chip.tx_wr}

\* The locals as the driver changes them.
LEMMA LocalsFacts ==
  ASSUME loc \in Locals
  PROVE  /\ NoLocals \in Locals /\ NoLocals.wp = 0
         /\ [loc EXCEPT !.tries = 0] \in Locals
         /\ loc.tries + 1 # Tries => [loc EXCEPT !.tries = @ + 1] \in Locals
         /\ \A n \in 0..MaxRx + TxSize : [loc EXCEPT !.len = n] \in Locals
         /\ \A n \in Nat : /\ [loc EXCEPT !.rp = n] \in Locals
                           /\ [loc EXCEPT !.hlen = n] \in Locals
                           /\ [loc EXCEPT !.wp = n] \in Locals
<1>1. Tries \in Nat \ {0} /\ MaxRx \in Nat /\ TxSize \in Nat
  BY DriverAssumption
<1> QED
  BY <1>1 DEF Locals, NoLocals

\* The frames of w5500_init, w5500_link_up, w5500_socket_close and
\* w5500_socket_open.
LEMMA OpenMoves ==
  ASSUME loc \in Locals, socket \in Sockets,
         \/ HwReset \/ ReadVersion \/ Configure \/ LinkUp \/ CloseCommand
         \/ AwaitClosed \/ OpenCommand \/ AwaitOpen \/ CheckOpen
  PROVE  Moves
<1>1. /\ NoLocals \in Locals /\ NoLocals.wp = 0
      /\ loc.tries + 1 # Tries => /\ [loc EXCEPT !.tries = @ + 1] \in Locals
                                  /\ [loc EXCEPT !.tries = @ + 1].wp = loc.wp
      /\ \A n \in {0, 1} : /\ [loc EXCEPT !.len = n] \in Locals
                           /\ [loc EXCEPT !.len = n].wp = loc.wp
  <2>1. 0 \in 0..MaxRx + TxSize /\ 1 \in 0..MaxRx + TxSize
    BY DriverAssumption
  <2> QED
    BY <2>1, LocalsFacts DEF Locals
<1>2. \A s \in {"OPEN", "ERROR", "CLOSED"} : [socket EXCEPT !.status = s] \in Sockets
  BY DEF Sockets
<1> USE <1>1, <1>2 DEF Moves, Points, SendPoints, EarlySends
<1>3. CASE HwReset
  BY <1>3 DEF HwReset, Goto
<1>4. CASE ReadVersion
  BY <1>4 DEF ReadVersion, Goto, Return, ReturnFrom, Results
<1>5. CASE Configure
  BY <1>5 DEF Configure, Return, ReturnFrom, Results
<1>6. CASE LinkUp
  BY <1>6 DEF LinkUp, Return, ReturnFrom, Results
<1>7. CASE CloseCommand
  BY <1>7 DEF CloseCommand, Goto
<1>8. CASE AwaitClosed
  BY <1>8 DEF AwaitClosed, Polled, Goto, Return, ReturnFrom, Results
<1>9. CASE OpenCommand
  BY <1>9 DEF OpenCommand, Continue, Goto, Return, ReturnFrom, Results
<1>10. CASE AwaitOpen
  BY <1>10 DEF AwaitOpen, OpenFailed, Polled, Goto, Return, ReturnFrom, Results
<1>11. CASE CheckOpen
  BY <1>11 DEF CheckOpen, OpenFailed, Goto, ReturnFrom, Results
<1> QED
  BY <1>3, <1>4, <1>5, <1>6, <1>7, <1>8, <1>9, <1>10, <1>11

\* The length in a header is a natural number.
LEMMA HeaderType ==
  ASSUME chip \in Registers, NEW p \in Nat, NEW n \in HeaderAt(p)
  PROVE  n \in Lengths /\ n \in Nat
<1>1. Lengths \subseteq Nat
  BY DriverAssumption
<1>2. chip.rx \in Seq(Lengths \cup {NoHeader})
  BY DEF Registers
<1>3. CASE p < Len(chip.rx) /\ chip.rx[p + 1] # NoHeader
  <2>1. p + 1 \in 1..Len(chip.rx)
    BY <1>2, <1>3
  <2>2. chip.rx[p + 1] \in Lengths
    BY <1>2, <1>3, <2>1
  <2> QED
    BY <1>1, <1>3, <2>2 DEF HeaderAt
<1> QED
  BY <1>1, <1>3 DEF HeaderAt

\* The frames of w5500_socket_recv.
LEMMA RecvMoves ==
  ASSUME loc \in Locals, socket \in Sockets, NEW room, Fits(chip, room),
         \/ ReadSize \/ ReadDatagram \/ Retire \/ RecvCommand \/ AwaitRecv
         \/ RestoreRxRd \/ ConfirmRetired
  PROVE  Moves
<1>1. /\ NoLocals \in Locals /\ NoLocals.wp = 0
      /\ loc.tries + 1 # Tries => /\ [loc EXCEPT !.tries = @ + 1] \in Locals
                                  /\ [loc EXCEPT !.tries = @ + 1].wp = loc.wp
      /\ \A n \in 0..MaxRx + TxSize : /\ [loc EXCEPT !.len = n] \in Locals
                                      /\ [loc EXCEPT !.len = n].wp = loc.wp
      /\ \A n \in Nat : /\ [loc EXCEPT !.rp = n] \in Locals
                        /\ [loc EXCEPT !.hlen = n] \in Locals
                        /\ [loc EXCEPT !.rp = n].wp = loc.wp
                        /\ [loc EXCEPT !.hlen = n].wp = loc.wp
  BY LocalsFacts DEF Locals
<1>2. /\ chip \in Registers /\ chip.rx_rd \in Nat /\ chip.rx_base \in Nat
      /\ Len(chip.rx) \in Nat /\ chip.rx_base <= Len(chip.rx) /\ Len(chip.rx) <= MaxRx
  BY DEF Fits, Registers
<1>3. Rsr \in 0..MaxRx + TxSize
  BY <1>2, DriverAssumption DEF Rsr
<1>4. loc.rp \in Nat
  BY DEF Locals
<1>5. \A n \in HeaderAt(loc.rp) : n \in Nat
  BY <1>2, <1>4, HeaderType
<1> USE <1>1 DEF Moves, Points, SendPoints, EarlySends
<1>6. CASE ReadSize
  BY <1>3, <1>6 DEF ReadSize, UnstableRead, Continue, Goto, Return, ReturnFrom, Results
<1>7. CASE ReadDatagram
  <2>1. PICK to \in {"header", "payload", "retire"}, l \in Locals, st \in Results :
          l.wp = loc.wp /\ Continue(st, to, l)
    <3>1. CASE pc = "rxrd"
      BY <1>2, <1>7, <3>1 DEF ReadDatagram
    <3>2. CASE pc = "header"
      BY <1>5, <1>7, <3>2 DEF ReadDatagram
    <3>3. CASE pc = "payload"
      BY <1>7, <3>3 DEF ReadDatagram
    <3> QED
      BY <1>7, <3>1, <3>2, <3>3 DEF ReadDatagram
  <2> QED
    BY <1>7, <2>1 DEF ReadDatagram, Continue, Goto, Return, ReturnFrom
<1>8. CASE Retire
  BY <1>8 DEF Retire, Continue, Goto, Return, ReturnFrom, Results
<1>9. CASE RecvCommand
  BY <1>9 DEF RecvCommand, Restore, Goto, Results
<1>10. CASE AwaitRecv
  BY <1>10 DEF AwaitRecv, Polled, Restore, Goto, Results
<1>11. CASE RestoreRxRd
  BY <1>11 DEF RestoreRxRd, Return, ReturnFrom, Results
<1>12. CASE ConfirmRetired
  BY <1>12 DEF ConfirmRetired, UnstableRead, Return, ReturnFrom, Results
<1> QED
  BY <1>6, <1>7, <1>8, <1>9, <1>10, <1>11, <1>12

\* The frames of w5500_socket_send.
LEMMA SendMoves ==
  ASSUME loc \in Locals, socket \in Sockets, chip \in Registers,
         \/ Reap \/ ClearReaped \/ AwaitSpace \/ FillBuffer \/ SendCommand
         \/ AwaitCommit \/ AwaitOutcome \/ RestoreTxWr \/ Unsent
  PROVE  Moves
<1>1. /\ NoLocals \in Locals /\ NoLocals.wp = 0
      /\ loc.tries + 1 # Tries => /\ [loc EXCEPT !.tries = @ + 1] \in Locals
                                  /\ [loc EXCEPT !.tries = @ + 1].wp = loc.wp
                                  /\ [loc EXCEPT !.tries = @ + 1].len = loc.len
      /\ [loc EXCEPT !.tries = 0] \in Locals /\ [loc EXCEPT !.tries = 0].wp = loc.wp
      /\ [loc EXCEPT !.tries = 0].len = loc.len
      /\ \A n \in Nat : /\ [loc EXCEPT !.wp = n] \in Locals
                        /\ [loc EXCEPT !.wp = n].wp = n
                        /\ [loc EXCEPT !.wp = n].len = loc.len
  BY LocalsFacts DEF Locals
<1>2. chip.tx_wr \in Nat
  BY DEF Registers
<1>3. \A flag \in BOOLEAN : Unreaped(flag) \in Sockets
  BY DEF Unreaped, Sockets
<1> USE <1>1, <1>3 DEF Moves, Points, SendPoints, EarlySends
<1>4. CASE Reap
  BY <1>4 DEF Reap, Continue, Goto, Return, ReturnFrom, Results
<1>5. CASE ClearReaped
  BY <1>5 DEF ClearReaped, Continue, Goto, Return, ReturnFrom, Results
<1>6. CASE AwaitSpace
  BY <1>6 DEF AwaitSpace, UnstableRead, Polled, Goto, Return, ReturnFrom, Results
<1>7. CASE FillBuffer
  BY <1>2, <1>7 DEF FillBuffer, Continue, Goto, Return, ReturnFrom, Results
<1>8. CASE SendCommand
  BY <1>8 DEF SendCommand, Restore, Goto, Results
<1>9. CASE AwaitCommit
  BY <1>9 DEF AwaitCommit, Polled, Restore, Goto, Results
<1>10. CASE AwaitOutcome
  BY <1>10 DEF AwaitOutcome, Polled, Restore, Goto, Return, ReturnFrom, Results
<1>11. CASE RestoreTxWr
  BY <1>11 DEF RestoreTxWr, Return, ReturnFrom, Results
<1>12. CASE Unsent
  BY <1>12 DEF Unsent, Goto, Return, ReturnFrom, Results
<1> QED
  BY <1>4, <1>5, <1>6, <1>7, <1>8, <1>9, <1>10, <1>11, <1>12

\* A payload fits in the buffer.
LEMMA LengthsFit == TxSize \in Nat /\ \A n \in Lengths : n \in Nat /\ 0 < n /\ n <= TxSize
<1>1. TxSize \in Nat /\ Lengths \subseteq 1..TxSize
  BY DriverAssumption
<1> QED
  BY <1>1

\* The payload lies in the buffer.
LEMMA FilledType ==
  ASSUME chip \in Registers, loc \in Locals, loc.len \in Lengths, sends \in 1..MaxSends
  PROVE  Filled \in Buffers
<1>1. /\ chip.tx \in [0..MaxTx - 1 -> Cells \cup {NoCell}] /\ loc.wp \in Nat
      /\ loc.len \in Nat /\ loc.len <= TxSize /\ TxSize \in Nat
  BY LengthsFit DEF Registers, Buffers, Locals
<1>2. ASSUME NEW i \in 0..MaxTx - 1
      PROVE  (IF i \in loc.wp..loc.wp + loc.len - 1
              THEN [send |-> sends, index |-> i - loc.wp + 1, of |-> loc.len]
              ELSE chip.tx[i]) \in Cells \cup {NoCell}
  <2>1. CASE i \in loc.wp..loc.wp + loc.len - 1
    <3>1. i - loc.wp + 1 \in 1..TxSize
      BY <1>1, <2>1
    <3>2. [send |-> sends, index |-> i - loc.wp + 1, of |-> loc.len] \in Cells
      BY <3>1 DEF Cells
    <3> QED
      BY <2>1, <3>2
  <2>2. CASE i \notin loc.wp..loc.wp + loc.len - 1
    BY <1>1, <2>2
  <2> QED
    BY <2>1, <2>2
<1> QED
  BY <1>2 DEF Filled, Buffers

\* The frames leave the chip its types, and its pointers within the room taken.
LEMMA FramesFit ==
  ASSUME Typed, Within, Frames
  PROVE  /\ Fits(chip', Taken) \/ (pc = "advance" /\ Fits(chip', Room(sends)))
         /\ spi' \in {"READY", "FAULTED"} /\ faults' \in 0..MaxFaults
<1>1. /\ spi \in {"READY", "FAULTED"} /\ faults \in 0..MaxFaults /\ sends \in Nat
      /\ Fits(chip, Taken) /\ loc.wp <= Taken /\ loc \in Locals /\ loc.wp \in Nat
      /\ loc.rp \in Nat /\ loc.hlen \in Nat
  BY DriverAssumption DEF Typed, Within, Locals
<1>2. pc \in EarlySends => sends > 0
  BY DEF Typed, EarlySends, SendPoints
<1>3. Taken \in Nat /\ Taken <= Room(sends)
  BY <1>1, <1>2, TakenFacts
<1>4. /\ \A v \in {"none", "OPEN", "CLOSE", "RECV", "SEND", "SEND_MAC"} :
              Fits([chip EXCEPT !.cr = v], Taken)
      /\ Fits([chip EXCEPT !.mr = "UDP"], Taken)
      /\ Fits([chip EXCEPT !.port = "set"], Taken)
      /\ \A v \in SUBSET {"SENDOK", "TIMEOUT"} : Fits([chip EXCEPT !.ir = v], Taken)
      /\ \A v \in Nat : Fits([chip EXCEPT !.dst = v], Taken)
      /\ \A v \in Buffers : Fits([chip EXCEPT !.tx = v], Taken)
      /\ \A v \in 0..Taken : Fits([chip EXCEPT !.tx_wr = v], Taken)
      /\ \A v \in Nat : Fits([chip EXCEPT !.rx_rd = v], Taken)
  BY <1>1, <1>3, Writes
<1>5. chip \in Registers /\ chip.ir \in SUBSET {"SENDOK", "TIMEOUT"} /\ chip.tx_rd \in 0..Taken
  BY <1>1, <1>3 DEF Fits, Registers
<1>6. ASSUME NEW after, Fits(after, Taken), NEW st \in Results, Frame(after, st)
      PROVE  /\ Fits(chip', Taken)
             /\ spi' \in {"READY", "FAULTED"} /\ faults' \in 0..MaxFaults
  BY <1>1, <1>3, <1>6, FrameFits
<1>7. ASSUME \E st \in Results : Frame(chip, st)
      PROVE  /\ Fits(chip', Taken)
             /\ spi' \in {"READY", "FAULTED"} /\ faults' \in 0..MaxFaults
  BY <1>1, <1>6, <1>7
<1>8. ASSUME UnstableRead
      PROVE  /\ Fits(chip', Taken)
             /\ spi' \in {"READY", "FAULTED"} /\ faults' \in 0..MaxFaults
  BY <1>1, <1>8 DEF UnstableRead
<1>9. ASSUME NEW gone \in SUBSET {"SENDOK", "TIMEOUT"}, NEW st \in Results,
             Frame([chip EXCEPT !.ir = @ \ gone], st)
      PROVE  /\ Fits(chip', Taken)
             /\ spi' \in {"READY", "FAULTED"} /\ faults' \in 0..MaxFaults
  <2>1. Fits([chip EXCEPT !.ir = @ \ gone], Taken)
    BY <1>4, <1>5
  <2> QED
    BY <1>6, <1>9, <2>1
<1>10. CASE HwReset
  BY <1>1, <1>3, <1>10, FreshFits DEF HwReset, spiVars
<1>11. CASE \/ ReadVersion \/ Configure \/ LinkUp \/ AwaitClosed \/ AwaitOpen \/ CheckOpen
            \/ ReadSize \/ ReadDatagram \/ AwaitRecv \/ ConfirmRetired \/ AwaitSpace
            \/ AwaitCommit \/ AwaitOutcome
  BY <1>7, <1>8, <1>11
     DEF ReadVersion, Configure, LinkUp, AwaitClosed, AwaitOpen, CheckOpen, ReadSize,
         ReadDatagram, AwaitRecv, ConfirmRetired, AwaitSpace, AwaitCommit, AwaitOutcome
<1>12. CASE CloseCommand \/ OpenCommand \/ RecvCommand
  BY <1>4, <1>6, <1>12 DEF CloseCommand, OpenCommand, RecvCommand
<1>13. CASE Retire \/ RestoreRxRd
  <2>1. loc.rp + 1 + loc.hlen \in Nat
    BY <1>1
  <2> QED
    BY <1>1, <1>4, <1>6, <1>13, <2>1 DEF Retire, RestoreRxRd
<1>14. CASE Reap
  <2>1. Fits(ReapFrame, Taken)
    BY <1>1, <1>4 DEF ReapFrame
  <2> QED
    BY <1>6, <1>14, <2>1 DEF Reap
<1>15. Fits(ResetTxWr, Taken)
  BY <1>4, <1>5 DEF ResetTxWr
<1>16. CASE ClearReaped \/ Unsent
  BY <1>6, <1>9, <1>15, <1>16 DEF ClearReaped, Unsent
<1>17. CASE FillBuffer
  <2>1. CASE pc = "txwr"
    BY <1>7, <1>17, <2>1 DEF FillBuffer
  <2>2. CASE pc = "fill"
    <3>1. loc.len \in Lengths /\ sends \in 1..MaxSends
      BY <2>2, DriverAssumption DEF Typed, SendPoints
    <3>2. Fits([chip EXCEPT !.tx = Filled], Taken)
      BY <1>1, <1>4, <1>5, <3>1, FilledType
    <3> QED
      BY <1>6, <1>17, <2>2, <3>2 DEF FillBuffer
  <2>3. CASE pc = "dst"
    <3>1. Fits([chip EXCEPT !.dst = sends], Taken)
      BY <1>1, <1>4
    <3> QED
      BY <1>6, <1>17, <2>3, <3>1 DEF FillBuffer
  <2>4. CASE pc = "advance"
    <3>1. loc.len \in Nat /\ loc.len <= TxSize /\ TxSize \in Nat
      BY <2>4, LengthsFit DEF Typed, SendPoints
    <3>2. Taken + TxSize = Room(sends) /\ Room(sends) \in Nat
      BY <1>1, <1>2, <2>4, TakenFacts, RoomFacts DEF EarlySends
    <3>3. loc.wp + loc.len \in 0..Room(sends)
      BY <1>1, <1>3, <3>1, <3>2
    <3>4. Fits(chip, Room(sends))
      BY <1>1, <1>3, <3>2, Writes
    <3>5. Fits([chip EXCEPT !.tx_wr = loc.wp + loc.len], Room(sends))
      BY <3>2, <3>3, <3>4, Writes
    <3>6. PICK st \in Results : Frame([chip EXCEPT !.tx_wr = loc.wp + loc.len], st)
      BY <1>17, <2>4 DEF FillBuffer
    <3> QED
      BY <1>1, <2>4, <3>2, <3>4, <3>5, <3>6, FrameFits
  <2> QED
    BY <1>17, <2>1, <2>2, <2>3, <2>4 DEF FillBuffer
<1>18. CASE SendCommand
  <2>1. CASE pc = "clearold"
    BY <1>9, <1>18, <2>1 DEF SendCommand
  <2>2. CASE pc = "sendcmd"
    BY <1>4, <1>6, <1>18, <2>2 DEF SendCommand
  <2> QED
    BY <1>18, <2>1, <2>2 DEF SendCommand
<1>19. CASE RestoreTxWr
  <2>1. Fits([chip EXCEPT !.tx_wr = loc.wp], Taken)
    BY <1>1, <1>3, <1>4
  <2> QED
    BY <1>6, <1>19, <2>1 DEF RestoreTxWr
<1> QED
  BY <1>10, <1>11, <1>12, <1>13, <1>14, <1>16, <1>17, <1>18, <1>19 DEF Frames

\* The client's call: one that asks for a send is one that may be counted.
LEMMA TypedCall ==
  ASSUME NEW c, Clients = {c}, Service, Bus, OneCall(c), Typed, Within,
         NEW op \in Ops[c], Call(c, op)
  PROVE  Typed' /\ Within'
<1>1. NetSendRequest(c, op)
  BY CallStep
<1>2. calling[c] = NoCall /\ current_req' = [client |-> c, op |-> op]
  BY <1>1 DEF NetSendRequest
<1>3. current_req'.op = op /\ (op \in Sends => sends < MaxSends)
  BY <1>2 DEF Call, Sends
<1>4. UNCHANGED <<pc, ret, loc, socket, spi, faults, chip, sends, delivered, sync>>
  BY DEF Call, driverVars, spiVars, ghostVars
<1>5. Typed'
  BY <1>3, <1>4 DEF Typed
<1>6. Taken' = Taken
  BY <1>4 DEF Taken
<1> QED
  BY <1>4, <1>5, <1>6 DEF Within

\* The sends are counted when the request is taken.
LEMMA TypedDispatch ==
  ASSUME Service, Typed, Within, Placed, Dispatch, net_posted = 1
  PROVE  Typed' /\ Within'
<1>1. /\ pc = "idle" /\ net_posted' = 0
      /\ pc' = IF dead THEN "done" ELSE Entry[current_req.op]
      /\ IF current_req.op \in Sends
         THEN /\ \E n \in Lengths : loc' = [NoLocals EXCEPT !.len = n]
              /\ sends' = sends + 1
         ELSE UNCHANGED <<loc, sends>>
      /\ UNCHANGED <<socket, spi, faults, chip, delivered, sync>>
  BY DEF Dispatch, TakeRequest, spiVars, Sends
<1>2. current_req \in Requests
  BY DEF Service
<1>3. PICK op \in Operations : op = current_req.op
  BY <1>2 DEF Requests
<1>4. /\ loc \in Locals /\ sends \in 0..MaxSends /\ MaxSends \in Nat /\ sends \in Nat
      /\ (op \in Sends => sends < MaxSends)
  BY <1>3, DriverAssumption DEF Typed
<1>5. Entry[op] \in Points /\ (Entry[op] \in SendPoints => Entry[op] = "reap" /\ op \in Sends)
      /\ (op \in Sends => Entry[op] = "reap")
  BY DEF Entry, Operations, Points, SendPoints, Sends
<1>6. pc' \in Points /\ (pc' \in SendPoints => op \in Sends) /\ (pc' \in EarlySends => op \in Sends)
  BY <1>1, <1>3, <1>5 DEF Points, SendPoints, EarlySends
<1>7. Taken \in Nat /\ Taken = Room(sends) /\ Room(sends) <= Room(sends + 1)
      /\ Room(sends + 1) \in Nat
  <2>1. sends + 1 \in Nat /\ sends \in 0..sends + 1
    BY <1>4
  <2> QED
    BY <1>1, <1>4, <2>1, RoomFacts DEF Taken, EarlySends
<1>8. Fits(chip, Taken) /\ loc.wp <= Taken
  BY DEF Within
<1>9. CASE op \in Sends
  <2>1. PICK n \in Lengths : loc' = [NoLocals EXCEPT !.len = n]
    BY <1>1, <1>3, <1>9
  <2>2. n \in Nat /\ n <= TxSize /\ TxSize \in Nat /\ MaxRx \in Nat /\ Tries \in Nat \ {0}
    BY LengthsFit, DriverAssumption
  <2>3. n \in 0..MaxRx + TxSize
    BY <2>2
  <2>4. loc' \in Locals /\ loc'.wp = 0 /\ loc'.len = n
    BY <2>1, <2>2, <2>3 DEF Locals, NoLocals
  <2>5. sends' = sends + 1
    BY <1>1, <1>3, <1>9
  <2>6. sends' - 1 = sends
    BY <1>4, <2>5
  <2>7. Taken' \in Nat /\ Taken <= Taken'
    BY <1>7, <2>5, <2>6 DEF Taken
  <2>8. Fits(chip, Taken')
    BY <1>7, <1>8, <2>7, Writes
  <2>9. Within'
    BY <1>1, <2>4, <2>7, <2>8 DEF Within
  <2>10. sends' \in 0..MaxSends /\ sends' > 0
    BY <1>4, <1>9, <2>5
  <2> QED
    BY <1>1, <1>6, <2>1, <2>4, <2>9, <2>10 DEF Typed
<1>10. CASE op \notin Sends
  <2>1. UNCHANGED <<loc, sends>>
    BY <1>1, <1>3, <1>10
  <2>2. Taken' = Taken
    BY <1>6, <1>7, <1>10, <2>1 DEF Taken
  <2>3. Within'
    BY <1>1, <1>8, <2>1, <2>2 DEF Within
  <2> QED
    BY <1>1, <1>6, <1>10, <2>1, <2>3 DEF Typed
<1> QED
  BY <1>9, <1>10

\* The frames.
LEMMA TypedFrames ==
  ASSUME Service, Bus, Typed, Within, Frames, UNCHANGED netVars, sends' = sends,
         delivered' = IF Delivers /\ sync THEN loc.rp + 1 + loc.hlen ELSE delivered,
         sync' \in BOOLEAN
  PROVE  Typed' /\ Within'
<1>1. Leads
  BY FramesLead DEF Service, Bus
<1>2. Moves
  <2>1. loc \in Locals /\ socket \in Sockets /\ Fits(chip, Taken) /\ chip \in Registers
    BY DEF Typed, Within, Fits
  <2> QED
    BY <2>1, OpenMoves, RecvMoves, SendMoves DEF Frames
<1>3. /\ Fits(chip', Taken) \/ (pc = "advance" /\ Fits(chip', Room(sends)))
      /\ spi' \in {"READY", "FAULTED"} /\ faults' \in 0..MaxFaults
  BY FramesFit
<1>4. /\ sends \in Nat /\ (pc \in EarlySends => sends > 0)
      /\ (pc \in SendPoints => sends > 0 /\ loc.len \in Lengths)
  BY DriverAssumption DEF Typed, EarlySends, SendPoints
<1>5. pc' \in EarlySends => pc' \in SendPoints
  BY DEF EarlySends, SendPoints
<1>6. Taken \in Nat /\ Taken' \in Nat /\ Taken <= Taken' /\ Taken <= Room(sends)
  <2>1. CASE pc' \in EarlySends
    BY <1>2, <1>4, <2>1, TakenFacts DEF Taken, Moves
  <2>2. CASE pc' \notin EarlySends
    BY <1>4, <2>2, TakenFacts, RoomFacts DEF Taken
  <2> QED
    BY <2>1, <2>2
<1>7. Fits(chip', Taken')
  <2>1. CASE Fits(chip', Taken)
    BY <1>6, <2>1, Writes
  <2>2. CASE pc = "advance" /\ Fits(chip', Room(sends))
    BY <1>2, <2>2 DEF Taken, Moves
  <2> QED
    BY <1>3, <2>1, <2>2
<1>8. loc'.wp <= Taken'
  <2>1. loc.wp <= Taken /\ chip.tx_wr <= Taken /\ loc.wp \in Nat /\ chip.tx_wr \in Nat
    BY DEF Within, Fits, Typed, Locals, Registers
  <2> QED
    BY <1>2, <1>6, <2>1 DEF Moves
<1>9. Within'
  BY <1>7, <1>8 DEF Within
<1>10. delivered' \in Nat
  <2>1. loc.rp \in Nat /\ loc.hlen \in Nat /\ delivered \in Nat
    BY DEF Typed, Locals
  <2> QED
    BY <2>1
<1>11. UNCHANGED <<net_posted, current_req>>
  BY DEF netVars
<1>12. pc' \in SendPoints => loc'.len \in Lengths /\ sends' > 0
  BY <1>1, <1>2, <1>4 DEF Leads, Moves
<1>13. Typed'
  BY <1>2, <1>3, <1>10, <1>11, <1>12 DEF Typed, Moves
<1> QED
  BY <1>9, <1>13

\* The answers, the initialisations and the chip's own steps.
LEMMA TypedOthers ==
  ASSUME Service, Typed, Within,
         \/ /\ Answer \/ Recover \/ Reinit \/ ReinitDone \/ BootDone
            /\ UNCHANGED <<chip, ghostVars, sync>>
         \/ Chip
         \/ UNCHANGED vars
  PROVE  Typed' /\ Within'
<1>1. /\ sends \in Nat /\ (pc \in EarlySends => sends > 0)
  BY DriverAssumption DEF Typed, EarlySends, SendPoints
<1>2. Taken \in Nat /\ Taken <= Room(sends)
  BY <1>1, TakenFacts
<1>3. CASE /\ Answer \/ Recover \/ Reinit \/ ReinitDone \/ BootDone
           /\ UNCHANGED <<chip, ghostVars, sync>>
  <2>1. /\ pc' \in {"idle", "reset"} /\ UNCHANGED <<loc, faults, chip, sends, delivered, sync>>
        /\ UNCHANGED <<current_req, net_posted>>
        /\ spi' \in {spi, "READY"} /\ socket' \in {socket, NewSocket}
    BY <1>3 DEF Answer, Recover, Reinit, ReinitDone, BootDone, Reply, InitReturns, Goto,
                netVars, spiVars, ghostVars
  <2>2. NewSocket \in Sockets
    BY DEF NewSocket, Sockets
  <2>3. Typed'
    BY <2>1, <2>2 DEF Typed, Points, SendPoints
  <2>4. Taken' = Room(sends) /\ Room(sends) \in Nat
    BY <1>1, <2>1, RoomFacts DEF Taken, EarlySends
  <2>5. Fits(chip, Room(sends)) /\ loc.wp <= Taken /\ loc.wp \in Nat
    BY <1>2, <2>4, Writes DEF Within, Typed, Locals
  <2>6. Within'
    BY <1>2, <2>1, <2>4, <2>5 DEF Within
  <2> QED
    BY <2>3, <2>6
<1>4. CASE Chip
  <2>1. /\ UNCHANGED <<pc, ret, loc, socket, spi, sends, net_posted, current_req>>
        /\ Accept \/ Transmit \/ ArpTimeout \/ (\E n \in Lengths : Arrive(n)) \/ LosePower
    BY <1>4 DEF Chip, netVars, driverVars
  <2>2. /\ sync' \in {sync, FALSE} /\ delivered' \in {delivered, 0}
        /\ faults' = faults \/ (faults < MaxFaults /\ faults' = faults + 1)
    BY <2>1 DEF Accept, Transmit, ArpTimeout, Arrive, LosePower
  <2>3. faults' \in 0..MaxFaults
    BY <2>2, DriverAssumption DEF Typed
  <2>4. sync' \in BOOLEAN /\ delivered' \in Nat
    <3>1. sync' \in BOOLEAN
      BY <2>2 DEF Typed
    <3>2. delivered' \in Nat
      BY <2>2 DEF Typed
    <3> QED
      BY <3>1, <3>2
  <2>5. Typed'
    BY <2>1, <2>3, <2>4 DEF Typed
  <2>6. Fits(chip', Taken)
    BY <1>2, <2>1, ChipFits DEF Within
  <2>7. Taken' = Taken
    BY <2>1 DEF Taken
  <2> QED
    BY <2>1, <2>5, <2>6, <2>7 DEF Within
<1>5. CASE UNCHANGED vars
  BY <1>5 DEF vars, netVars, driverVars, spiVars, ghostVars, Typed, Within, Taken
<1> QED
  BY <1>3, <1>4, <1>5

\* net_task is idle exactly between two requests.
LEMMA PlacedStep == Service /\ Bus /\ Placed /\ [Next]_vars => Placed'
<1> SUFFICES ASSUME Service, Bus, Placed, [Next]_vars PROVE Placed'
  OBVIOUS
<1>1. CASE Frames /\ UNCHANGED netVars
  <2>1. pc # "idle" /\ pc' # "idle" /\ (pc \in Booting => pc' \in Booting)
    <3>1. pc # "idle"
      BY <1>1
         DEF Frames, HwReset, ReadVersion, Configure, LinkUp, CloseCommand, AwaitClosed,
             OpenCommand, AwaitOpen, CheckOpen, ReadSize, ReadDatagram, Retire, RecvCommand,
             AwaitRecv, RestoreRxRd, ConfirmRetired, Reap, ClearReaped, AwaitSpace,
             FillBuffer, SendCommand, AwaitCommit, AwaitOutcome, RestoreTxWr, Unsent
    <3>2. CASE \/ HwReset \/ ReadVersion \/ Configure \/ LinkUp \/ CloseCommand
               \/ AwaitClosed \/ OpenCommand \/ AwaitOpen \/ CheckOpen
      BY <3>1, <3>2 DEF Booting, HwReset, ReadVersion, Configure, LinkUp, CloseCommand,
             AwaitClosed, OpenCommand, AwaitOpen, CheckOpen, OpenFailed, Polled, Continue,
             Goto, Return, ReturnFrom
    <3>3. CASE \/ ReadSize \/ ReadDatagram \/ Retire \/ RecvCommand \/ AwaitRecv
               \/ RestoreRxRd \/ ConfirmRetired
      BY <3>1, <3>3 DEF Booting, ReadSize, ReadDatagram, Retire, RecvCommand, AwaitRecv,
             RestoreRxRd, ConfirmRetired, UnstableRead, Polled, Continue, Restore, Goto,
             Return, ReturnFrom
    <3>4. CASE \/ Reap \/ ClearReaped \/ AwaitSpace \/ FillBuffer \/ SendCommand
               \/ AwaitCommit \/ AwaitOutcome \/ RestoreTxWr \/ Unsent
      BY <3>1, <3>4 DEF Booting, Reap, ClearReaped, AwaitSpace, FillBuffer, SendCommand,
             AwaitCommit, AwaitOutcome, RestoreTxWr, Unsent, UnstableRead, Polled,
             Continue, Restore, Goto, Return, ReturnFrom
    <3> QED
      BY <1>1, <3>1, <3>2, <3>3, <3>4 DEF Frames
  <2> QED
    BY <1>1, <2>1 DEF Placed, netVars
<1>2. CASE Dispatch
  <2>1. /\ svc' = "serving" /\ pc' = IF dead THEN "done" ELSE Entry[current_req.op]
        /\ net_posted > 0
    BY <1>2 DEF Dispatch, TakeRequest
  <2>2. current_req.op \in Operations
    BY <2>1 DEF Service, Requests
  <2>3. \A op \in Operations : Entry[op] # "idle"
    BY DEF Entry, Operations
  <2> QED
    BY <2>1, <2>2, <2>3 DEF Placed
<1>3. CASE Answer \/ Recover \/ ReinitDone \/ BootDone
  BY <1>3 DEF Answer, Recover, ReinitDone, BootDone, Reply, InitReturns, Placed
<1>4. CASE Reinit
  BY <1>4 DEF Reinit, Goto, netVars, Placed, Booting
<1>5. CASE Chip \/ UNCHANGED vars
  BY <1>5 DEF Chip, vars, netVars, driverVars, Placed
<1>6. ASSUME NEW c \in Clients, NEW op \in Ops[c], Call(c, op) PROVE Placed'
  BY <1>6 DEF Call, NetSendRequest, driverVars, Placed
<1> QED
  BY <1>1, <1>2, <1>3, <1>4, <1>5, <1>6 DEF Next, NetTask

\* The invariant of one client: what the steps below rest on.
Lone(c) == Service /\ Bus /\ OneCall(c) /\ Placed /\ Typed /\ Within

\* It holds at the start.
LEMMA LoneInit ==
  ASSUME NEW c, Clients = {c}
  PROVE  Init => Lone(c)
<1> SUFFICES ASSUME Init PROVE Lone(c)
  OBVIOUS
<1>1. /\ pc = "reset" /\ loc = NoLocals /\ socket = NewSocket /\ spi = "READY" /\ faults = 0
      /\ chip = Fresh /\ sends = 0 /\ delivered = 0 /\ sync = FALSE /\ net_posted = 0
      /\ svc = "init"
  BY DEF Init, NetInit
<1>2. Placed
  BY <1>1 DEF Placed, Booting
<1>3. Tries \in Nat \ {0} /\ MaxRx \in Nat /\ TxSize \in Nat /\ MaxSends \in Nat /\ MaxFaults \in Nat
  BY DriverAssumption
<1>4. NoLocals \in Locals /\ NoLocals.wp = 0
  BY <1>3 DEF NoLocals, Locals
<1>5. Typed
  <2>1. NewSocket \in Sockets
    BY DEF NewSocket, Sockets
  <2>2. sync \in BOOLEAN
    BY <1>1
  <2>3. pc \in Points /\ pc \notin SendPoints
    BY <1>1 DEF Points, SendPoints
  <2> QED
    BY <1>1, <1>3, <1>4, <2>1, <2>2, <2>3 DEF Typed
<1>6. Taken \in Nat
  BY <1>1, RoomFacts DEF Taken, EarlySends
<1>7. Within
  BY <1>1, <1>4, <1>6, FreshFits DEF Within
<1> QED
  BY <1>2, <1>5, <1>7, ServiceInit, OneCallInit DEF Lone

\* Every step keeps it.
LEMMA LoneStep ==
  ASSUME NEW c, Clients = {c}
  PROVE  Lone(c) /\ [Next]_vars => Lone(c)'
<1> SUFFICES ASSUME Lone(c), [Next]_vars PROVE Lone(c)'
  OBVIOUS
<1>1. Service /\ Bus /\ OneCall(c) /\ Placed /\ Typed /\ Within
  BY DEF Lone
<1>2. (Service /\ Bus /\ OneCall(c) /\ Placed)'
  BY <1>1, ServiceStep, OneCallStep, PlacedStep
<1>3. Typed' /\ Within'
  <2>1. ASSUME NEW op \in Ops[c], Call(c, op) PROVE Typed' /\ Within'
    BY <1>1, <2>1, TypedCall
  <2>2. CASE Dispatch
    <3>1. net_posted = 1
      BY <1>1, <2>2 DEF Dispatch, TakeRequest, OneCall
    <3> QED
      BY <1>1, <2>2, <3>1, TypedDispatch
  <2>3. CASE /\ Frames
             /\ delivered' = IF Delivers /\ sync THEN loc.rp + 1 + loc.hlen ELSE delivered
             /\ sync' = (Opens \/ (sync /\ spi' = "READY" /\ pc' \notin {"rxrestore", "txrestore"}))
             /\ UNCHANGED <<netVars, sends>>
    <3>1. sync' \in BOOLEAN
      BY <2>3
    <3> QED
      BY <1>1, <2>3, <3>1, TypedFrames
  <2>4. CASE \/ /\ Answer \/ Recover \/ Reinit \/ ReinitDone \/ BootDone
                /\ UNCHANGED <<chip, ghostVars, sync>>
             \/ Chip
             \/ UNCHANGED vars
    BY <1>1, <2>4, TypedOthers
  <2> QED
    BY <2>1, <2>2, <2>3, <2>4 DEF Next, NetTask
<1> QED
  BY <1>2, <1>3 DEF Lone

\* For one client: the polls are bounded, and the pointers into the transmit
\* buffer never pass the room of the sends there were (w5500_socket_send).
THEOREM DriverTypes ==
  (\E c : Clients = {c}) => (Spec => []TypeOK)
<1> SUFFICES ASSUME NEW c, Clients = {c} PROVE Spec => []TypeOK
  OBVIOUS
<1>1. Init => Lone(c)
  BY LoneInit
<1>2. Lone(c) /\ [Next]_vars => Lone(c)'
  BY LoneStep
<1>3. Lone(c) => TypeOK
  <2> SUFFICES ASSUME Lone(c) PROVE TypeOK
    OBVIOUS
  <2>1. NetTypeOK /\ ret \in DriverStatuses /\ Typed /\ Within
    BY DEF Lone, Service
  <2>2. /\ sends \in 0..MaxSends /\ sends \in Nat /\ MaxSends \in Nat
        /\ (pc \in EarlySends => sends > 0)
    BY <2>1, DriverAssumption DEF Typed, EarlySends, SendPoints
  <2>3. Taken \in Nat /\ Taken <= MaxTx /\ MaxTx \in Nat
    <3>1. Taken \in Nat /\ Taken <= Room(sends)
      BY <2>2, TakenFacts
    <3>2. Room(sends) <= Room(MaxSends) /\ Room(MaxSends) \in Nat /\ Room(sends) \in Nat
      BY <2>2, RoomFacts
    <3>3. Room(MaxSends) = MaxTx
      BY DEF Room, MaxTx
    <3> QED
      BY <3>1, <3>2, <3>3
  <2>4. /\ chip \in Registers /\ chip.tx_rd <= Taken /\ chip.tx_wr <= Taken /\ loc.wp <= Taken
        /\ loc \in Locals
    BY <2>1 DEF Within, Fits, Typed
  <2>5. /\ chip.sr \in {"CLOSED", "UDP"} /\ chip.ir \subseteq {"SENDOK", "TIMEOUT"}
        /\ chip.tx \in [0..MaxTx - 1 -> Cells \cup {NoCell}]
        /\ chip.rx \in Seq(Lengths \cup {NoHeader})
        /\ chip.tx_rd \in Nat /\ chip.tx_wr \in Nat
    BY <2>4 DEF Registers, Buffers
  <2>6. {chip.tx_rd, chip.tx_wr} \subseteq 0..MaxTx
    BY <2>3, <2>4, <2>5
  <2>7. loc \in [tries : 0..Tries - 1, len : 0..MaxRx + TxSize, rp : Nat, hlen : Nat, wp : 0..MaxTx]
    BY <2>3, <2>4 DEF Locals
  <2> QED
    BY <2>1, <2>5, <2>6, <2>7 DEF TypeOK, Typed, Sockets, DriverStatuses
<1> QED
  BY <1>1, <1>2, <1>3, PTL DEF Spec

-----------------------------------------------------------------------------
(* The receive buffer.                                                     *)

\* What the driver's frames leave alone: the datagrams received, but for the
\* reset of the chip, and where the chip has freed them up to.
LEMMA FramesKeepRx ==
  ASSUME chip \in Registers, Frames
  PROVE  \/ chip' = Fresh
         \/ UNCHANGED <<chip.rx, chip.rx_base>>
<1>1. ASSUME NEW after, after.rx = chip.rx, after.rx_base = chip.rx_base,
             NEW st \in Results, Frame(after, st)
      PROVE  UNCHANGED <<chip.rx, chip.rx_base>>
  BY <1>1 DEF Frame
<1>2. CASE HwReset
  BY <1>2 DEF HwReset
<1>3. CASE \/ ReadVersion \/ Configure \/ LinkUp \/ AwaitClosed \/ AwaitOpen \/ CheckOpen
           \/ ReadSize \/ ReadDatagram \/ AwaitRecv \/ ConfirmRetired \/ AwaitSpace
           \/ AwaitCommit \/ AwaitOutcome
  BY <1>1, <1>3
     DEF ReadVersion, Configure, LinkUp, AwaitClosed, AwaitOpen, CheckOpen, ReadSize,
         ReadDatagram, AwaitRecv, ConfirmRetired, AwaitSpace, AwaitCommit, AwaitOutcome,
         UnstableRead
<1>4. /\ \A v : /\ [chip EXCEPT !.cr = v].rx = chip.rx
                /\ [chip EXCEPT !.cr = v].rx_base = chip.rx_base
      /\ \A v : /\ [chip EXCEPT !.mr = v].rx = chip.rx
                /\ [chip EXCEPT !.mr = v].rx_base = chip.rx_base
      /\ \A v : /\ [chip EXCEPT !.port = v].rx = chip.rx
                /\ [chip EXCEPT !.port = v].rx_base = chip.rx_base
      /\ \A v : /\ [chip EXCEPT !.ir = v].rx = chip.rx
                /\ [chip EXCEPT !.ir = v].rx_base = chip.rx_base
      /\ \A v : /\ [chip EXCEPT !.dst = v].rx = chip.rx
                /\ [chip EXCEPT !.dst = v].rx_base = chip.rx_base
      /\ \A v : /\ [chip EXCEPT !.tx = v].rx = chip.rx
                /\ [chip EXCEPT !.tx = v].rx_base = chip.rx_base
      /\ \A v : /\ [chip EXCEPT !.tx_wr = v].rx = chip.rx
                /\ [chip EXCEPT !.tx_wr = v].rx_base = chip.rx_base
      /\ \A v : /\ [chip EXCEPT !.rx_rd = v].rx = chip.rx
                /\ [chip EXCEPT !.rx_rd = v].rx_base = chip.rx_base
  BY DEF Registers
<1>5. CASE CloseCommand \/ OpenCommand \/ RecvCommand \/ Retire \/ RestoreRxRd
  BY <1>1, <1>4, <1>5 DEF CloseCommand, OpenCommand, RecvCommand, Retire, RestoreRxRd
<1>6. CASE Reap
  <2>1. ReapFrame.rx = chip.rx /\ ReapFrame.rx_base = chip.rx_base
    BY <1>4 DEF ReapFrame
  <2> QED
    BY <1>1, <1>6, <2>1 DEF Reap
<1>7. CASE ClearReaped \/ Unsent
  BY <1>1, <1>4, <1>7 DEF ClearReaped, Unsent, ResetTxWr
<1>8. CASE FillBuffer \/ SendCommand \/ RestoreTxWr
  BY <1>1, <1>4, <1>8 DEF FillBuffer, SendCommand, RestoreTxWr
<1> QED
  BY <1>2, <1>3, <1>5, <1>6, <1>7, <1>8 DEF Frames

\* A datagram that arrives begins where the one before it ends.
LEMMA ArriveKeeps ==
  ASSUME Typed, Within, NEW n \in Lengths, Arrive(n)
  PROVE  /\ Len(chip'.rx) = Len(chip.rx) + 1 + n /\ n \in Nat /\ n # NoHeader
         /\ \A i \in 1..Len(chip.rx) : chip'.rx[i] = chip.rx[i]
         /\ chip'.rx[Len(chip.rx) + 1] = n
         /\ \A i \in Len(chip.rx) + 2..Len(chip.rx) + 1 + n : chip'.rx[i] = NoHeader
<1> DEFINE old == chip.rx
           tail == [i \in 1..n |-> NoHeader]
<1>1. chip \in Registers /\ old \in Seq(Lengths \cup {NoHeader}) /\ Len(old) \in Nat
  BY DEF Within, Fits, Registers
<1>2. chip' = [chip EXCEPT !.rx = old \o <<n>> \o tail]
  BY DEF Arrive
<1>3. chip'.rx = old \o <<n>> \o tail
  BY <1>1, <1>2 DEF Registers
<1>4. n \in Nat /\ 0 < n
  BY LengthsFit
<1>5. n # NoHeader
  BY <1>4 DEF NoHeader
<1>6. tail \in Seq(Lengths \cup {NoHeader}) /\ Len(tail) = n /\ \A i \in 1..n : tail[i] = NoHeader
  BY <1>4
<1>7. <<n>> \in Seq(Lengths \cup {NoHeader}) /\ Len(<<n>>) = 1 /\ <<n>>[1] = n
  OBVIOUS
<1> HIDE DEF tail, old
<1> DEFINE mid == old \o <<n>>
<1>8. /\ mid \in Seq(Lengths \cup {NoHeader}) /\ Len(mid) = Len(old) + 1
      /\ \A i \in 1..Len(old) : mid[i] = old[i]
      /\ mid[Len(old) + 1] = n
  BY <1>1, <1>7
<1> HIDE DEF mid
<1>9. /\ Len(mid \o tail) = Len(old) + 1 + n
      /\ \A i \in 1..Len(mid) : (mid \o tail)[i] = mid[i]
      /\ \A i \in Len(mid) + 1..Len(mid) + n : (mid \o tail)[i] = tail[i - Len(mid)]
  BY <1>4, <1>6, <1>8
<1>10. chip'.rx = mid \o tail
  BY <1>3 DEF mid
<1>11. \A i \in 1..Len(old) : chip'.rx[i] = old[i]
  BY <1>1, <1>8, <1>9, <1>10
<1>12. chip'.rx[Len(old) + 1] = n
  BY <1>1, <1>8, <1>9, <1>10
<1>13. ASSUME NEW i \in Len(old) + 2..Len(old) + 1 + n PROVE chip'.rx[i] = NoHeader
  <2>1. i - Len(mid) \in 1..n /\ i \in Len(mid) + 1..Len(mid) + n
    BY <1>1, <1>4, <1>8
  <2> QED
    BY <1>6, <1>9, <1>10, <2>1
<1> QED
  BY <1>4, <1>5, <1>9, <1>10, <1>11, <1>12, <1>13 DEF old

\* A boundary stays one while datagrams arrive, and the datagrams stay chained.
LEMMA ArriveChained ==
  ASSUME Typed, Within, Chained, NEW n \in Lengths, Arrive(n)
  PROVE  Chained' /\ \A p : Boundary(chip.rx, p) => Boundary(chip'.rx, p)
<1>1. Len(chip.rx) \in Nat
  BY DEF Within, Fits, Registers
<1>2. /\ Len(chip'.rx) = Len(chip.rx) + 1 + n /\ n \in Nat /\ n # NoHeader
      /\ \A i \in 1..Len(chip.rx) : chip'.rx[i] = chip.rx[i]
      /\ chip'.rx[Len(chip.rx) + 1] = n
      /\ \A i \in Len(chip.rx) + 2..Len(chip.rx) + 1 + n : chip'.rx[i] = NoHeader
  BY ArriveKeeps
<1>3. ASSUME NEW p, Boundary(chip.rx, p) PROVE Boundary(chip'.rx, p)
  <2>1. CASE p = Len(chip.rx)
    BY <1>1, <1>2, <1>3, <2>1 DEF Boundary
  <2>2. CASE p < Len(chip.rx)
    <3>1. p \in Nat /\ p + 1 \in 1..Len(chip.rx) /\ chip.rx[p + 1] # NoHeader
      BY <1>1, <1>3, <2>2 DEF Boundary
    <3> QED
      BY <1>1, <1>2, <2>2, <3>1 DEF Boundary
  <2> QED
    BY <1>3, <2>1, <2>2 DEF Boundary
<1>4. Boundary(chip'.rx, 0)
  BY <1>3 DEF Chained
<1>5. ASSUME NEW p \in 0..Len(chip'.rx) - 1, chip'.rx[p + 1] # NoHeader
      PROVE  Boundary(chip'.rx, p + 1 + chip'.rx[p + 1])
  <2>1. CASE p < Len(chip.rx)
    <3>1. p + 1 \in 1..Len(chip.rx) /\ p \in 0..Len(chip.rx) - 1
      BY <1>1, <2>1
    <3>2. Boundary(chip.rx, p + 1 + chip.rx[p + 1])
      BY <1>2, <1>5, <3>1 DEF Chained
    <3>3. chip'.rx[p + 1] = chip.rx[p + 1]
      BY <1>2, <3>1
    <3> QED
      BY <1>3, <3>2, <3>3
  <2>2. CASE p = Len(chip.rx)
    <3>1. chip'.rx[p + 1] = n
      BY <1>2, <2>2
    <3>2. p + 1 + n = Len(chip'.rx) /\ Len(chip'.rx) \in Nat
      BY <1>1, <1>2, <2>2
    <3> QED
      BY <3>1, <3>2 DEF Boundary
  <2>3. CASE p > Len(chip.rx)
    <3>0. p \in Int /\ p <= Len(chip'.rx) - 1 /\ Len(chip'.rx) = Len(chip.rx) + 1 + n
          /\ n \in Nat
      BY <1>1, <1>2, <1>5
    <3>1. p + 1 \in Len(chip.rx) + 2..Len(chip.rx) + 1 + n
      BY <1>1, <2>3, <3>0
    <3> QED
      BY <1>2, <1>5, <3>1
  <2> QED
    BY <1>1, <1>2, <1>5, <2>1, <2>2, <2>3
<1>6. Chained'
  BY <1>4, <1>5 DEF Chained
<1> QED
  BY <1>3, <1>6

\* No other step of the chip adds to what was received.
LEMMA ChipKeepsRx ==
  ASSUME chip \in Registers, Accept \/ Transmit \/ ArpTimeout \/ LosePower
  PROVE  chip'.rx = <<>> \/ chip'.rx = chip.rx
<1>1. Fresh.rx = <<>> /\ Fresh \in Registers
  BY FreshFits DEF Fresh
<1>2. CASE Accept
  <2>1. chip.cr # "none" /\ chip' = Accepted
    BY <1>2 DEF Accept
  <2>2. CASE chip.cr = "OPEN"
    BY <1>1, <2>1, <2>2 DEF Accepted, Registers
  <2>3. CASE chip.cr = "CLOSE"
    BY <2>1, <2>3 DEF Accepted, Registers
  <2>4. CASE chip.cr = "RECV"
    BY <2>1, <2>4 DEF Accepted, Registers
  <2>5. CASE chip.cr \in {"SEND", "SEND_MAC"}
    BY <2>1, <2>5 DEF Accepted, Registers
  <2> QED
    BY <2>1, <2>2, <2>3, <2>4, <2>5 DEF Registers
<1>3. CASE Transmit \/ ArpTimeout
  BY <1>3 DEF Transmit, ArpTimeout, Registers
<1>4. CASE LosePower
  BY <1>1, <1>4 DEF LosePower
<1> QED
  BY <1>2, <1>3, <1>4

\* The datagrams in the receive buffer are chained, whatever happens.
LEMMA ChainedStep ==
  ASSUME Typed, Within, Chained, [Next]_vars
  PROVE  Chained'
<1>1. chip \in Registers
  BY DEF Within, Fits
<1>2. ASSUME chip'.rx = <<>> PROVE Chained'
  BY <1>2 DEF Chained, Boundary
<1>3. ASSUME chip'.rx = chip.rx PROVE Chained'
  BY <1>3 DEF Chained, Boundary
<1>4. CASE Frames
  <2>1. Fresh.rx = <<>>
    BY DEF Fresh
  <2> QED
    BY <1>1, <1>2, <1>3, <1>4, <2>1, FramesKeepRx
<1>5. CASE Chip
  BY <1>1, <1>2, <1>3, <1>5, ChipKeepsRx, ArriveChained DEF Chip
<1>6. CASE chip' = chip
  BY <1>3, <1>6
<1> QED
  BY <1>4, <1>5, <1>6 DEF Next, NetTask, Call, Dispatch, vars

-----------------------------------------------------------------------------
(* The opening of the socket, for a client that does not close it.         *)

\* Everything the open socket's theorems rest on.
Used(c) == Lone(c) /\ Chained /\ Unopened /\ Opened

\* The frames of w5500_init, of w5500_link_up, and those of w5500_socket_open
\* up to the answer leave a socket that is not open the way the next one wants
\* it.
LEMMA UnopenedFrames ==
  ASSUME Typed, Within, Unopened, socket.status # "OPEN", Frames,
         UNCHANGED <<net_posted, current_req>>,
         delivered' = IF Delivers /\ sync THEN loc.rp + 1 + loc.hlen ELSE delivered,
         sync' = (Opens \/ (sync /\ spi' = "READY" /\ pc' \notin {"rxrestore", "txrestore"}))
  PROVE  Unopened'
<1> SUFFICES ASSUME socket'.status # "OPEN" PROVE Unopened'
  BY DEF Unopened
<1>1. /\ ~sync /\ delivered = 0 /\ ~socket.has_unreaped_send
      /\ pc \in Booting \cup {"idle", "done", "link"} \cup OpenPoints
      /\ net_posted > 0 => current_req.op \notin Sends \cup {"recv"}
      /\ chip.ir = {} /\ chip.sending = NoSend /\ chip.tx_rd = 0 /\ chip.tx_wr = 0
      /\ chip.rx_base = 0 /\ chip.rx_rd = 0 /\ chip.cr \in {"none", "OPEN", "CLOSE"}
  BY DEF Unopened
<1>2. spi = "READY" =>
        /\ pc \in {"closing", "mr", "port", "opencmd"} => chip.cr \in {"none", "CLOSE"}
        /\ pc \in {"mr", "port", "opencmd"} => chip.sr = "CLOSED"
        /\ pc = "opening" /\ chip.sr = "UDP" => chip.cr = "none"
        /\ pc \in {"mrcheck", "portcheck"} =>
             chip.cr = "none" /\ (chip.port = "set" => chip.sr = "UDP")
  BY DEF Unopened
<1>3. ~sync' /\ delivered' = 0
  BY <1>1 DEF Opens
<1>4. chip \in Registers /\ socket \in Sockets /\ loc \in Locals
  BY DEF Within, Fits, Typed
<1> DEFINE Path ==
      /\ pc' \in Booting \cup {"done", "link"} \cup OpenPoints /\ ~socket'.has_unreaped_send
      /\ spi' = "READY" =>
           /\ pc' \in {"closing", "mr", "port", "opencmd"} => chip'.cr \in {"none", "CLOSE"}
           /\ pc' \in {"mr", "port", "opencmd"} => chip'.sr = "CLOSED"
           /\ pc' = "opening" /\ chip'.sr = "UDP" => chip'.cr = "none"
           /\ pc' \in {"mrcheck", "portcheck"} =>
                chip'.cr = "none" /\ (chip'.port = "set" => chip'.sr = "UDP")
    Still ==
      /\ chip'.ir = {} /\ chip'.sending = NoSend /\ chip'.tx_rd = 0 /\ chip'.tx_wr = 0
      /\ chip'.rx_base = 0 /\ chip'.rx_rd = 0 /\ chip'.cr \in {"none", "OPEN", "CLOSE"}
<1>5. Path /\ Still => Unopened'
  BY <1>1, <1>3 DEF Unopened
<1>6. ASSUME NEW after, NEW st \in Results, Frame(after, st)
      PROVE  /\ chip' \in {chip, after}
             /\ spi' = "READY" => st = "OK" /\ spi = "READY" /\ chip' = after
  BY <1>6 DEF Frame, spiVars
<1>7. ASSUME NEW st \in Results, Frame(chip, st) PROVE chip' = chip
  BY <1>7 DEF Frame
<1>8. \A s : [socket EXCEPT !.status = s].has_unreaped_send = socket.has_unreaped_send
  BY <1>4 DEF Sockets
<1>9. CASE HwReset
  BY <1>1, <1>5, <1>9 DEF HwReset, Goto, Fresh, Booting
<1>10. CASE ReadVersion \/ Configure \/ LinkUp
  <2>1. chip' = chip
    BY <1>7, <1>10 DEF ReadVersion, Configure, LinkUp
  <2>2. Still
    BY <1>1, <2>1
  <2>3. pc' \in Booting \cup {"done"} /\ socket' = socket
    BY <1>10 DEF ReadVersion, Configure, LinkUp, Goto, Return, ReturnFrom, Booting
  <2>4. Path
    BY <1>1, <2>3 DEF Booting, OpenPoints
  <2> QED
    BY <1>5, <2>2, <2>4
<1>11. CASE CloseCommand
  <2> DEFINE after == [chip EXCEPT !.cr = "CLOSE"]
  <2>1. PICK st \in Results : Frame(after, st) /\ Goto("closing", loc)
    BY <1>11 DEF CloseCommand
  <2>2. /\ after.ir = chip.ir /\ after.sending = chip.sending /\ after.tx_rd = chip.tx_rd
        /\ after.tx_wr = chip.tx_wr /\ after.rx_base = chip.rx_base
        /\ after.rx_rd = chip.rx_rd /\ after.cr = "CLOSE"
    BY <1>4 DEF Registers
  <2> HIDE DEF after
  <2>3. Still /\ (spi' = "READY" => chip'.cr = "CLOSE")
    BY <1>1, <1>6, <2>1, <2>2
  <2>4. pc' = "closing" /\ socket' = socket
    BY <2>1 DEF Goto
  <2>5. Path
    BY <1>1, <2>3, <2>4 DEF OpenPoints
  <2> QED
    BY <1>5, <2>3, <2>5
<1>12. CASE AwaitClosed
  <2>1. PICK st \in Results : Frame(chip, st) /\
       Polled(st, chip.sr = "CLOSED",
              IF my_req.op = "open"
              THEN /\ pc' = "mr" /\ loc' = NoLocals /\ UNCHANGED ret
                   /\ socket' = [socket EXCEPT !.status = "CLOSED"]
              ELSE ReturnFrom("OK", [socket EXCEPT !.status = "CLOSED"]),
              Return(st),
              ReturnFrom("TRANSIENT", [socket EXCEPT !.status = "ERROR"]))
    BY <1>12 DEF AwaitClosed
  <2>2. pc = "closing"
    BY <1>12 DEF AwaitClosed
  <2>3. chip' = chip /\ (spi' = "READY" => spi = "READY")
    BY <1>6, <1>7, <2>1
  <2>4. Still
    BY <1>1, <2>3
  <2>5. /\ pc' \in {"mr", "closing", "done"} /\ ~socket'.has_unreaped_send
        /\ pc' = "mr" => chip.sr = "CLOSED"
    BY <1>1, <1>8, <2>1, <2>2 DEF Polled, Goto, Return, ReturnFrom
  <2>6. Path
    BY <1>2, <2>2, <2>3, <2>5 DEF OpenPoints
  <2> QED
    BY <1>5, <2>4, <2>6
<1>13. CASE OpenCommand
  <2>1. CASE pc = "mr"
    <3> DEFINE after == [chip EXCEPT !.mr = "UDP"]
    <3>1. PICK st \in Results : Frame(after, st) /\ Continue(st, "port", loc)
      BY <1>13, <2>1 DEF OpenCommand
    <3>2. /\ after.ir = chip.ir /\ after.sending = chip.sending /\ after.tx_rd = chip.tx_rd
          /\ after.tx_wr = chip.tx_wr /\ after.rx_base = chip.rx_base
          /\ after.rx_rd = chip.rx_rd /\ after.cr = chip.cr /\ after.sr = chip.sr
      BY <1>4 DEF Registers
    <3> HIDE DEF after
    <3>3. Still /\ (spi' = "READY" => spi = "READY" /\ UNCHANGED <<chip.cr, chip.sr>>)
      BY <1>1, <1>6, <3>1, <3>2
    <3>4. pc' \in {"port", "done"} /\ socket' = socket
      BY <2>1, <3>1 DEF Continue, Goto, Return, ReturnFrom
    <3>5. Path
      BY <1>1, <1>2, <2>1, <3>3, <3>4 DEF OpenPoints
    <3> QED
      BY <1>5, <3>3, <3>5
  <2>2. CASE pc = "port"
    <3> DEFINE after == [chip EXCEPT !.port = "set"]
    <3>1. PICK st \in Results : Frame(after, st) /\ Continue(st, "opencmd", loc)
      BY <1>13, <2>2 DEF OpenCommand
    <3>2. /\ after.ir = chip.ir /\ after.sending = chip.sending /\ after.tx_rd = chip.tx_rd
          /\ after.tx_wr = chip.tx_wr /\ after.rx_base = chip.rx_base
          /\ after.rx_rd = chip.rx_rd /\ after.cr = chip.cr /\ after.sr = chip.sr
      BY <1>4 DEF Registers
    <3> HIDE DEF after
    <3>3. Still /\ (spi' = "READY" => spi = "READY" /\ UNCHANGED <<chip.cr, chip.sr>>)
      BY <1>1, <1>6, <3>1, <3>2
    <3>4. pc' \in {"opencmd", "done"} /\ socket' = socket
      BY <2>2, <3>1 DEF Continue, Goto, Return, ReturnFrom
    <3>5. Path
      BY <1>1, <1>2, <2>2, <3>3, <3>4 DEF OpenPoints
    <3> QED
      BY <1>5, <3>3, <3>5
  <2>3. CASE pc = "opencmd"
    <3> DEFINE after == [chip EXCEPT !.cr = "OPEN"]
    <3>1. PICK st \in Results : Frame(after, st) /\ Continue(st, "opening", loc)
      BY <1>13, <2>3 DEF OpenCommand
    <3>2. /\ after.ir = chip.ir /\ after.sending = chip.sending /\ after.tx_rd = chip.tx_rd
          /\ after.tx_wr = chip.tx_wr /\ after.rx_base = chip.rx_base
          /\ after.rx_rd = chip.rx_rd /\ after.cr = "OPEN" /\ after.sr = chip.sr
      BY <1>4 DEF Registers
    <3> HIDE DEF after
    <3>3. Still /\ (spi' = "READY" => spi = "READY" /\ UNCHANGED chip.sr)
      BY <1>1, <1>6, <3>1, <3>2
    <3>4. pc' \in {"opening", "done"} /\ socket' = socket
      BY <2>3, <3>1 DEF Continue, Goto, Return, ReturnFrom
    <3>5. Path
      BY <1>1, <1>2, <2>3, <3>3, <3>4 DEF OpenPoints
    <3> QED
      BY <1>5, <3>3, <3>5
  <2> QED
    BY <1>13, <2>1, <2>2, <2>3 DEF OpenCommand
<1>14. CASE AwaitOpen
  <2>1. PICK st \in Results : Frame(chip, st) /\
          Polled(st, chip.sr = "UDP", Goto("mrcheck", NoLocals), Return(st),
                 OpenFailed("TRANSIENT"))
    BY <1>14 DEF AwaitOpen
  <2>2. pc = "opening"
    BY <1>14 DEF AwaitOpen
  <2>3. chip' = chip /\ (spi' = "READY" => spi = "READY")
    BY <1>6, <1>7, <2>1
  <2>4. /\ pc' \in {"mrcheck", "opening", "done"} /\ ~socket'.has_unreaped_send
        /\ pc' = "mrcheck" => chip.sr = "UDP"
    BY <1>1, <1>8, <2>1, <2>2 DEF Polled, OpenFailed, Goto, Return, ReturnFrom
  <2>5. Path
    BY <1>2, <2>2, <2>3, <2>4 DEF OpenPoints
  <2> QED
    BY <1>1, <1>5, <2>3, <2>5
<1>15. CASE CheckOpen
  <2>1. pc \in {"mrcheck", "portcheck"} /\ \E st \in Results : Frame(chip, st)
    BY <1>15 DEF CheckOpen
  <2>2. chip' = chip /\ (spi' = "READY" => spi = "READY")
    BY <1>6, <1>7, <2>1
  <2>3. pc' \in {"portcheck", "done"} /\ ~socket'.has_unreaped_send
    BY <1>1, <1>8, <1>15 DEF CheckOpen, OpenFailed, Goto, ReturnFrom
  <2>4. Path
    BY <1>2, <2>1, <2>2, <2>3 DEF OpenPoints
  <2> QED
    BY <1>1, <1>5, <2>2, <2>4
<1>16. \/ HwReset \/ ReadVersion \/ Configure \/ LinkUp \/ CloseCommand
       \/ AwaitClosed \/ OpenCommand \/ AwaitOpen \/ CheckOpen
  <2>1. pc \notin RecvPoints \cup SendPoints \cup Restores
    BY <1>1 DEF Booting, OpenPoints, RecvPoints, SendPoints, Restores
  <2> QED
    BY <2>1
       DEF Frames, ReadSize, ReadDatagram, Retire, RecvCommand, AwaitRecv, RestoreRxRd,
           ConfirmRetired, Reap, ClearReaped, AwaitSpace, FillBuffer, SendCommand,
           AwaitCommit, AwaitOutcome, RestoreTxWr, Unsent, RecvPoints, SendPoints, Restores
<1> QED
  BY <1>9, <1>10, <1>11, <1>12, <1>13, <1>14, <1>15, <1>16

\* The chip's own steps find such a socket still.
LEMMA UnopenedChip ==
  ASSUME Typed, Within, Unopened, Chip
  PROVE  socket.status # "OPEN" => Unopened'
<1> SUFFICES ASSUME socket.status # "OPEN" PROVE Unopened'
  OBVIOUS
<1>1. /\ ~sync /\ delivered = 0 /\ ~socket.has_unreaped_send
      /\ pc \in Booting \cup {"idle", "done", "link"} \cup OpenPoints
      /\ net_posted > 0 => current_req.op \notin Sends \cup {"recv"}
      /\ chip.ir = {} /\ chip.sending = NoSend /\ chip.tx_rd = 0 /\ chip.tx_wr = 0
      /\ chip.rx_base = 0 /\ chip.rx_rd = 0 /\ chip.cr \in {"none", "OPEN", "CLOSE"}
  BY DEF Unopened
<1>2. spi = "READY" =>
        /\ pc \in {"closing", "mr", "port", "opencmd"} => chip.cr \in {"none", "CLOSE"}
        /\ pc \in {"mr", "port", "opencmd"} => chip.sr = "CLOSED"
        /\ pc = "opening" /\ chip.sr = "UDP" => chip.cr = "none"
        /\ pc \in {"mrcheck", "portcheck"} =>
             chip.cr = "none" /\ (chip.port = "set" => chip.sr = "UDP")
  BY DEF Unopened
<1>3. /\ UNCHANGED <<pc, socket, spi, net_posted, current_req>>
      /\ Accept \/ Transmit \/ ArpTimeout \/ (\E n \in Lengths : Arrive(n)) \/ LosePower
  BY DEF Chip, netVars, driverVars
<1>4. ~sync' /\ delivered' = 0
  <2>1. sync' = sync \/ sync' = FALSE
    BY <1>3 DEF Accept, Transmit, ArpTimeout, Arrive, LosePower
  <2>2. delivered' \in {delivered, 0}
    BY <1>3 DEF Accept, Transmit, ArpTimeout, Arrive, LosePower
  <2> QED
    BY <1>1, <2>1, <2>2
<1>5. chip \in Registers
  BY DEF Within, Fits
<1> DEFINE Still ==
      /\ chip'.ir = {} /\ chip'.sending = NoSend /\ chip'.tx_rd = 0 /\ chip'.tx_wr = 0
      /\ chip'.rx_base = 0 /\ chip'.rx_rd = 0
<1>6. ASSUME Still, chip'.cr = "none",
             pc \in {"mr", "port", "opencmd"} /\ spi = "READY" => chip'.sr = "CLOSED",
             pc \in {"mrcheck", "portcheck"} /\ spi = "READY" =>
               (chip'.port = "set" => chip'.sr = "UDP")
      PROVE  Unopened'
  BY <1>1, <1>3, <1>4, <1>6 DEF Unopened
<1>7. CASE Accept
  <2>1. chip.cr # "none" /\ chip' = Accepted
    BY <1>7 DEF Accept
  <2>2. CASE chip.cr = "OPEN"
    <3> DEFINE sr == IF chip.mr = "UDP" THEN "UDP" ELSE "CLOSED"
    <3>1. chip' = [Fresh EXCEPT !.sr = sr, !.mr = chip.mr, !.port = chip.port, !.ir = chip.ir]
      BY <2>1, <2>2 DEF Accepted
    <3>2. Still /\ chip'.cr = "none"
      BY <1>1, <3>1 DEF Fresh
    <3> QED
      BY <1>2, <1>6, <2>2, <3>2
  <2>3. CASE chip.cr = "CLOSE"
    <3>1. chip' = [chip EXCEPT !.cr = "none", !.sr = "CLOSED", !.sending = NoSend]
      BY <2>1, <2>3 DEF Accepted
    <3>2. Still /\ chip'.cr = "none" /\ chip'.sr = "CLOSED"
      BY <1>1, <1>5, <3>1 DEF Registers
    <3> QED
      BY <1>2, <1>6, <2>3, <3>2
  <2> QED
    BY <1>1, <2>1, <2>2, <2>3
<1>8. CASE Transmit \/ ArpTimeout
  BY <1>1, <1>8 DEF Transmit, ArpTimeout
<1>9. ASSUME NEW n \in Lengths, Arrive(n) PROVE Unopened'
  <2>1. Still /\ UNCHANGED <<chip.cr, chip.sr, chip.port>>
    BY <1>1, <1>5, <1>9 DEF Arrive, Registers
  <2> QED
    BY <1>1, <1>2, <1>3, <1>4, <2>1 DEF Unopened
<1>10. CASE LosePower
  BY <1>6, <1>10 DEF LosePower, Fresh
<1> QED
  BY <1>3, <1>7, <1>8, <1>9, <1>10

\* A frame of an open socket leaves it open.
LEMMA OpenedFrames ==
  ASSUME Typed, Opened, socket.status = "OPEN", Frames, UNCHANGED netVars
  PROVE  Opened' /\ socket'.status = "OPEN"
<1>1. /\ pc \notin Booting \cup OpenPoints
      /\ pc \in Restores \cup {"done"} => ret # "STATE"
      /\ net_posted > 0 => current_req.op \notin {"open", "close"}
  BY DEF Opened
<1>2. \A flag : Unreaped(flag).status = socket.status
  BY DEF Typed, Sockets, Unreaped
<1>3. UNCHANGED <<net_posted, current_req>>
  BY DEF netVars
<1> DEFINE Stays ==
      /\ socket'.status = "OPEN" /\ pc' \notin Booting \cup OpenPoints
      /\ pc' \in Restores \cup {"done"} => ret' # "STATE"
<1>4. CASE LinkUp
  <2>1. Stays
    BY <1>4 DEF LinkUp, Return, ReturnFrom, Results, Booting, OpenPoints
  <2> QED
    BY <1>1, <1>3, <2>1 DEF Opened
<1>5. CASE \/ ReadSize \/ ReadDatagram \/ Retire \/ RecvCommand \/ AwaitRecv
           \/ RestoreRxRd \/ ConfirmRetired
  <2>1. Stays
    <3> USE <1>1 DEF Booting, OpenPoints, Restores, Results, Goto, Return, ReturnFrom
    <3>1. CASE ReadSize
      BY <3>1 DEF ReadSize, UnstableRead, Continue
    <3>2. CASE ReadDatagram \/ Retire
      BY <3>2 DEF ReadDatagram, Retire, Continue
    <3>3. CASE RecvCommand \/ AwaitRecv
      BY <3>3 DEF RecvCommand, AwaitRecv, Polled, Restore
    <3>4. CASE RestoreRxRd
      BY <3>4 DEF RestoreRxRd
    <3>5. CASE ConfirmRetired
      BY <3>5 DEF ConfirmRetired, UnstableRead
    <3> QED
      BY <1>5, <3>1, <3>2, <3>3, <3>4, <3>5
  <2> QED
    BY <1>1, <1>3, <2>1 DEF Opened
<1>6. CASE \/ Reap \/ ClearReaped \/ AwaitSpace \/ FillBuffer \/ SendCommand
           \/ AwaitCommit \/ AwaitOutcome \/ RestoreTxWr \/ Unsent
  <2>1. Stays
    <3> USE <1>1, <1>2 DEF Booting, OpenPoints, Restores, Results, Goto, Return, ReturnFrom
    <3>1. CASE Reap
      BY <3>1 DEF Reap, Continue
    <3>2. CASE ClearReaped
      BY <3>2 DEF ClearReaped, Continue
    <3>3. CASE AwaitSpace
      BY <3>3 DEF AwaitSpace, UnstableRead, Polled
    <3>4. CASE FillBuffer
      BY <3>4 DEF FillBuffer, Continue
    <3>5. CASE SendCommand
      BY <3>5 DEF SendCommand, Restore
    <3>6. CASE AwaitCommit
      BY <3>6 DEF AwaitCommit, Polled, Restore
    <3>7. CASE AwaitOutcome
      BY <3>7 DEF AwaitOutcome, Polled, Restore
    <3>8. CASE RestoreTxWr \/ Unsent
      BY <3>8 DEF RestoreTxWr, Unsent
    <3> QED
      BY <1>6, <3>1, <3>2, <3>3, <3>4, <3>5, <3>6, <3>7, <3>8
  <2> QED
    BY <1>1, <1>3, <2>1 DEF Opened
<1> QED
  BY <1>1, <1>4, <1>5, <1>6
     DEF Frames, HwReset, ReadVersion, Configure, CloseCommand, AwaitClosed, OpenCommand,
         AwaitOpen, CheckOpen, Booting, OpenPoints

\* An open that succeeds leaves no request in the mailbox.
LEMMA OpensOpened ==
  ASSUME NEW c, Clients = {c}, Lone(c), Frames, UNCHANGED netVars,
         socket.status # "OPEN", socket'.status = "OPEN"
  PROVE  Opened' /\ pc = "portcheck" /\ CheckOpen
<1>1. \A s : [socket EXCEPT !.status = s].status = s
  BY DEF Lone, Typed, Sockets
<1>2. \A flag : Unreaped(flag).status = socket.status
  BY DEF Lone, Typed, Sockets, Unreaped
<1>3. CheckOpen /\ pc = "portcheck"
  <2>1. CASE \/ ReadSize \/ ReadDatagram \/ Retire \/ RecvCommand \/ AwaitRecv
             \/ RestoreRxRd \/ ConfirmRetired
    BY <2>1 DEF ReadSize, ReadDatagram, Retire, RecvCommand, AwaitRecv, RestoreRxRd,
           ConfirmRetired, UnstableRead, Polled, Continue, Restore, Goto, Return, ReturnFrom
  <2>2. CASE \/ Reap \/ ClearReaped \/ AwaitSpace \/ FillBuffer \/ SendCommand
             \/ AwaitCommit \/ AwaitOutcome \/ RestoreTxWr \/ Unsent
    BY <1>2, <2>2 DEF Reap, ClearReaped, AwaitSpace, FillBuffer, SendCommand, AwaitCommit,
           AwaitOutcome, RestoreTxWr, Unsent, UnstableRead, Polled, Continue, Restore,
           Goto, Return, ReturnFrom
  <2>3. CASE HwReset \/ ReadVersion \/ Configure \/ LinkUp \/ CloseCommand \/ OpenCommand
    BY <2>3 DEF HwReset, ReadVersion, Configure, LinkUp, CloseCommand, OpenCommand,
           Continue, Goto, Return, ReturnFrom
  <2>4. CASE AwaitClosed \/ AwaitOpen
    BY <1>1, <2>4 DEF AwaitClosed, AwaitOpen, OpenFailed, Polled, Goto, Return, ReturnFrom
  <2>5. CASE CheckOpen
    BY <1>1, <2>5 DEF CheckOpen, OpenFailed, Goto, ReturnFrom
  <2> QED
    BY <2>1, <2>2, <2>3, <2>4, <2>5 DEF Frames
<1>4. pc' = "done" /\ ret' = "OK"
  BY <1>1, <1>3 DEF CheckOpen, OpenFailed, ReturnFrom
<1>5. net_posted = 0
  <2>1. svc = "serving"
    BY <1>3 DEF Lone, Placed, Service, NetTypeOK, Booting
  <2> QED
    BY <2>1 DEF Lone, OneCall
<1>6. net_posted' = 0
  BY <1>5 DEF netVars
<1> QED
  BY <1>3, <1>4, <1>6 DEF Opened, Booting, OpenPoints

\* A client that does not close its socket opens it once.
LEMMA UsedStep ==
  ASSUME NEW c, Clients = {c}, "close" \notin Ops[c]
  PROVE  Used(c) /\ [Next]_vars => Used(c)'
<1> SUFFICES ASSUME Used(c), [Next]_vars PROVE Used(c)'
  OBVIOUS
<1>1. Lone(c) /\ Service /\ OneCall(c) /\ Placed /\ Typed /\ Within /\ Chained /\ Unopened /\ Opened
  BY DEF Used, Lone
<1>2. Lone(c)' /\ Chained'
  BY <1>1, LoneStep, ChainedStep
<1>3. Unopened' /\ Opened'
  <2>1. ASSUME NEW op \in Ops[c], Call(c, op) PROVE Unopened' /\ Opened'
    <3>1. /\ op # "close"
          /\ \/ op \notin {"open", "recv", "send", "send_mac"}
             \/ (op = "open") = (socket.status # "OPEN")
      BY <2>1 DEF Call
    <3>2. current_req'.op = op
      BY <2>1 DEF Call, NetSendRequest
    <3>3. UNCHANGED <<pc, ret, loc, socket, spi, faults, chip, sends, delivered, sync>>
      BY <2>1 DEF Call, driverVars, spiVars, ghostVars
    <3>4. Unopened'
      BY <1>1, <3>1, <3>2, <3>3 DEF Unopened, Sends
    <3>5. Opened'
      BY <1>1, <3>1, <3>2, <3>3 DEF Opened
    <3> QED
      BY <3>4, <3>5
  <2>2. CASE Dispatch
    <3>1. /\ pc' = IF dead THEN "done" ELSE Entry[current_req.op]
          /\ ret' \in {"OK", "ARG"} /\ net_posted = 1 /\ net_posted' = 0
          /\ UNCHANGED <<socket, spi, chip, delivered, sync>>
      BY <1>1, <2>2 DEF Dispatch, TakeRequest, spiVars, OneCall
    <3>2. PICK op \in Operations : op = current_req.op
      BY <1>1, <3>1 DEF Service, Requests
    <3>3. /\ op \notin Sends \cup {"recv"} => Entry[op] \in {"link", "close", "done"}
          /\ op \notin {"open", "close"} => Entry[op] \in {"link", "rsr", "reap", "done"}
      BY DEF Entry, Operations, Sends
    <3>4. CASE socket.status = "OPEN"
      <4>1. pc' \in {"link", "rsr", "reap", "done"}
        BY <1>1, <3>1, <3>2, <3>3, <3>4 DEF Opened
      <4> QED
        BY <3>1, <3>4, <4>1 DEF Unopened, Opened, Booting, OpenPoints
    <3>5. CASE socket.status # "OPEN"
      <4>1. pc' \in {"link", "close", "done"}
        BY <1>1, <3>1, <3>2, <3>3, <3>5 DEF Unopened
      <4>2. Unopened'
        BY <1>1, <3>1, <3>5, <4>1 DEF Unopened, Booting, OpenPoints
      <4> QED
        BY <3>1, <3>5, <4>2 DEF Opened
    <3> QED
      BY <3>4, <3>5
  <2>3. CASE /\ Frames
             /\ delivered' = IF Delivers /\ sync THEN loc.rp + 1 + loc.hlen ELSE delivered
             /\ sync' = (Opens \/ (sync /\ spi' = "READY" /\ pc' \notin {"rxrestore", "txrestore"}))
             /\ UNCHANGED <<netVars, sends>>
    <3>1. CASE socket.status = "OPEN"
      <4>1. Opened' /\ socket'.status = "OPEN"
        BY <1>1, <2>3, <3>1, OpenedFrames
      <4> QED
        BY <4>1 DEF Unopened
    <3>2. CASE socket.status # "OPEN"
      <4>1. Unopened'
        BY <1>1, <2>3, <3>2, UnopenedFrames DEF netVars
      <4>2. Opened'
        <5>1. CASE socket'.status = "OPEN"
          BY <1>1, <2>3, <3>2, <5>1, OpensOpened
        <5>2. CASE socket'.status # "OPEN"
          BY <5>2 DEF Opened
        <5> QED
          BY <5>1, <5>2
      <4> QED
        BY <4>1, <4>2
    <3> QED
      BY <3>1, <3>2
  <2>4. CASE /\ Answer \/ Recover \/ Reinit \/ ReinitDone \/ BootDone
             /\ UNCHANGED <<chip, ghostVars, sync>>
    <3>1. /\ pc' \in {"idle", "reset"} /\ UNCHANGED <<chip, delivered, sync>>
          /\ UNCHANGED <<current_req, net_posted>>
          /\ pc' = "reset" => pc = "done" /\ ret = "STATE"
          /\ socket' = socket \/ (pc \in Booting /\ socket' = NewSocket)
      BY <2>4 DEF Answer, Recover, Reinit, ReinitDone, BootDone, Reply, InitReturns, Goto,
                  netVars, ghostVars, Booting
    <3>2. NewSocket.status = "CREATED" /\ ~NewSocket.has_unreaped_send
      BY DEF NewSocket
    <3>3. CASE socket.status = "OPEN"
      <4>1. socket' = socket /\ pc' = "idle"
        BY <1>1, <3>1, <3>3 DEF Opened
      <4>2. Opened'
        BY <1>1, <3>1, <3>3, <4>1 DEF Opened, Booting, OpenPoints, Restores
      <4> QED
        BY <3>3, <4>1, <4>2 DEF Unopened
    <3>4. CASE socket.status # "OPEN"
      <4>1. socket'.status # "OPEN" /\ ~socket'.has_unreaped_send
        BY <1>1, <3>1, <3>2, <3>4 DEF Unopened
      <4>2. Unopened'
        BY <1>1, <3>1, <3>4, <4>1 DEF Unopened, Booting
      <4> QED
        BY <4>1, <4>2 DEF Opened
    <3> QED
      BY <3>3, <3>4
  <2>5. CASE Chip
    <3>1. UNCHANGED <<pc, ret, socket, net_posted, current_req>>
      BY <2>5 DEF Chip, netVars, driverVars
    <3>2. Opened'
      BY <1>1, <3>1 DEF Opened
    <3>3. Unopened'
      BY <1>1, <2>5, <3>1, UnopenedChip DEF Unopened
    <3> QED
      BY <3>2, <3>3
  <2>6. CASE UNCHANGED vars
    BY <1>1, <2>6 DEF vars, netVars, driverVars, spiVars, ghostVars, Unopened, Opened
  <2> QED
    BY <2>1, <2>2, <2>3, <2>4, <2>5, <2>6 DEF Next, NetTask
<1> QED
  BY <1>2, <1>3 DEF Used

\* It has not opened it at the start.
LEMMA UsedInit ==
  ASSUME NEW c, Clients = {c}
  PROVE  Init => Used(c)
<1> SUFFICES ASSUME Init PROVE Used(c)
  OBVIOUS
<1>1. /\ pc = "reset" /\ socket = NewSocket /\ chip = Fresh /\ delivered = 0 /\ sync = FALSE
      /\ net_posted = 0
  BY DEF Init, NetInit
<1>2. socket.status = "CREATED" /\ ~socket.has_unreaped_send
  BY <1>1 DEF NewSocket
<1>3. Chained
  BY <1>1 DEF Chained, Boundary, Fresh
<1>4. Unopened /\ Opened
  BY <1>1, <1>2 DEF Unopened, Opened, Fresh, Booting
<1> QED
  BY <1>3, <1>4, LoneInit DEF Used

-----------------------------------------------------------------------------
(* Driver and chip agree.                                                  *)

Synced(c) == Used(c) /\ Agreed /\ Receiving /\ Sending

\* A frame of a bus that works and goes on working was transferred.
LEMMA Transferred ==
  ASSUME NEW after, NEW st \in Results, Frame(after, st), spi = "READY", spi' = "READY"
  PROVE  st = "OK" /\ chip' = after
  BY DEF Frame, Results

\* Outside w5500_socket_send nothing of a send changes, so long as the socket
\* and the chip's transmit side do not.
LEMMA SendingKept ==
  ASSUME sync, Sending,
         pc \in {"idle", "done", "link", "reap"} \cup RecvPoints,
         pc' \in {"idle", "done", "link", "reap"} \cup RecvPoints,
         UNCHANGED <<chip.ir, chip.sending, chip.tx, chip.tx_rd, chip.tx_wr, socket>>
  PROVE  Sending'
<1>1. IF socket.has_unreaped_send THEN Committed ELSE Drained
  BY DEF Sending
<1>2. IF socket'.has_unreaped_send THEN Committed' ELSE Drained'
  BY <1>1 DEF Committed, Drained, WholeFrom
<1>3. \/ pc' = "reap"
      \/ pc' \notin SendPoints
  BY DEF RecvPoints, SendPoints
<1> QED
  BY <1>2, <1>3 DEF Sending, SendPoints

\* Outside w5500_socket_recv nothing of a reception changes.
LEMMA ReceivingKept ==
  ASSUME sync, Receiving, pc \notin RecvPoints \/ pc = "rsr", pc' \notin RecvPoints \/ pc' = "rsr",
         UNCHANGED <<chip.rx, chip.rx_base, chip.rx_rd, delivered>>
  PROVE  Receiving'
  BY DEF Receiving, RecvPoints

\* The frames of w5500_socket_recv, while no frame is lost and no command
\* given up.
LEMMA RecvInSync ==
  ASSUME Typed, Within, Chained, Agreed, Receiving, Sending, sync,
         spi' = "READY", pc' \notin Restores,
         delivered' = IF Delivers /\ sync THEN loc.rp + 1 + loc.hlen ELSE delivered,
         \/ ReadSize \/ ReadDatagram \/ Retire \/ RecvCommand \/ AwaitRecv
         \/ RestoreRxRd \/ ConfirmRetired
  PROVE  Agreed' /\ Receiving' /\ Sending'
<1>1. /\ socket.status = "OPEN" /\ spi = "READY" /\ pc \notin Restores /\ chip.sr = "UDP"
      /\ pc # "recving" /\ pc # "sending" => chip.cr = "none"
      /\ pc = "recving" => chip.cr \in {"none", "RECV"}
  BY DEF Agreed
<1>2. chip \in Registers /\ loc \in Locals
  BY DEF Typed, Within, Fits
<1>3. /\ Len(chip.rx) \in Nat /\ chip.rx_base \in Nat /\ chip.rx_rd \in Nat
      /\ chip.rx_base <= Len(chip.rx) /\ loc.rp \in Nat /\ loc.hlen \in Nat /\ delivered \in Nat
  BY <1>2 DEF Registers, Locals, Within, Fits, Typed
<1>4. ASSUME NEW after, NEW st \in Results, Frame(after, st) PROVE st = "OK" /\ chip' = after
  BY <1>1, <1>4, Transferred
<1>5. /\ Boundary(chip.rx, chip.rx_rd) /\ delivered <= chip.rx_rd
      /\ pc \notin {"recvcmd", "recving"} \/ (pc = "recving" /\ chip.cr = "none") =>
           chip.rx_rd = chip.rx_base
      /\ pc = "rxrd" => chip.rx_rd < Len(chip.rx)
      /\ pc \in {"header", "payload", "retire"} => loc.rp = chip.rx_rd
      /\ pc \in {"header", "payload", "retire", "recvcmd", "recving", "rsr2"} =>
           loc.rp < Len(chip.rx)
      /\ pc \in {"payload", "retire", "recvcmd", "recving", "rsr2"} =>
           chip.rx[loc.rp + 1] = loc.hlen /\ loc.hlen \in Nat
      /\ pc \in {"recvcmd", "recving", "rsr2"} =>
           chip.rx_rd = loc.rp + 1 + loc.hlen /\ delivered <= loc.rp
  BY DEF Receiving
<1>6. ASSUME chip' = chip, pc' \in {"done"} \cup RecvPoints, socket' = socket,
             pc \in RecvPoints, pc' = "recving" => pc = "recving", pc \notin {"recving"} \/ pc' = pc \/ chip.cr = "none"
      PROVE  Agreed' /\ Sending'
  BY <1>1, <1>6, SendingKept DEF Agreed, Restores, RecvPoints
<1>7. CASE ReadSize
  <2>1. pc = "rsr" /\ chip' = chip /\ socket' = socket
        /\ (pc' = "done" \/ (pc' = "rxrd" /\ Rsr # 0))
    BY <1>4, <1>7 DEF ReadSize, UnstableRead, Continue, Goto, Return, ReturnFrom
  <2>2. delivered' = delivered
    BY <2>1 DEF Delivers
  <2>3. pc' = "rxrd" => chip.rx_rd < Len(chip.rx)
    BY <1>3, <1>5, <2>1 DEF Rsr
  <2>4. Receiving'
    BY <1>5, <2>1, <2>2, <2>3 DEF Receiving
  <2> QED
    BY <1>6, <2>1, <2>4 DEF RecvPoints
<1>8. CASE ReadDatagram
  <2>1. delivered' = delivered
    BY <1>8 DEF ReadDatagram, Delivers
  <2>2. CASE pc = "rxrd"
    <3>1. pc' = "header" /\ chip' = chip /\ socket' = socket
          /\ loc' = [loc EXCEPT !.rp = chip.rx_rd]
      BY <1>4, <1>8, <2>2 DEF ReadDatagram, Continue, Goto
    <3>2. loc'.rp = chip.rx_rd
      BY <1>2, <3>1 DEF Locals
    <3>3. Receiving'
      BY <1>5, <2>1, <2>2, <3>1, <3>2 DEF Receiving
    <3> QED
      BY <1>6, <2>2, <3>1, <3>3 DEF RecvPoints
  <2>3. CASE pc = "header"
    <3>1. PICK n \in HeaderAt(loc.rp) :
            /\ pc' = "payload" /\ chip' = chip /\ socket' = socket
            /\ loc' = [loc EXCEPT !.hlen = n]
      BY <1>4, <1>8, <2>3 DEF ReadDatagram, Continue, Goto
    <3>2. loc'.rp = loc.rp /\ loc'.hlen = n
      BY <1>2, <3>1 DEF Locals
    <3>3. chip.rx[loc.rp + 1] # NoHeader
      BY <1>3, <1>5, <2>3 DEF Boundary
    <3>4. n = chip.rx[loc.rp + 1] /\ n \in Nat
      BY <1>2, <1>3, <1>5, <2>3, <3>3, HeaderType DEF HeaderAt
    <3>5. Receiving'
      BY <1>5, <2>1, <2>3, <3>1, <3>2, <3>4 DEF Receiving
    <3> QED
      BY <1>6, <2>3, <3>1, <3>5 DEF RecvPoints
  <2>4. CASE pc = "payload"
    <3>1. pc' = "retire" /\ chip' = chip /\ socket' = socket /\ loc' = loc
      BY <1>4, <1>8, <2>4 DEF ReadDatagram, Continue, Goto
    <3>2. Receiving'
      BY <1>5, <2>1, <2>4, <3>1 DEF Receiving
    <3> QED
      BY <1>6, <2>4, <3>1, <3>2 DEF RecvPoints
  <2> QED
    BY <1>8, <2>2, <2>3, <2>4 DEF ReadDatagram
<1>9. CASE Retire
  <2>1. /\ pc = "retire" /\ pc' = "recvcmd" /\ socket' = socket /\ loc' = loc
        /\ chip' = [chip EXCEPT !.rx_rd = loc.rp + 1 + loc.hlen]
    BY <1>4, <1>9 DEF Retire, Continue, Goto
  <2>2. /\ chip'.rx_rd = loc.rp + 1 + loc.hlen
        /\ UNCHANGED <<chip.rx, chip.rx_base, chip.ir, chip.sending, chip.tx, chip.tx_rd,
                       chip.tx_wr, chip.cr, chip.sr>>
    BY <1>2, <2>1 DEF Registers
  <2>3. delivered' = delivered
    BY <2>1 DEF Delivers
  <2>4. Boundary(chip.rx, loc.rp + 1 + loc.hlen)
    <3>1. chip.rx[loc.rp + 1] # NoHeader /\ loc.rp \in 0..Len(chip.rx) - 1
      BY <1>3, <1>5, <2>1 DEF Boundary
    <3> QED
      BY <1>5, <2>1, <3>1 DEF Chained
  <2>5. Receiving'
    BY <1>3, <1>5, <2>1, <2>2, <2>3, <2>4 DEF Receiving
  <2>6. Sending'
    BY <2>1, <2>2, SendingKept DEF RecvPoints
  <2>7. Agreed'
    BY <1>1, <2>1, <2>2 DEF Agreed, Restores
  <2> QED
    BY <2>5, <2>6, <2>7
<1>10. CASE RecvCommand
  <2>1. /\ pc = "recvcmd" /\ pc' = "recving" /\ socket' = socket /\ loc' = loc
        /\ chip' = [chip EXCEPT !.cr = "RECV"]
    BY <1>4, <1>10 DEF RecvCommand, Goto
  <2>2. /\ chip'.cr = "RECV"
        /\ UNCHANGED <<chip.rx, chip.rx_base, chip.rx_rd, chip.ir, chip.sending, chip.tx,
                       chip.tx_rd, chip.tx_wr, chip.sr>>
    BY <1>2, <2>1 DEF Registers
  <2>3. delivered' = delivered
    BY <2>1 DEF Delivers
  <2>4. Receiving'
    BY <1>5, <2>1, <2>2, <2>3 DEF Receiving
  <2>5. Sending'
    BY <2>1, <2>2, SendingKept DEF RecvPoints
  <2>6. Agreed'
    BY <1>1, <2>1, <2>2 DEF Agreed, Restores
  <2> QED
    BY <2>4, <2>5, <2>6
<1>11. CASE AwaitRecv
  <2>1. /\ pc = "recving" /\ chip' = chip /\ socket' = socket
        /\ loc'.rp = loc.rp /\ loc'.hlen = loc.hlen
        /\ (pc' = "recving" \/ (pc' = "rsr2" /\ chip.cr = "none"))
    BY <1>2, <1>4, <1>11 DEF AwaitRecv, Polled, Restore, Goto, Restores, Locals
  <2>2. delivered' = delivered
    BY <2>1 DEF Delivers
  <2>3. Receiving'
    BY <1>5, <2>1, <2>2 DEF Receiving
  <2> QED
    BY <1>6, <2>1, <2>3 DEF RecvPoints
<1>12. CASE RestoreRxRd
  BY <1>1, <1>12 DEF RestoreRxRd, Restores
<1>13. CASE ConfirmRetired
  <2>1. pc = "rsr2" /\ pc' = "done" /\ chip' = chip /\ socket' = socket
    BY <1>4, <1>13 DEF ConfirmRetired, UnstableRead, Return, ReturnFrom
  <2>2. delivered' <= chip.rx_rd
    BY <1>3, <1>5, <2>1
  <2>3. Receiving'
    BY <1>5, <2>1, <2>2 DEF Receiving
  <2> QED
    BY <1>6, <2>1, <2>3 DEF RecvPoints
<1> QED
  BY <1>7, <1>8, <1>9, <1>10, <1>11, <1>12, <1>13

\* The frames of w5500_socket_send up to the one that finds room: what became
\* of the send before is settled, and nothing is left in the buffer.
LEMMA ReapInSync ==
  ASSUME Typed, Within, Agreed, Receiving, Sending, sync,
         spi' = "READY", pc' \notin Restores, sends' = sends,
         delivered' = IF Delivers /\ sync THEN loc.rp + 1 + loc.hlen ELSE delivered,
         Reap \/ ClearReaped \/ AwaitSpace
  PROVE  Agreed' /\ Receiving' /\ Sending'
<1>1. /\ socket.status = "OPEN" /\ spi = "READY" /\ pc \notin Restores /\ chip.sr = "UDP"
      /\ pc # "recving" /\ pc # "sending" => chip.cr = "none"
  BY DEF Agreed
<1>2. chip \in Registers /\ loc \in Locals /\ socket \in Sockets
  BY DEF Typed, Within, Fits
<1>3. ASSUME NEW after, NEW st \in Results, Frame(after, st) PROVE st = "OK" /\ chip' = after
  BY <1>1, <1>3, Transferred
<1>4. pc \in {"reap", "clearok", "cleartimeout", "txreset", "fsr"}
  BY DEF Reap, ClearReaped, AwaitSpace
<1>5. delivered' = delivered
  BY <1>4 DEF Delivers
<1>6. \A flag \in BOOLEAN : Unreaped(flag).has_unreaped_send = flag /\ Unreaped(flag).status = "OPEN"
  BY <1>1, <1>2 DEF Unreaped, Sockets
<1>7. ASSUME UNCHANGED <<chip.rx, chip.rx_base, chip.rx_rd, chip.cr, chip.sr>>,
             socket'.status = "OPEN",
             pc' \in {"done", "clearok", "cleartimeout", "txreset", "fsr", "txwr"}
      PROVE  Agreed' /\ Receiving'
  <2>1. Receiving'
    BY <1>4, <1>5, <1>7, ReceivingKept DEF RecvPoints
  <2>2. Agreed'
    BY <1>1, <1>4, <1>7 DEF Agreed, Restores
  <2> QED
    BY <2>1, <2>2
<1>8. /\ pc = "reap" => IF socket.has_unreaped_send THEN Committed ELSE Drained
      /\ pc \in {"clearok", "fsr"} => ~socket.has_unreaped_send
      /\ pc = "clearok" => Drained /\ chip.ir = {"SENDOK"}
      /\ pc = "cleartimeout" => chip.sending = NoSend /\ chip.ir = {"TIMEOUT"}
      /\ pc = "txreset" => chip.sending = NoSend /\ chip.ir = {}
      /\ pc = "fsr" => Drained /\ chip.ir = {}
  BY DEF Sending, SendPoints
<1>9. ASSUME pc' \in {"fsr", "txwr"}, ~socket'.has_unreaped_send, Drained', chip'.ir = {}
      PROVE  Sending'
  BY <1>9 DEF Sending, SendPoints, RecvPoints
<1>10. ASSUME pc' = "done", IF socket'.has_unreaped_send THEN Committed' ELSE Drained'
       PROVE  Sending'
  BY <1>10 DEF Sending, SendPoints, RecvPoints
<1>11. CASE Reap
  <2>1. pc = "reap" /\ (IF socket.has_unreaped_send THEN Committed ELSE Drained)
    BY <1>8, <1>11 DEF Reap
  <2>2. /\ chip' = ReapFrame
        /\ IF ~socket.has_unreaped_send THEN Goto("fsr", loc)
           ELSE IF "SENDOK" \in chip.ir
           THEN pc' = "clearok" /\ socket' = Unreaped(FALSE) /\ UNCHANGED <<ret, loc>>
           ELSE IF "TIMEOUT" \in chip.ir THEN Goto("cleartimeout", loc)
           ELSE Return("TRANSIENT")
    BY <1>3, <1>11 DEF Reap, Continue
  <2>3. CASE ~socket.has_unreaped_send
    <3>1. pc' = "fsr" /\ socket' = socket
      BY <2>2, <2>3 DEF Goto
    <3>2. chip' = [chip EXCEPT !.ir = {}]
      BY <2>2, <2>3 DEF ReapFrame
    <3>3. /\ chip'.ir = {}
          /\ UNCHANGED <<chip.rx, chip.rx_base, chip.rx_rd, chip.cr, chip.sr, chip.sending,
                         chip.tx_wr, chip.tx_rd>>
      BY <1>2, <3>2 DEF Registers
    <3>4. Drained'
      BY <2>1, <2>3, <3>3 DEF Drained
    <3>5. Sending'
      BY <1>9, <2>3, <3>1, <3>3, <3>4
    <3> QED
      BY <1>1, <1>7, <3>1, <3>3, <3>5
  <2>4. CASE socket.has_unreaped_send
    <3>1. chip' = chip /\ Committed
      BY <2>1, <2>2, <2>4 DEF ReapFrame
    <3>2. CASE "SENDOK" \in chip.ir
      <4>1. pc' = "clearok" /\ socket' = Unreaped(FALSE)
        BY <2>2, <2>4, <3>2
      <4>2. Drained /\ chip.ir = {"SENDOK"}
        BY <3>1, <3>2 DEF Committed
      <4>3. Sending'
        BY <1>6, <3>1, <4>1, <4>2 DEF Sending, SendPoints, RecvPoints, Drained
      <4> QED
        BY <1>6, <1>7, <3>1, <4>1, <4>3
    <3>3. CASE "SENDOK" \notin chip.ir /\ "TIMEOUT" \in chip.ir
      <4>1. pc' = "cleartimeout" /\ socket' = socket
        BY <2>2, <2>4, <3>3 DEF Goto
      <4>2. chip.sending = NoSend /\ chip.ir = {"TIMEOUT"}
        BY <3>1, <3>3 DEF Committed
      <4>3. Sending'
        BY <3>1, <4>1, <4>2 DEF Sending, SendPoints, RecvPoints
      <4> QED
        BY <1>1, <1>7, <3>1, <4>1, <4>3
    <3>4. CASE "SENDOK" \notin chip.ir /\ "TIMEOUT" \notin chip.ir
      <4>1. pc' = "done" /\ socket' = socket
        BY <2>1, <2>2, <2>4, <3>4 DEF Return, ReturnFrom
      <4>2. Committed'
        BY <3>1 DEF Committed, Drained, WholeFrom
      <4>3. Sending'
        BY <1>10, <2>4, <4>1, <4>2
      <4> QED
        BY <1>1, <1>7, <3>1, <4>1, <4>3
    <3> QED
      BY <3>2, <3>3, <3>4
  <2> QED
    BY <2>3, <2>4
<1>12. CASE ClearReaped
  <2>1. CASE pc = "clearok"
    <3>1. pc' = "fsr" /\ socket' = socket /\ chip' = [chip EXCEPT !.ir = @ \ {"SENDOK"}]
      BY <1>3, <1>12, <2>1 DEF ClearReaped, Continue, Goto
    <3>2. /\ chip'.ir = chip.ir \ {"SENDOK"}
          /\ UNCHANGED <<chip.rx, chip.rx_base, chip.rx_rd, chip.cr, chip.sr, chip.sending,
                         chip.tx_wr, chip.tx_rd>>
      BY <1>2, <3>1 DEF Registers
    <3>3. Drained' /\ chip'.ir = {}
      BY <1>8, <2>1, <3>2 DEF Drained
    <3>4. Sending'
      BY <1>8, <1>9, <2>1, <3>1, <3>3
    <3> QED
      BY <1>1, <1>7, <3>1, <3>2, <3>4
  <2>2. CASE pc = "cleartimeout"
    <3>1. pc' = "txreset" /\ socket' = socket /\ chip' = [chip EXCEPT !.ir = @ \ {"TIMEOUT"}]
      BY <1>3, <1>12, <2>2 DEF ClearReaped, Continue, Goto
    <3>2. /\ chip'.ir = chip.ir \ {"TIMEOUT"}
          /\ UNCHANGED <<chip.rx, chip.rx_base, chip.rx_rd, chip.cr, chip.sr, chip.sending>>
      BY <1>2, <3>1 DEF Registers
    <3>3. chip'.sending = NoSend /\ chip'.ir = {}
      BY <1>8, <2>2, <3>2
    <3>4. Sending'
      BY <3>1, <3>3 DEF Sending, SendPoints, RecvPoints
    <3> QED
      BY <1>1, <1>7, <3>1, <3>2, <3>4
  <2>3. CASE pc = "txreset"
    <3>1. pc' = "fsr" /\ socket' = Unreaped(FALSE) /\ chip' = [chip EXCEPT !.tx_wr = chip.tx_rd]
      BY <1>3, <1>12, <2>3 DEF ClearReaped, ResetTxWr
    <3>2. /\ chip'.tx_wr = chip.tx_rd
          /\ UNCHANGED <<chip.rx, chip.rx_base, chip.rx_rd, chip.cr, chip.sr, chip.sending,
                         chip.ir, chip.tx_rd>>
      BY <1>2, <3>1 DEF Registers
    <3>3. Drained' /\ chip'.ir = {}
      BY <1>8, <2>3, <3>2 DEF Drained
    <3>4. Sending'
      BY <1>6, <1>9, <3>1, <3>3
    <3> QED
      BY <1>6, <1>7, <3>1, <3>2, <3>4
  <2> QED
    BY <1>12, <2>1, <2>2, <2>3 DEF ClearReaped
<1>13. CASE AwaitSpace
  <2>1. /\ pc = "fsr" /\ chip' = chip /\ socket' = socket /\ pc' \in {"txwr", "fsr", "done"}
    BY <1>3, <1>13 DEF AwaitSpace, UnstableRead, Polled, Goto, Return, ReturnFrom
  <2>2. Drained' /\ chip'.ir = {} /\ ~socket'.has_unreaped_send
    BY <1>8, <2>1 DEF Drained
  <2>3. Sending'
    BY <1>9, <1>10, <2>1, <2>2
  <2> QED
    BY <1>1, <1>7, <2>1, <2>3
<1> QED
  BY <1>11, <1>12, <1>13

\* The frames that put a payload into the buffer and command the chip to send
\* it: the buffer holds that payload, and nothing else.
LEMMA FillInSync ==
  ASSUME Typed, Within, Agreed, Receiving, Sending, sync,
         spi' = "READY", pc' \notin Restores, sends' = sends,
         delivered' = IF Delivers /\ sync THEN loc.rp + 1 + loc.hlen ELSE delivered,
         FillBuffer \/ SendCommand
  PROVE  Agreed' /\ Receiving' /\ Sending'
<1>1. /\ socket.status = "OPEN" /\ spi = "READY" /\ pc \notin Restores /\ chip.sr = "UDP"
      /\ pc # "recving" /\ pc # "sending" => chip.cr = "none"
  BY DEF Agreed
<1>2. chip \in Registers /\ loc \in Locals /\ socket \in Sockets
  BY DEF Typed, Within, Fits
<1>3. ASSUME NEW after, NEW st \in Results, Frame(after, st) PROVE st = "OK" /\ chip' = after
  BY <1>1, <1>3, Transferred
<1>4. pc \in {"txwr", "fill", "dst", "advance", "clearold", "sendcmd"}
  BY DEF FillBuffer, SendCommand
<1>5. delivered' = delivered
  BY <1>4 DEF Delivers
<1>6. ASSUME UNCHANGED <<chip.rx, chip.rx_base, chip.rx_rd, chip.sr, socket>>,
             \/ chip'.cr = "none"
             \/ pc' = "sending" /\ chip'.cr \in SendCommands,
             pc' \in {"fill", "dst", "advance", "clearold", "sendcmd", "sending"}
      PROVE  Agreed' /\ Receiving'
  <2>1. Receiving'
    BY <1>4, <1>5, <1>6, ReceivingKept DEF RecvPoints
  <2>2. Agreed'
    BY <1>1, <1>6 DEF Agreed, Restores
  <2> QED
    BY <2>1, <2>2
<1>7. /\ ~socket.has_unreaped_send
      /\ pc \in {"txwr", "fill", "dst", "advance"} => Drained /\ chip.ir = {}
      /\ pc \in {"fill", "dst", "advance", "clearold", "sendcmd"} => loc.wp = chip.tx_rd
      /\ pc \in {"dst", "advance", "clearold", "sendcmd"} =>
           WholeFrom(loc.wp, loc.wp + loc.len, sends)
      /\ pc \in {"advance", "clearold", "sendcmd"} => chip.dst = sends
      /\ pc \in {"clearold", "sendcmd"} =>
           chip.sending = NoSend /\ chip.ir = {} /\ chip.tx_wr = loc.wp + loc.len
  BY <1>4 DEF Sending, SendPoints
<1>8. /\ chip.tx_rd \in Nat /\ chip.tx_wr \in Nat /\ loc.wp \in Nat /\ chip.tx \in Buffers
      /\ loc.len \in Nat /\ 0 < loc.len
  <2>1. loc.len \in Lengths
    BY <1>4 DEF Typed, SendPoints
  <2> QED
    BY <1>2, <2>1, LengthsFit DEF Registers, Locals
<1>9. CASE FillBuffer
  <2>1. CASE pc = "txwr"
    <3>1. pc' = "fill" /\ socket' = socket /\ chip' = chip /\ loc' = [loc EXCEPT !.wp = chip.tx_wr]
      BY <1>3, <1>9, <2>1 DEF FillBuffer, Continue, Goto
    <3>2. loc'.wp = chip.tx_wr
      BY <1>2, <3>1 DEF Locals
    <3>3. Drained' /\ chip'.ir = {} /\ loc'.wp = chip'.tx_rd /\ ~socket'.has_unreaped_send
      BY <1>7, <2>1, <3>1, <3>2 DEF Drained
    <3>4. Sending'
      BY <3>1, <3>3 DEF Sending, SendPoints, RecvPoints
    <3> QED
      BY <1>1, <1>6, <2>1, <3>1, <3>4
  <2>2. CASE pc = "fill"
    <3>1. pc' = "dst" /\ socket' = socket /\ loc' = loc /\ chip' = [chip EXCEPT !.tx = Filled]
      BY <1>3, <1>9, <2>2 DEF FillBuffer, Continue, Goto
    <3>2. /\ chip'.tx = Filled
          /\ UNCHANGED <<chip.rx, chip.rx_base, chip.rx_rd, chip.cr, chip.sr, chip.sending,
                         chip.ir, chip.tx_rd, chip.tx_wr>>
      BY <1>2, <3>1 DEF Registers
    <3>3. loc.wp + loc.len <= MaxTx /\ MaxTx \in Nat
      <4>1. /\ sends \in Nat /\ sends > 0 /\ sends \in 0..MaxSends /\ MaxSends \in Nat
            /\ loc.len \in Lengths
        BY <2>2, DriverAssumption DEF Typed, SendPoints
      <4>2. /\ Taken \in Nat /\ Taken + TxSize = Room(sends) /\ Room(sends) \in Nat
            /\ Room(sends) <= Room(MaxSends) /\ Room(MaxSends) \in Nat
        BY <2>2, <4>1, TakenFacts, RoomFacts DEF EarlySends
      <4>3. loc.wp <= Taken /\ loc.len <= TxSize /\ TxSize \in Nat
        BY <4>1, LengthsFit DEF Within
      <4>4. Room(MaxSends) = MaxTx
        BY DEF Room, MaxTx
      <4> QED
        BY <1>8, <4>2, <4>3, <4>4
    <3>4. ASSUME NEW i \in loc.wp..loc.wp + loc.len - 1
          PROVE  Filled[i] = [send |-> sends, index |-> i - loc.wp + 1,
                              of |-> loc.wp + loc.len - loc.wp]
      <4>1. i \in 0..MaxTx - 1 /\ loc.wp + loc.len - loc.wp = loc.len
        BY <1>8, <3>3
      <4> QED
        BY <4>1 DEF Filled
    <3>5. WholeFrom(loc.wp, loc.wp + loc.len, sends)'
      <4>1. \A i \in loc.wp..loc.wp + loc.len - 1 :
              chip'.tx[i] = [send |-> sends, index |-> i - loc.wp + 1,
                             of |-> loc.wp + loc.len - loc.wp]
        BY <3>2, <3>4
      <4>2. loc' = loc /\ sends' = sends
        BY <3>1
      <4> QED
        BY <1>8, <4>1, <4>2 DEF WholeFrom
    <3>6. Drained' /\ chip'.ir = {} /\ loc'.wp = chip'.tx_rd
      BY <1>7, <2>2, <3>1, <3>2 DEF Drained
    <3>7. Sending'
      BY <1>7, <3>1, <3>5, <3>6 DEF Sending, SendPoints, RecvPoints
    <3> QED
      BY <1>1, <1>6, <2>2, <3>1, <3>2, <3>7
  <2>3. CASE pc = "dst"
    <3>1. pc' = "advance" /\ socket' = socket /\ loc' = loc /\ chip' = [chip EXCEPT !.dst = sends]
      BY <1>3, <1>9, <2>3 DEF FillBuffer, Continue, Goto
    <3>2. /\ chip'.dst = sends
          /\ UNCHANGED <<chip.rx, chip.rx_base, chip.rx_rd, chip.cr, chip.sr, chip.sending,
                         chip.ir, chip.tx, chip.tx_rd, chip.tx_wr>>
      BY <1>2, <3>1 DEF Registers
    <3>3. WholeFrom(loc.wp, loc.wp + loc.len, sends)'
      BY <1>7, <2>3, <3>1, <3>2 DEF WholeFrom
    <3>4. Drained' /\ chip'.ir = {} /\ loc'.wp = chip'.tx_rd
      BY <1>7, <2>3, <3>1, <3>2 DEF Drained
    <3>5. Sending'
      BY <1>7, <3>1, <3>2, <3>3, <3>4 DEF Sending, SendPoints, RecvPoints
    <3> QED
      BY <1>1, <1>6, <2>3, <3>1, <3>2, <3>5
  <2>4. CASE pc = "advance"
    <3>1. /\ pc' = "clearold" /\ socket' = socket /\ loc' = loc
          /\ chip' = [chip EXCEPT !.tx_wr = loc.wp + loc.len]
      BY <1>3, <1>9, <2>4 DEF FillBuffer, Continue, Goto
    <3>2. /\ chip'.tx_wr = loc.wp + loc.len
          /\ UNCHANGED <<chip.rx, chip.rx_base, chip.rx_rd, chip.cr, chip.sr, chip.sending,
                         chip.ir, chip.dst, chip.tx, chip.tx_rd>>
      BY <1>2, <3>1 DEF Registers
    <3>3. WholeFrom(loc.wp, loc.wp + loc.len, sends)'
      BY <1>7, <2>4, <3>1, <3>2 DEF WholeFrom
    <3>4. chip'.sending = NoSend /\ chip'.ir = {} /\ chip'.tx_wr = loc'.wp + loc'.len
          /\ loc'.wp = chip'.tx_rd /\ chip'.dst = sends'
      BY <1>7, <2>4, <3>1, <3>2 DEF Drained
    <3>5. Sending'
      BY <1>7, <3>1, <3>3, <3>4 DEF Sending, SendPoints, RecvPoints
    <3> QED
      BY <1>1, <1>6, <2>4, <3>1, <3>2, <3>5
  <2> QED
    BY <1>9, <2>1, <2>2, <2>3, <2>4 DEF FillBuffer
<1>10. CASE SendCommand
  <2>1. CASE pc = "clearold"
    <3>1. /\ pc' = "sendcmd" /\ socket' = socket /\ loc' = loc
          /\ chip' = [chip EXCEPT !.ir = @ \ {"SENDOK"}]
      BY <1>3, <1>10, <2>1 DEF SendCommand, Goto
    <3>2. /\ chip'.ir = chip.ir \ {"SENDOK"}
          /\ UNCHANGED <<chip.rx, chip.rx_base, chip.rx_rd, chip.cr, chip.sr, chip.sending,
                         chip.dst, chip.tx, chip.tx_rd, chip.tx_wr>>
      BY <1>2, <3>1 DEF Registers
    <3>3. WholeFrom(loc.wp, loc.wp + loc.len, sends)'
      BY <1>7, <2>1, <3>1, <3>2 DEF WholeFrom
    <3>4. chip'.sending = NoSend /\ chip'.ir = {} /\ chip'.tx_wr = loc'.wp + loc'.len
          /\ loc'.wp = chip'.tx_rd /\ chip'.dst = sends'
      BY <1>7, <2>1, <3>1, <3>2
    <3>5. Sending'
      BY <1>7, <3>1, <3>3, <3>4 DEF Sending, SendPoints, RecvPoints
    <3> QED
      BY <1>1, <1>6, <2>1, <3>1, <3>2, <3>5
  <2>2. CASE pc = "sendcmd"
    <3>1. PICK command \in SendCommands :
            /\ pc' = "sending" /\ socket' = socket /\ loc' = loc
            /\ chip' = [chip EXCEPT !.cr = command]
      BY <1>3, <1>10, <2>2 DEF SendCommand, Goto, SendCommands
    <3>2. /\ chip'.cr = command
          /\ UNCHANGED <<chip.rx, chip.rx_base, chip.rx_rd, chip.ir, chip.sr, chip.sending,
                         chip.dst, chip.tx, chip.tx_rd, chip.tx_wr>>
      BY <1>2, <3>1 DEF Registers
    <3>3. chip.tx_rd = loc.wp /\ chip.tx_wr = loc.wp + loc.len /\ chip.tx_rd < chip.tx_wr
      BY <1>7, <1>8, <2>2
    <3>4. WholeFrom(chip.tx_rd, chip.tx_wr, sends)'
      BY <1>7, <2>2, <3>1, <3>2, <3>3 DEF WholeFrom
    <3>5. chip'.sending = NoSend /\ chip'.ir = {} /\ chip'.dst = sends'
          /\ chip'.tx_rd < chip'.tx_wr /\ chip'.cr # "none"
      BY <1>7, <2>2, <3>2, <3>3 DEF SendCommands
    <3>6. Sending'
      BY <1>7, <3>1, <3>4, <3>5 DEF Sending, SendPoints, RecvPoints
    <3> QED
      BY <1>6, <2>2, <3>1, <3>2, <3>6
  <2> QED
    BY <1>10, <2>1, <2>2 DEF SendCommand
<1> QED
  BY <1>9, <1>10

\* The frames that wait for the chip to take the command, and for what becomes
\* of it.
LEMMA OutcomeInSync ==
  ASSUME Typed, Within, Agreed, Receiving, Sending, sync,
         spi' = "READY", pc' \notin Restores, sends' = sends,
         delivered' = IF Delivers /\ sync THEN loc.rp + 1 + loc.hlen ELSE delivered,
         AwaitCommit \/ AwaitOutcome \/ RestoreTxWr \/ Unsent
  PROVE  Agreed' /\ Receiving' /\ Sending'
<1>1. /\ socket.status = "OPEN" /\ spi = "READY" /\ pc \notin Restores /\ chip.sr = "UDP"
      /\ pc # "recving" /\ pc # "sending" => chip.cr = "none"
      /\ pc = "sending" => chip.cr = "none" \/ chip.cr \in SendCommands
  BY DEF Agreed
<1>2. chip \in Registers /\ loc \in Locals /\ socket \in Sockets
  BY DEF Typed, Within, Fits
<1>3. ASSUME NEW after, NEW st \in Results, Frame(after, st) PROVE st = "OK" /\ chip' = after
  BY <1>1, <1>3, Transferred
<1>4. pc \in {"sending", "outcome", "unsent", "cleararp"}
  BY <1>1 DEF AwaitCommit, AwaitOutcome, RestoreTxWr, Unsent, Restores
<1>5. delivered' = delivered
  BY <1>4 DEF Delivers
<1>6. Unreaped(TRUE).has_unreaped_send /\ Unreaped(TRUE).status = "OPEN"
  BY <1>1, <1>2 DEF Unreaped, Sockets
<1>7. ASSUME UNCHANGED <<chip.rx, chip.rx_base, chip.rx_rd, chip.cr, chip.sr>>,
             socket'.status = "OPEN",
             \/ pc' = "sending" /\ pc = "sending"
             \/ pc' \in {"outcome", "unsent", "cleararp", "done"} /\ chip.cr = "none"
      PROVE  Agreed' /\ Receiving'
  <2>1. Receiving'
    BY <1>4, <1>5, <1>7, ReceivingKept DEF RecvPoints
  <2>2. Agreed'
    BY <1>1, <1>7 DEF Agreed, Restores
  <2> QED
    BY <2>1, <2>2
<1>8. /\ ~socket.has_unreaped_send
      /\ pc = "sending" /\ chip.cr # "none" =>
           /\ chip.sending = NoSend /\ chip.ir = {} /\ chip.dst = sends
           /\ chip.tx_rd < chip.tx_wr
           /\ WholeFrom(chip.tx_rd, chip.tx_wr, sends)
      /\ (pc = "sending" /\ chip.cr = "none") \/ pc = "outcome" => Committed
      /\ pc = "unsent" => chip.sending = NoSend /\ chip.ir = {"TIMEOUT"}
      /\ pc = "cleararp" => Drained /\ chip.ir = {"TIMEOUT"}
  BY <1>4 DEF Sending, SendPoints
<1>9. CASE AwaitCommit
  <2>1. /\ pc = "sending" /\ socket' = socket /\ chip' = chip
        /\ (pc' = "sending" \/ (pc' = "outcome" /\ chip.cr = "none"))
    BY <1>3, <1>9 DEF AwaitCommit, Polled, Restore, Goto, Restores
  <2>2. CASE chip.cr = "none"
    <3>1. Committed'
      BY <1>8, <2>1, <2>2 DEF Committed, Drained, WholeFrom
    <3>2. Sending'
      BY <1>8, <2>1, <2>2, <3>1 DEF Sending, SendPoints, RecvPoints
    <3> QED
      BY <1>1, <1>7, <2>1, <2>2, <3>2
  <2>3. CASE chip.cr # "none"
    <3>1. WholeFrom(chip.tx_rd, chip.tx_wr, sends)'
      BY <1>8, <2>1, <2>3 DEF WholeFrom
    <3>2. Sending'
      BY <1>8, <2>1, <2>3, <3>1 DEF Sending, SendPoints, RecvPoints
    <3> QED
      BY <1>1, <1>7, <2>1, <2>3, <3>2
  <2> QED
    BY <2>2, <2>3
<1>10. CASE AwaitOutcome
  <2>1. /\ pc = "outcome" /\ chip' = chip
        /\ \/ pc' = "outcome" /\ socket' = socket
           \/ pc' = "unsent" /\ socket' = socket /\ "TIMEOUT" \in chip.ir
           \/ pc' = "done" /\ socket' = socket /\ "TIMEOUT" \notin chip.ir /\ chip.ir # {}
           \/ pc' = "done" /\ socket' = Unreaped(TRUE)
    BY <1>3, <1>10 DEF AwaitOutcome, Polled, Restore, Goto, Return, ReturnFrom, Restores
  <2>2. Committed
    BY <1>8, <2>1
  <2>3. Committed'
    BY <2>1, <2>2 DEF Committed, Drained, WholeFrom
  <2>4. CASE pc' = "outcome" /\ socket' = socket
    BY <1>1, <1>7, <1>8, <2>1, <2>3, <2>4 DEF Sending, SendPoints, RecvPoints
  <2>5. CASE pc' = "unsent" /\ socket' = socket /\ "TIMEOUT" \in chip.ir
    <3>1. chip.sending = NoSend /\ chip.ir = {"TIMEOUT"}
      BY <2>2, <2>5 DEF Committed
    <3>2. Sending'
      BY <1>8, <2>1, <2>5, <3>1 DEF Sending, SendPoints, RecvPoints
    <3> QED
      BY <1>1, <1>7, <2>1, <2>5, <3>2
  <2>6. CASE pc' = "done" /\ socket' = socket /\ "TIMEOUT" \notin chip.ir /\ chip.ir # {}
    <3>1. Drained
      BY <2>2, <2>6 DEF Committed
    <3>2. Drained'
      BY <2>1, <3>1 DEF Drained
    <3>3. Sending'
      BY <1>8, <2>6, <3>2 DEF Sending, SendPoints, RecvPoints
    <3> QED
      BY <1>1, <1>7, <2>1, <2>6, <3>3
  <2>7. CASE pc' = "done" /\ socket' = Unreaped(TRUE)
    <3>1. Sending'
      BY <1>6, <2>3, <2>7 DEF Sending, SendPoints, RecvPoints
    <3> QED
      BY <1>1, <1>6, <1>7, <2>1, <2>7, <3>1
  <2> QED
    BY <2>1, <2>4, <2>5, <2>6, <2>7
<1>11. CASE RestoreTxWr
  BY <1>4, <1>11 DEF RestoreTxWr
<1>12. CASE Unsent
  <2>1. CASE pc = "unsent"
    <3>1. pc' = "cleararp" /\ socket' = socket /\ chip' = [chip EXCEPT !.tx_wr = chip.tx_rd]
      BY <1>3, <1>12, <2>1 DEF Unsent, ResetTxWr, Goto
    <3>2. /\ chip'.tx_wr = chip.tx_rd
          /\ UNCHANGED <<chip.rx, chip.rx_base, chip.rx_rd, chip.cr, chip.sr, chip.sending,
                         chip.ir, chip.tx_rd>>
      BY <1>2, <3>1 DEF Registers
    <3>3. Drained' /\ chip'.ir = {"TIMEOUT"}
      BY <1>8, <2>1, <3>2 DEF Drained
    <3>4. Sending'
      BY <1>8, <3>1, <3>3 DEF Sending, SendPoints, RecvPoints
    <3> QED
      BY <1>1, <1>7, <2>1, <3>1, <3>2, <3>4
  <2>2. CASE pc = "cleararp"
    <3>1. pc' = "done" /\ socket' = socket /\ chip' = [chip EXCEPT !.ir = @ \ {"TIMEOUT"}]
      BY <1>3, <1>12, <2>2 DEF Unsent, Return, ReturnFrom
    <3>2. UNCHANGED <<chip.rx, chip.rx_base, chip.rx_rd, chip.cr, chip.sr, chip.sending,
                      chip.tx_rd, chip.tx_wr>>
      BY <1>2, <3>1 DEF Registers
    <3>3. Drained'
      BY <1>8, <2>2, <3>2 DEF Drained
    <3>4. Sending'
      BY <1>8, <3>1, <3>3 DEF Sending, SendPoints, RecvPoints
    <3> QED
      BY <1>1, <1>7, <2>2, <3>1, <3>2, <3>4
  <2> QED
    BY <1>12, <2>1, <2>2 DEF Unsent
<1> QED
  BY <1>9, <1>10, <1>11, <1>12

\* A send that is under way is one that the driver has committed: it waits for
\* its outcome, or has stopped waiting.
LEMMA SendingCommitted ==
  ASSUME Typed, Opened, Agreed, Sending, sync, chip.sending # NoSend
  PROVE  /\ Committed /\ chip.ir = {}
         /\ \/ pc = "outcome" \/ (pc = "sending" /\ chip.cr = "none")
            \/ pc \in {"idle", "done", "link", "reap"} \cup RecvPoints /\ socket.has_unreaped_send
<1>1. /\ socket.status = "OPEN" /\ pc \notin Restores
      /\ chip.cr # "none" => \/ pc = "recving" /\ chip.cr = "RECV"
                             \/ pc = "sending" /\ chip.cr \in SendCommands
  BY DEF Agreed
<1>2. pc \in Points \ (Booting \cup OpenPoints \cup Restores)
  BY <1>1 DEF Typed, Opened
<1>3. pc \in {"idle", "done", "link", "reap"} \cup RecvPoints
      \/ pc \in SendPoints \ {"reap", "txrestore"}
  BY <1>2 DEF Points, Booting, OpenPoints, Restores, RecvPoints, SendPoints
<1>4. CASE pc \in {"idle", "done", "link", "reap"} \cup RecvPoints
  BY <1>4 DEF Sending, Committed, Drained
<1>5. CASE pc \in SendPoints \ {"reap", "txrestore"}
  BY <1>1, <1>5 DEF Sending, SendPoints, Committed, Drained
<1> QED
  BY <1>3, <1>4, <1>5

\* What the chip does on its own while they agree: it takes the command that
\* the driver waits for, sends what it was told to or gives up on it, receives.
LEMMA ChipInSync ==
  ASSUME Typed, Within, Chained, Opened, Agreed, Receiving, Sending, sync, sync', Chip
  PROVE  Agreed' /\ Receiving' /\ Sending'
<1>1. /\ socket.status = "OPEN" /\ spi = "READY" /\ pc \notin Restores /\ chip.sr = "UDP"
      /\ chip.cr # "none" => \/ pc = "recving" /\ chip.cr = "RECV"
                             \/ pc = "sending" /\ chip.cr \in SendCommands
  BY DEF Agreed
<1>2. /\ UNCHANGED <<pc, loc, socket, spi, sends>>
      /\ Accept \/ Transmit \/ ArpTimeout \/ (\E n \in Lengths : Arrive(n)) \/ LosePower
  BY DEF Chip, driverVars
<1>3. chip \in Registers /\ loc \in Locals
  BY DEF Typed, Within, Fits
<1>4. /\ Len(chip.rx) \in Nat /\ chip.rx_rd \in Nat /\ loc.rp \in Nat
      /\ chip.tx_rd \in Nat /\ chip.tx_wr \in Nat
  BY <1>3 DEF Registers, Locals
<1>5. ASSUME UNCHANGED <<chip.sr, chip.cr>>
      PROVE  Agreed'
  BY <1>1, <1>2, <1>5 DEF Agreed
<1>6. ASSUME UNCHANGED <<chip.rx, chip.rx_base, chip.rx_rd, chip.cr, delivered>> PROVE Receiving'
  BY <1>2, <1>6 DEF Receiving
<1>7. CASE Accept
  <2>1. chip.cr # "none" /\ chip' = Accepted
    BY <1>7 DEF Accept
  <2>2. CASE pc = "recving" /\ chip.cr = "RECV"
    <3> DEFINE b == IF chip.rx_rd < Len(chip.rx) THEN chip.rx_rd ELSE Len(chip.rx)
    <3>1. chip' = [chip EXCEPT !.cr = "none", !.rx_base = b]
      BY <2>1, <2>2 DEF Accepted
    <3>2. Boundary(chip.rx, chip.rx_rd)
      BY DEF Receiving
    <3>3. b = chip.rx_rd
      BY <1>4, <3>2 DEF Boundary
    <3>4. /\ chip'.cr = "none" /\ chip'.rx_base = chip.rx_rd
          /\ UNCHANGED <<chip.rx, chip.rx_rd, chip.ir, chip.sr, chip.sending, chip.tx,
                         chip.tx_rd, chip.tx_wr>>
      BY <1>3, <3>1, <3>3 DEF Registers
    <3>5. delivered' = delivered
      BY <1>7, <2>2 DEF Accept
    <3>6. Receiving'
      BY <1>2, <2>2, <3>4, <3>5 DEF Receiving
    <3>7. Sending'
      BY <1>2, <2>2, <3>4, SendingKept DEF RecvPoints
    <3>8. Agreed'
      BY <1>1, <1>2, <3>4 DEF Agreed
    <3> QED
      BY <3>6, <3>7, <3>8
  <2>3. CASE pc = "sending" /\ chip.cr \in SendCommands
    <3> DEFINE s == [end |-> chip.tx_wr, dst |-> chip.dst, arp |-> chip.cr = "SEND"]
    <3>1. chip' = [chip EXCEPT !.cr = "none", !.sending = s]
      BY <1>1, <2>1, <2>3 DEF Accepted, SendCommands
    <3>2. /\ chip'.cr = "none" /\ chip'.sending = s
          /\ UNCHANGED <<chip.rx, chip.rx_base, chip.rx_rd, chip.ir, chip.sr, chip.tx,
                         chip.tx_rd, chip.tx_wr>>
      BY <1>3, <3>1 DEF Registers
    <3>3. /\ chip.sending = NoSend /\ chip.ir = {} /\ chip.dst = sends
          /\ chip.tx_rd < chip.tx_wr
          /\ WholeFrom(chip.tx_rd, chip.tx_wr, sends)
          /\ ~socket.has_unreaped_send
      BY <2>1, <2>3 DEF Sending, SendPoints
    <3>4. s.end = chip.tx_wr /\ s.dst = sends
      BY <3>3
    <3>5. s # NoSend
      BY <1>4, <3>3, <3>4 DEF NoSend
    <3> HIDE DEF s
    <3>6. WholeFrom(chip.tx_rd, chip.tx_wr, chip.sending.dst)'
      BY <3>2, <3>3, <3>4 DEF WholeFrom
    <3>7. Committed'
      BY <3>2, <3>3, <3>4, <3>5, <3>6 DEF Committed
    <3>8. Sending'
      BY <1>2, <2>3, <3>2, <3>3, <3>7 DEF Sending, SendPoints, RecvPoints
    <3>9. delivered' = delivered
      BY <1>7, <2>3 DEF Accept, SendCommands
    <3>10. Receiving'
      BY <1>2, <2>3, <3>2, <3>9 DEF Receiving
    <3>11. Agreed'
      BY <1>1, <1>2, <3>2 DEF Agreed
    <3> QED
      BY <3>8, <3>10, <3>11
  <2> QED
    BY <1>1, <2>1, <2>2, <2>3
<1>8. ASSUME chip.sending # NoSend
      PROVE  /\ Committed /\ chip.ir = {}
             /\ \/ pc = "outcome" \/ (pc = "sending" /\ chip.cr = "none")
                \/ pc \in {"idle", "done", "link", "reap"} \cup RecvPoints /\ socket.has_unreaped_send
  BY <1>8, SendingCommitted
<1>9. ASSUME chip.sending # NoSend, UNCHANGED chip.cr, Committed' PROVE Sending'
  BY <1>2, <1>8, <1>9 DEF Sending, SendPoints, RecvPoints
<1>10. CASE Transmit
  <2> DEFINE tx == [i \in DOMAIN chip.tx |-> IF i < chip.sending.end THEN NoCell ELSE chip.tx[i]]
  <2>1. /\ chip.sending # NoSend /\ delivered' = delivered
        /\ chip' = [chip EXCEPT !.tx_rd = chip.sending.end, !.sending = NoSend,
                                !.tx = tx, !.ir = chip.ir \cup {"SENDOK"}]
    BY <1>10 DEF Transmit
  <2> HIDE DEF tx
  <2>2. /\ chip'.tx_rd = chip.sending.end /\ chip'.sending = NoSend
        /\ chip'.ir = chip.ir \cup {"SENDOK"}
        /\ UNCHANGED <<chip.rx, chip.rx_base, chip.rx_rd, chip.cr, chip.sr, chip.tx_wr>>
    BY <1>3, <2>1 DEF Registers
  <2>3. chip.ir = {} /\ chip.sending.end = chip.tx_wr
    BY <1>8, <2>1 DEF Committed, Drained
  <2>4. Committed'
    BY <2>2, <2>3 DEF Committed, Drained
  <2> QED
    BY <1>5, <1>6, <1>9, <2>1, <2>2, <2>4
<1>11. CASE ArpTimeout
  <2>1. /\ chip.sending # NoSend /\ delivered' = delivered
        /\ chip' = [chip EXCEPT !.sending = NoSend, !.ir = chip.ir \cup {"TIMEOUT"}]
    BY <1>11 DEF ArpTimeout
  <2>2. /\ chip'.sending = NoSend /\ chip'.ir = chip.ir \cup {"TIMEOUT"}
        /\ UNCHANGED <<chip.rx, chip.rx_base, chip.rx_rd, chip.cr, chip.sr>>
    BY <1>3, <2>1 DEF Registers
  <2>3. Committed'
    BY <1>8, <2>1, <2>2 DEF Committed
  <2> QED
    BY <1>5, <1>6, <1>9, <2>1, <2>2, <2>3
<1>12. ASSUME NEW n \in Lengths, Arrive(n) PROVE Agreed' /\ Receiving' /\ Sending'
  <2>1. /\ delivered' = delivered
        /\ UNCHANGED <<chip.rx_base, chip.rx_rd, chip.cr, chip.sr, chip.ir, chip.dst,
                       chip.sending, chip.tx, chip.tx_rd, chip.tx_wr>>
    BY <1>3, <1>12 DEF Arrive, Registers
  <2>2. /\ Len(chip'.rx) = Len(chip.rx) + 1 + n /\ n \in Nat
        /\ \A i \in 1..Len(chip.rx) : chip'.rx[i] = chip.rx[i]
    BY <1>12, ArriveKeeps
  <2>3. \A p : Boundary(chip.rx, p) => Boundary(chip'.rx, p)
    BY <1>12, ArriveChained
  <2>4. Receiving'
    <3>1. Boundary(chip'.rx, chip'.rx_rd) /\ delivered' <= chip'.rx_rd
      BY <2>1, <2>3 DEF Receiving
    <3>2. loc.rp < Len(chip.rx) =>
            loc'.rp < Len(chip'.rx) /\ chip'.rx[loc'.rp + 1] = chip.rx[loc.rp + 1]
      <4> SUFFICES ASSUME loc.rp < Len(chip.rx)
                   PROVE  loc.rp < Len(chip'.rx) /\ chip'.rx[loc.rp + 1] = chip.rx[loc.rp + 1]
        BY <1>2
      <4>1. loc.rp + 1 \in 1..Len(chip.rx)
        BY <1>4
      <4> QED
        BY <1>4, <2>2, <4>1
    <3>3. chip.rx_rd < Len(chip.rx) => chip'.rx_rd < Len(chip'.rx)
      BY <1>4, <2>1, <2>2
    <3> QED
      BY <1>2, <2>1, <3>1, <3>2, <3>3 DEF Receiving
  <2>5. Sending'
    BY <1>2, <2>1 DEF Sending, Committed, Drained, WholeFrom
  <2> QED
    BY <1>5, <2>1, <2>4, <2>5
<1>13. CASE LosePower
  BY <1>13 DEF LosePower
<1> QED
  BY <1>2, <1>7, <1>10, <1>11, <1>12, <1>13

\* An open that succeeds finds the chip as OPEN leaves it.
LEMMA OpensInSync ==
  ASSUME Typed, Within, Chained, Unopened, CheckOpen, pc = "portcheck",
         socket.status # "OPEN", socket'.status = "OPEN",
         delivered' = IF Delivers /\ sync THEN loc.rp + 1 + loc.hlen ELSE delivered
  PROVE  Agreed' /\ Receiving' /\ Sending'
<1>1. socket \in Sockets
  BY DEF Typed
<1>2. PICK st \in Results : Frame(chip, st) /\
        IF st # "OK" THEN OpenFailed(st)
        ELSE IF loc.len = 0 \/ chip.port # "set" THEN OpenFailed("STATE")
        ELSE ReturnFrom("OK", [socket EXCEPT !.status = "OPEN"])
  BY DEF CheckOpen
<1>3. \A s \in {"ERROR", "OPEN"} : /\ [socket EXCEPT !.status = s].status = s
                                   /\ [socket EXCEPT !.status = s].has_unreaped_send =
                                        socket.has_unreaped_send
  BY <1>1 DEF Sockets
<1>4. st = "OK" /\ chip.port = "set" /\ pc' = "done"
      /\ socket'.has_unreaped_send = socket.has_unreaped_send
  BY <1>2, <1>3 DEF OpenFailed, ReturnFrom
<1>5. spi = "READY" /\ spi' = "READY" /\ chip' = chip
  BY <1>2, <1>4 DEF Frame, spiVars
<1>6. /\ chip.cr = "none" /\ chip.sr = "UDP" /\ chip.sending = NoSend /\ chip.tx_rd = 0
      /\ chip.tx_wr = 0 /\ chip.rx_rd = 0 /\ chip.rx_base = 0 /\ delivered = 0
      /\ ~socket.has_unreaped_send
  BY <1>4, <1>5 DEF Unopened
<1>7. delivered' = 0
  BY <1>6 DEF Delivers
<1>8. Agreed'
  BY <1>4, <1>5, <1>6 DEF Agreed, Restores
<1>9. Receiving'
  BY <1>4, <1>5, <1>6, <1>7 DEF Receiving, Chained
<1>10. Drained'
  BY <1>5, <1>6 DEF Drained
<1>11. Sending'
  BY <1>4, <1>6, <1>10 DEF Sending, SendPoints, RecvPoints
<1> QED
  BY <1>8, <1>9, <1>11

\* A client that does not close its socket: every step keeps driver and chip in
\* agreement, or ends it.
LEMMA SyncedStep ==
  ASSUME NEW c, Clients = {c}, "close" \notin Ops[c]
  PROVE  Synced(c) /\ [Next]_vars => Synced(c)'
<1> SUFFICES ASSUME Synced(c), [Next]_vars PROVE Synced(c)'
  OBVIOUS
<1>1. /\ Used(c) /\ Lone(c) /\ Service /\ OneCall(c) /\ Placed /\ Typed /\ Within /\ Chained
      /\ Unopened /\ Opened /\ Agreed /\ Receiving /\ Sending
  BY DEF Synced, Used, Lone
<1>2. Used(c)'
  BY <1>1, UsedStep
<1>3. ASSUME ~sync' PROVE Agreed' /\ Receiving' /\ Sending'
  BY <1>3 DEF Agreed, Receiving, Sending
<1>4. Agreed' /\ Receiving' /\ Sending'
  <2>1. ASSUME sync, UNCHANGED <<chip, socket, delivered, loc, sends>>, spi' = spi,
               pc \in {"idle", "done"}, pc' \in {"idle", "done", "link", "rsr", "reap"}
        PROVE  Agreed' /\ Receiving' /\ Sending'
    <3>1. Receiving'
      BY <1>1, <2>1, ReceivingKept DEF RecvPoints
    <3>2. Sending'
      BY <1>1, <2>1, SendingKept DEF RecvPoints
    <3>3. Agreed'
      BY <1>1, <2>1 DEF Agreed, Restores
    <3> QED
      BY <3>1, <3>2, <3>3
  <2>2. ASSUME NEW op \in Ops[c], Call(c, op) PROVE Agreed' /\ Receiving' /\ Sending'
    <3>1. UNCHANGED <<pc, ret, loc, socket, spi, faults, chip, sends, delivered, sync>>
      BY <2>2 DEF Call, driverVars, spiVars, ghostVars
    <3> QED
      BY <1>1, <3>1 DEF Agreed, Receiving, Sending, Committed, Drained, WholeFrom
  <2>3. CASE Dispatch
    <3>1. /\ pc = "idle" /\ UNCHANGED <<socket, spi, chip, delivered, sync>>
          /\ pc' = IF dead THEN "done" ELSE Entry[current_req.op]
          /\ net_posted = 1
      BY <1>1, <2>3 DEF Dispatch, TakeRequest, spiVars, OneCall
    <3>2. PICK op \in Operations : op = current_req.op
      BY <1>1, <3>1 DEF Service, Requests
    <3>3. CASE sync
      <4>1. op \notin {"open", "close"}
        BY <1>1, <3>1, <3>2, <3>3 DEF Agreed, Opened
      <4>2. pc' \in {"link", "rsr", "reap", "done"}
        BY <3>1, <3>2, <4>1 DEF Entry, Operations
      <4>3. Receiving'
        BY <1>1, <3>1, <3>3, <4>2, ReceivingKept DEF RecvPoints
      <4>4. Sending'
        BY <1>1, <3>1, <3>3, <4>2, SendingKept DEF RecvPoints
      <4>5. Agreed'
        BY <1>1, <3>1, <3>3, <4>2 DEF Agreed, Restores
      <4> QED
        BY <4>3, <4>4, <4>5
    <3>4. CASE ~sync
      BY <1>3, <3>1, <3>4
    <3> QED
      BY <3>3, <3>4
  <2>4. CASE /\ Frames
             /\ delivered' = IF Delivers /\ sync THEN loc.rp + 1 + loc.hlen ELSE delivered
             /\ sync' = (Opens \/ (sync /\ spi' = "READY" /\ pc' \notin {"rxrestore", "txrestore"}))
             /\ UNCHANGED <<netVars, sends>>
    <3>1. CASE socket.status # "OPEN"
      <4>1. ~sync
        BY <1>1, <3>1 DEF Unopened
      <4>2. CASE Opens
        <5>1. CheckOpen /\ pc = "portcheck" /\ socket'.status = "OPEN"
          BY <1>1, <2>4, <3>1, <4>2, OpensOpened DEF Opens
        <5> QED
          BY <1>1, <2>4, <3>1, <5>1, OpensInSync
      <4>3. CASE ~Opens
        BY <1>3, <2>4, <4>1, <4>3
      <4> QED
        BY <4>2, <4>3
    <3>2. CASE socket.status = "OPEN"
      <4>1. pc \notin Booting \cup OpenPoints
        BY <1>1, <3>2 DEF Opened
      <4>2. ~Opens
        BY <4>1 DEF Opens, OpenPoints
      <4>3. CASE sync /\ spi' = "READY" /\ pc' \notin Restores
        <5>1. CASE LinkUp
          <6>1. PICK st \in Results : Frame(chip, st)
            BY <5>1 DEF LinkUp
          <6>2. chip' = chip
            BY <6>1 DEF Frame
          <6>3. pc = "link" /\ pc' = "done" /\ socket' = socket
            BY <5>1 DEF LinkUp, Return, ReturnFrom
          <6>4. delivered' = delivered
            BY <2>4, <6>3 DEF Delivers
          <6>5. Receiving'
            BY <1>1, <4>3, <6>2, <6>3, <6>4, ReceivingKept DEF RecvPoints
          <6>6. Sending'
            BY <1>1, <4>3, <6>2, <6>3, SendingKept DEF RecvPoints
          <6>7. Agreed'
            BY <1>1, <4>3, <6>2, <6>3 DEF Agreed, Restores
          <6> QED
            BY <6>5, <6>6, <6>7
        <5>2. CASE \/ ReadSize \/ ReadDatagram \/ Retire \/ RecvCommand \/ AwaitRecv
                   \/ RestoreRxRd \/ ConfirmRetired
          BY <1>1, <2>4, <4>3, <5>2, RecvInSync
        <5>3. CASE Reap \/ ClearReaped \/ AwaitSpace
          BY <1>1, <2>4, <4>3, <5>3, ReapInSync
        <5>4. CASE FillBuffer \/ SendCommand
          BY <1>1, <2>4, <4>3, <5>4, FillInSync
        <5>5. CASE AwaitCommit \/ AwaitOutcome \/ RestoreTxWr \/ Unsent
          BY <1>1, <2>4, <4>3, <5>5, OutcomeInSync
        <5>6. ~(\/ HwReset \/ ReadVersion \/ Configure \/ CloseCommand
                \/ AwaitClosed \/ OpenCommand \/ AwaitOpen \/ CheckOpen)
          BY <4>1 DEF HwReset, ReadVersion, Configure, CloseCommand, AwaitClosed,
                      OpenCommand, AwaitOpen, CheckOpen, Booting, OpenPoints
        <5> QED
          BY <2>4, <5>1, <5>2, <5>3, <5>4, <5>5, <5>6 DEF Frames
      <4>4. CASE ~(sync /\ spi' = "READY" /\ pc' \notin Restores)
        BY <1>3, <2>4, <4>2, <4>4 DEF Restores
      <4> QED
        BY <4>3, <4>4
    <3> QED
      BY <3>1, <3>2
  <2>5. CASE /\ Answer \/ Recover \/ Reinit \/ ReinitDone \/ BootDone
             /\ UNCHANGED <<chip, ghostVars, sync>>
    <3>1. UNCHANGED <<chip, delivered, sends, sync, loc>>
      BY <2>5 DEF ghostVars, Answer, Recover, Reinit, ReinitDone, BootDone, Goto
    <3>2. CASE sync
      <4>1. /\ socket.status = "OPEN" /\ spi = "READY" /\ pc \notin Booting
            /\ pc = "done" => ret # "STATE"
        BY <1>1, <3>2 DEF Agreed, Opened
      <4>2. pc = "done" /\ pc' = "idle" /\ socket' = socket /\ spi' = spi
        BY <2>5, <4>1 DEF Answer, Recover, Reinit, ReinitDone, BootDone, Booting, spiVars
      <4> QED
        BY <2>1, <3>1, <3>2, <4>2
    <3>3. CASE ~sync
      BY <1>3, <3>1, <3>3
    <3> QED
      BY <3>2, <3>3
  <2>6. CASE Chip
    <3>1. CASE sync'
      <4>1. sync
        BY <2>6, <3>1 DEF Chip, Accept, Transmit, ArpTimeout, Arrive, LosePower
      <4> QED
        BY <1>1, <2>6, <3>1, <4>1, ChipInSync
    <3> QED
      BY <1>3, <3>1
  <2>7. CASE UNCHANGED vars
    <3>1. UNCHANGED <<pc, ret, loc, socket, spi, faults, chip, sends, delivered, sync>>
      BY <2>7 DEF vars, driverVars, spiVars, ghostVars
    <3> QED
      BY <1>1, <3>1 DEF Agreed, Receiving, Sending, Committed, Drained, WholeFrom
  <2> QED
    BY <2>2, <2>3, <2>4, <2>5, <2>6, <2>7 DEF Next, NetTask
<1> QED
  BY <1>2, <1>4 DEF Synced

\* They do not agree before the socket was opened.
LEMMA SyncedInit ==
  ASSUME NEW c, Clients = {c}
  PROVE  Init => Synced(c)
<1> SUFFICES ASSUME Init PROVE Synced(c)
  OBVIOUS
<1>1. ~sync
  BY DEF Init
<1> QED
  BY <1>1, UsedInit DEF Synced, Agreed, Receiving, Sending

\* A client that is alone and keeps its socket open: a send whose outcome the
\* driver has still to reap has one, so that no later send is refused for ever
\* (has_unreaped_send in w5500_socket_send).
THEOREM UnreapedSettles ==
  (\E c : Clients = {c} /\ "close" \notin Ops[c]) => (Spec => []UnreapedHasOutcome)
<1> SUFFICES ASSUME NEW c, Clients = {c}, "close" \notin Ops[c]
             PROVE  Spec => []UnreapedHasOutcome
  OBVIOUS
<1>1. Init => Synced(c)
  BY SyncedInit
<1>2. Synced(c) /\ [Next]_vars => Synced(c)'
  BY SyncedStep
<1>3. Synced(c) => UnreapedHasOutcome
  <2> SUFFICES ASSUME Synced(c), sync, svc = "idle", socket.has_unreaped_send
               PROVE  chip.sending # NoSend \/ chip.ir # {}
    BY DEF UnreapedHasOutcome
  <2>1. pc = "idle" /\ Sending
    BY DEF Synced, Used, Lone, Placed
  <2>2. Committed
    BY <2>1 DEF Sending
  <2> QED
    BY <2>2 DEF Committed
<1> QED
  BY <1>1, <1>2, <1>3, PTL DEF Spec

\* Such a client's datagrams leave whole: what the chip transmits while it and
\* the driver agree is the payload of one send, from its first cell to its last,
\* to that send's destination, whatever became of the sends before it
\* (w5500_socket_send).
THEOREM DatagramsLeaveWhole ==
  (\E c : Clients = {c} /\ "close" \notin Ops[c]) => (Spec => DatagramsWhole)
<1> SUFFICES ASSUME NEW c, Clients = {c}, "close" \notin Ops[c]
             PROVE  Spec => DatagramsWhole
  OBVIOUS
<1> DEFINE Whole ==
      Transmit /\ sync =>
       /\ OnTheWire # <<>>
       /\ \A i \in DOMAIN OnTheWire :
            OnTheWire[i] = [send |-> chip.sending.dst, index |-> i, of |-> Len(OnTheWire)]
<1>1. Init => Synced(c)
  BY SyncedInit
<1>2. Synced(c) /\ [Next]_vars => Synced(c)'
  BY SyncedStep
<1>3. Synced(c) => Whole
  <2> SUFFICES ASSUME Synced(c), Transmit, sync
               PROVE  /\ OnTheWire # <<>>
                      /\ \A i \in DOMAIN OnTheWire :
                           OnTheWire[i] = [send |-> chip.sending.dst, index |-> i,
                                           of |-> Len(OnTheWire)]
    OBVIOUS
  <2>1. chip.sending # NoSend
    BY DEF Transmit
  <2>2. Committed
    BY <2>1, SendingCommitted DEF Synced, Used, Lone
  <2>3. /\ chip.sending.end = chip.tx_wr /\ chip.tx_rd < chip.tx_wr
        /\ WholeFrom(chip.tx_rd, chip.tx_wr, chip.sending.dst)
    BY <2>1, <2>2 DEF Committed, Drained
  <2>4. chip.tx_rd \in Nat /\ chip.tx_wr \in Nat
    BY DEF Synced, Used, Lone, Within, Fits, Registers
  <2> DEFINE n == chip.tx_wr - chip.tx_rd
             wire == [i \in 1..n |-> chip.tx[chip.tx_rd + i - 1]]
  <2>5. OnTheWire = wire
    BY <2>3 DEF OnTheWire
  <2>6. n \in Nat /\ n > 0
    BY <2>3, <2>4
  <2> HIDE DEF n
  <2>7. DOMAIN wire = 1..n /\ Len(wire) = n
    BY <2>6
  <2>8. wire # <<>>
    BY <2>6, <2>7
  <2>9. ASSUME NEW i \in 1..n
        PROVE  wire[i] = [send |-> chip.sending.dst, index |-> i, of |-> n]
    <3>1. /\ chip.tx_rd + i - 1 \in chip.tx_rd..chip.tx_wr - 1
          /\ (chip.tx_rd + i - 1) - chip.tx_rd + 1 = i
      BY <2>4, <2>6 DEF n
    <3>2. chip.tx[chip.tx_rd + i - 1] =
            [send |-> chip.sending.dst, index |-> (chip.tx_rd + i - 1) - chip.tx_rd + 1,
             of |-> chip.tx_wr - chip.tx_rd]
      BY <2>3, <3>1 DEF WholeFrom
    <3> QED
      BY <3>1, <3>2 DEF n
  <2> QED
    BY <2>5, <2>7, <2>8, <2>9
<1> HIDE DEF Whole
<1>4. Spec => [][Whole]_vars
  BY <1>1, <1>2, <1>3, PTL DEF Spec
<1> QED
  BY <1>4, PTL DEF DatagramsWhole, Whole

\* ... and it receives in order: a recv that is answered with a datagram got it
\* from its header on, and none that it got before (w5500_socket_recv).
THEOREM DatagramsInOrder ==
  (\E c : Clients = {c} /\ "close" \notin Ops[c]) => (Spec => ReceivedInOrder)
<1> SUFFICES ASSUME NEW c, Clients = {c}, "close" \notin Ops[c]
             PROVE  Spec => ReceivedInOrder
  OBVIOUS
<1> DEFINE InOrder ==
      Delivers /\ sync =>
       /\ loc.rp < Len(chip.rx) /\ chip.rx[loc.rp + 1] = loc.hlen
       /\ loc.rp >= delivered
<1>1. Init => Synced(c)
  BY SyncedInit
<1>2. Synced(c) /\ [Next]_vars => Synced(c)'
  BY SyncedStep
<1>3. Synced(c) => InOrder
  <2> SUFFICES ASSUME Synced(c), Delivers, sync
               PROVE  /\ loc.rp < Len(chip.rx) /\ chip.rx[loc.rp + 1] = loc.hlen
                      /\ loc.rp >= delivered
    OBVIOUS
  <2>1. pc = "rsr2"
    BY DEF Delivers
  <2>2. loc.rp \in Nat /\ delivered \in Nat
    BY DEF Synced, Used, Lone, Typed, Locals
  <2> QED
    BY <2>1, <2>2 DEF Synced, Receiving
<1> HIDE DEF InOrder
<1>4. Spec => [][InOrder]_vars
  BY <1>1, <1>2, <1>3, PTL DEF Spec
<1> QED
  BY <1>4, PTL DEF ReceivedInOrder, InOrder
=============================================================================
