-------------------------------- MODULE Net --------------------------------
(***************************************************************************)
(* The network service as its clients see it: a task asks net_task for one *)
(* operation through the mailbox current_req and two semaphores.  What the *)
(* operation does to the chip is left open here (module W5500 says it):    *)
(* the service answers with some status.                                   *)
(*                                                                         *)
(* The semaphores behave as module Kernel has them: a post wakes the       *)
(* waiter that came first, or else counts up.  A client's system call      *)
(* posts net_posted and waits on net_done in one run of the SVC handler.   *)
(* net_task is the only waiter on net_posted, and nothing tells its        *)
(* wake-up from its copy of the mailbox: they are one step.                *)
(***************************************************************************)
EXTENDS Integers, Sequences

CONSTANTS
  Clients,     \* the tasks that make network calls
  Ops          \* the operations each of them asks for

Operations == {"link", "open", "close", "recv", "send", "send_mac", "bad"}
Statuses == {"OK", "FAULT", "RETRY", "BAD_REQUEST", "UNREACHABLE", "DEAD"}
NoCall == "none"
Unset == "unset"

ASSUME ClientsAssumption == Ops \in [Clients -> SUBSET Operations]

VARIABLES
  current_req, \* the mailbox
  my_req,      \* net_task's copy of it
  net_posted,  \* the count of the semaphore net_task waits on
  net_done,    \* the count of the semaphore the clients wait on
  waiting,     \* the clients waiting on net_done, in order of arrival
  calling,     \* the operation each client is in a system call for
  slot,        \* the status in each client's reply slot
  svc,         \* what net_task is doing: "init", "idle" or "serving"
  dead         \* init_status # W5500_OK

netVars ==
  <<current_req, my_req, net_posted, net_done, waiting, calling, slot, svc, dead>>

Requests == [client : Clients, op : Operations]

(* The mailbox starts out zeroed, which no request of a client is.         *)
NoRequest == [client |-> NoCall, op |-> NoCall]

NetTypeOK ==
  /\ {current_req, my_req} \subseteq Requests \cup {NoRequest}
  /\ net_posted \in Nat /\ net_done \in Nat
  /\ waiting \in Seq(Clients)
  /\ calling \in [Clients -> Operations \cup {NoCall}]
  /\ slot \in [Clients -> Statuses \cup {Unset, NoCall}]
  /\ svc \in {"init", "idle", "serving"}
  /\ dead \in BOOLEAN

NetInit ==
  /\ current_req = NoRequest /\ my_req = NoRequest
  /\ net_posted = 0 /\ net_done = 0
  /\ waiting = <<>>
  /\ calling = [c \in Clients |-> NoCall]
  /\ slot = [c \in Clients |-> NoCall]
  /\ svc = "init"
  /\ dead = FALSE

(* net_will_wait: with a unit in net_done the call returns at once.        *)
NetWillWait(c, op) ==
  IF net_done > 0
  THEN net_done' = net_done - 1 /\ UNCHANGED <<waiting, calling>>
  ELSE /\ waiting' = Append(waiting, c)
       /\ calling' = [calling EXCEPT ![c] = op]
       /\ UNCHANGED net_done

(* A client's system call.                                                 *)
NetSendRequest(c, op) ==
  /\ calling[c] = NoCall
  /\ op \in Ops[c]
  /\ current_req' = [client |-> c, op |-> op]
  /\ net_posted' = net_posted + 1
  /\ slot' = [slot EXCEPT ![c] = Unset]
  /\ NetWillWait(c, op)
  /\ UNCHANGED <<my_req, svc, dead>>

(* The top of net_task's loop.                                             *)
TakeRequest ==
  /\ svc = "idle" /\ net_posted > 0
  /\ net_posted' = net_posted - 1
  /\ my_req' = current_req
  /\ svc' = "serving"
  /\ UNCHANGED <<current_req, net_done, waiting, calling, slot, dead>>

(* The end of net_task's loop: the status goes to the client that made the *)
(* request, the wake-up to the first in the queue.                         *)
PostDone ==
  IF waiting = <<>>
  THEN net_done' = net_done + 1 /\ UNCHANGED <<waiting, calling>>
  ELSE /\ waiting' = Tail(waiting)
       /\ calling' = [calling EXCEPT ![Head(waiting)] = NoCall]
       /\ UNCHANGED net_done

Reply(status) ==
  /\ svc = "serving"
  /\ slot' = [slot EXCEPT ![my_req.client] = status]
  /\ PostDone
  /\ svc' = "idle" /\ my_req' = NoRequest
  /\ UNCHANGED <<current_req, net_posted>>

(* w5500_init before the loop.                                             *)
InitReturns(failed) ==
  /\ svc = "init"
  /\ svc' = "idle" /\ dead' = failed
  /\ UNCHANGED <<current_req, my_req, net_posted, net_done, waiting, calling, slot>>

(* What a client may rely on: any status, except that it is DEAD exactly   *)
(* from the first failed initialisation on.                                *)
NetNext ==
  \/ \E c \in Clients, op \in Operations : NetSendRequest(c, op)
  \/ TakeRequest
  \/ \E status \in Statuses :
       /\ Reply(status)
       /\ dead' = (status = "DEAD")
       /\ dead => dead'
  \/ \E failed \in BOOLEAN : InitReturns(failed)

NetSpec == NetInit /\ [][NetNext]_netVars
=============================================================================
