---------------------------- MODULE DhcpMessage ----------------------------
(***************************************************************************)
(* The DHCP server's messages (dhcp.c): the option parser, the loop of     *)
(* dhcp_task and the replies.  The options of a datagram are bytes, as the *)
(* code sees them; the fixed part before them is a record.  Addresses have *)
(* two bytes, the network and the host.  Two things outlive a datagram and *)
(* are in use again for the next one: net_buffer, of which a datagram      *)
(* overwrites only as much as it has, and received_msg.                    *)
(*                                                                         *)
(* What the lease table answers is left open (module DhcpLease says it):   *)
(* chose_address finds some address of the pool or none, and the slot of a *)
(* requested address belongs to the client or does not.                    *)
(***************************************************************************)
EXTENDS Integers, SequencesExt

CONSTANTS
  Cap,         \* how many bytes of options net_buffer holds
  ReplyCap,    \* and the buffer of the replies
  MinReply,    \* how many a reply is filled up to (300 - 240)
  CidCap,      \* CID_CAP
  Server,      \* cfg->server_id, an address
  Pool,        \* the hosts from cfg->start_addr to cfg->end_addr
  Net,         \* and their network
  Rounds,      \* how many datagrams there are
  Earlier,     \* those that may come before the last one,
  Datagrams    \* and the last one

PAD == 0
END == 255
REQUESTED_IP == 50
LEASE_TIME == 51
MESSAGE_TYPE == 53
SERVER_ID == 54
PARAMETER_LIST == 55
CLIENT_ID == 61
DISCOVER == 1
OFFER == 2
REQUEST == 3
DECLINE == 4
ACK == 5
RELEASE == 7
BOOTREQUEST == 1
BOOTREPLY == 2
AddrLen == 2
NoAddr == <<0, 0>>
Broadcast == <<255, 255>>

Bytes == 0..255
Addresses == {a \in Seq(Bytes) : Len(a) = AddrLen}

\* What is sent before the options.  Of the 16 bytes of chaddr those that hlen
\* counts, and they fit lease_key.
FixedParts ==
  [cookie : BOOLEAN, ethernet : BOOLEAN, op : Bytes, xid : Nat, broadcast : BOOLEAN,
   ciaddr : Addresses, giaddr : Addresses, chaddr : {c \in Seq(Bytes) : Len(c) <= CidCap}]

\* What the network delivers: any bytes, as many as net_buffer holds.
Messages ==
  [short : BOOLEAN, fixed : FixedParts, options : {o \in Seq(Bytes) : Len(o) <= Cap}]

ASSUME MessageAssumption ==
  /\ {Cap, ReplyCap, MinReply, CidCap, Rounds} \subseteq Nat \ {0}
  /\ Pool \subseteq 1..254 /\ Net \in Bytes /\ Server \in Addresses
  /\ Earlier \cup Datagrams \subseteq Messages

\* The buffer of the replies has room for all options and the last byte (it has
\* 1000 bytes, and a reply fills at most 300).
ASSUME RoomAssumption == MinReply <= ReplyCap /\ 13 + CidCap <= ReplyCap

VARIABLES
  net_buffer,  \* fixed (the fields before the options) and options
  got,         \* how many bytes of options were received, -1: a short datagram
  received_msg,
  pos,         \* where parse_options is
  pc,          \* what dhcp_task is doing
  sent,        \* the last reply, or None
  asked,       \* the datagram that was received last
  rounds       \* how many datagrams there may still be

vars == <<net_buffer, got, received_msg, pos, pc, sent, asked, rounds>>

None == [type |-> 0]
Byte == net_buffer.options

NoFields == [requested_ip |-> <<>>, has_requested_ip |-> FALSE,
             message_type |-> 0, has_message_type |-> FALSE,
             server_id |-> <<>>, has_server_id |-> FALSE,
             client_id |-> <<>>, has_client_id |-> FALSE,
             requested |-> {}]
NoFixed == [cookie |-> FALSE, ethernet |-> FALSE, op |-> 0, xid |-> 0,
            broadcast |-> FALSE, ciaddr |-> NoAddr, giaddr |-> NoAddr, chaddr |-> <<>>]

Init ==
  /\ net_buffer = [fixed |-> NoFixed, options |-> [i \in 1..Cap |-> PAD]]
  /\ got = 0 /\ pos = 1 /\ pc = "recv"
  /\ received_msg = [fixed |-> NoFixed, fields |-> NoFields, lease_key |-> <<>>]
  /\ sent = None
  /\ asked = [short |-> TRUE, fixed |-> NoFixed, options |-> <<>>]
  /\ rounds = Rounds

-----------------------------------------------------------------------------
(* dhcp_parse                                                              *)

\* sys_net_recv
Recv(d) ==
  /\ pc = "recv" /\ rounds > 0 /\ rounds' = rounds - 1
  /\ asked' = d
  /\ got' = IF d.short THEN -1 ELSE Len(d.options)
  /\ net_buffer' =
       IF d.short THEN net_buffer
       ELSE [fixed |-> d.fixed,
             options |-> [i \in 1..Cap |-> IF i <= Len(d.options) THEN d.options[i]
                                           ELSE Byte[i]]]
  /\ sent' = None
  /\ pc' = "check"
  /\ UNCHANGED <<received_msg, pos>>

\* Mutant of Cleared: the client identifier of an earlier datagram stays.
ClearedButId(f) ==
  [f EXCEPT !.has_requested_ip = FALSE, !.has_message_type = FALSE,
            !.has_server_id = FALSE, !.requested = {}]

\* parse_options forgets which options it has seen, and leaves their values
Cleared(f) ==
  [f EXCEPT !.has_requested_ip = FALSE, !.has_message_type = FALSE,
            !.has_server_id = FALSE, !.has_client_id = FALSE, !.requested = {}]

\* The length, the magic cookie and the hardware type; then the fixed part.
Drop ==
  /\ pc' = "recv"
  /\ UNCHANGED <<net_buffer, got, received_msg, pos, sent, asked, rounds>>

CheckBad ==
  /\ pc = "check"
  /\ got < 0 \/ ~net_buffer.fixed.cookie \/ ~net_buffer.fixed.ethernet
  /\ Drop

CheckGood ==
  /\ pc = "check"
  /\ got >= 0 /\ net_buffer.fixed.cookie /\ net_buffer.fixed.ethernet
  /\ received_msg' = [received_msg EXCEPT !.fixed = net_buffer.fixed,
                                          !.fields = Cleared(@)]
  /\ pos' = 1
  /\ pc' = "parse"
  /\ UNCHANGED <<net_buffer, got, sent, asked, rounds>>

\* One turn of the loop of parse_options: padding, an option, or the end.
Parsing == pc = "parse" /\ pos < got
Code == Byte[pos]
DataLen == Byte[pos + 1]
Data == SubSeq(Byte, pos + 2, pos + 1 + DataLen)

ParsePad ==
  /\ Parsing /\ Code = PAD
  /\ pos' = pos + 1
  /\ UNCHANGED <<net_buffer, got, received_msg, pc, sent, asked, rounds>>

Overruns == pos + 1 + DataLen > got

\* Mutant of Malformed: one byte more than client_id holds.
MalformedLate ==
  \/ Code \in {REQUESTED_IP, SERVER_ID} /\ DataLen # AddrLen
  \/ Code = MESSAGE_TYPE /\ DataLen # 1
  \/ Code = CLIENT_ID /\ DataLen > CidCap + 1

Malformed ==
  \/ Code \in {REQUESTED_IP, SERVER_ID} /\ DataLen # AddrLen
  \/ Code = MESSAGE_TYPE /\ DataLen # 1
  \/ Code = CLIENT_ID /\ DataLen > CidCap

ParseError ==
  /\ Parsing /\ Code \notin {PAD, END}
  /\ Overruns \/ Malformed
  /\ Drop

\* The switch over the option codes; an option that comes twice overwrites the
\* first one, the lists of parameters add up.
Stored(f) ==
  CASE Code = REQUESTED_IP -> [f EXCEPT !.has_requested_ip = TRUE, !.requested_ip = Data]
    [] Code = MESSAGE_TYPE -> [f EXCEPT !.has_message_type = TRUE, !.message_type = Data[1]]
    [] Code = SERVER_ID -> [f EXCEPT !.has_server_id = TRUE, !.server_id = Data]
    [] Code = PARAMETER_LIST -> [f EXCEPT !.requested = @ \cup ToSet(Data)]
    [] Code = CLIENT_ID -> [f EXCEPT !.has_client_id = TRUE, !.client_id = Data]
    [] OTHER -> f

ParseOption ==
  /\ Parsing /\ Code \notin {PAD, END}
  /\ ~Overruns /\ ~Malformed
  /\ received_msg' = [received_msg EXCEPT !.fields = Stored(@)]
  /\ pos' = pos + 2 + DataLen
  /\ UNCHANGED <<net_buffer, got, pc, sent, asked, rounds>>

\* The end of dhcp_parse: what the client is known by.
ParseDone ==
  /\ pc = "parse"
  /\ Parsing => Code = END
  /\ received_msg' = [received_msg EXCEPT
       !.lease_key = IF received_msg.fields.has_client_id
                     THEN received_msg.fields.client_id
                     ELSE received_msg.fixed.chaddr]
  /\ pc' = "handle"
  /\ UNCHANGED <<net_buffer, got, pos, sent, asked, rounds>>

-----------------------------------------------------------------------------
(* Replies                                                                 *)

\* dhcp_chose_destination
Destination(m, yiaddr) ==
  CASE m.fixed.giaddr # NoAddr -> [ip |-> m.fixed.giaddr, port |-> "server", mac |-> <<>>]
    [] m.fixed.giaddr = NoAddr /\ m.fixed.ciaddr # NoAddr ->
         [ip |-> m.fixed.ciaddr, port |-> "client", mac |-> <<>>]
    [] m.fixed.giaddr = NoAddr /\ m.fixed.ciaddr = NoAddr /\ m.fixed.broadcast ->
         [ip |-> Broadcast, port |-> "client", mac |-> <<>>]
    [] OTHER -> [ip |-> yiaddr, port |-> "client", mac |-> m.fixed.chaddr]

\* The options of a reply; those with the lease time, the mask, the router, the
\* name server and the broadcast address are one.
OptionBytes(type, m) ==
  <<MESSAGE_TYPE, 1, type>> \o <<SERVER_ID, AddrLen>> \o Server
  \o <<LEASE_TIME, 1, END>>
  \o IF m.fields.has_client_id
     THEN <<CLIENT_ID, Len(m.fields.client_id)>> \o m.fields.client_id
     ELSE <<>>

\* Mutant of Padded: the last byte is written over the last option.
PaddedShort(opts) ==
  IF Len(opts) <= MinReply
  THEN [i \in 1..MinReply |-> IF i < Len(opts) THEN opts[i]
                              ELSE IF i = MinReply THEN END ELSE PAD]
  ELSE Append(opts, END)

\* The tail of embedd_options
Padded(opts) ==
  IF Len(opts) < MinReply
  THEN [i \in 1..MinReply |-> IF i = MinReply THEN END
                              ELSE IF i <= Len(opts) THEN opts[i] ELSE PAD]
  ELSE Append(opts, END)

\* dhcp_build_reply (the fixed part is that of net_buffer) and sys_net_send
Reply(type, yiaddr) ==
  LET opts == OptionBytes(type, received_msg)
  IN sent' = IF Len(opts) > ReplyCap THEN None
             ELSE [type |-> type, op |-> BOOTREPLY, xid |-> net_buffer.fixed.xid,
                   chaddr |-> net_buffer.fixed.chaddr, yiaddr |-> yiaddr,
                   options |-> Padded(opts), dest |-> Destination(received_msg, yiaddr)]

-----------------------------------------------------------------------------
(* dhcp_task's switch                                                      *)

Handling == pc = "handle" /\ received_msg.fixed.op = BOOTREQUEST
            /\ received_msg.fields.has_message_type
Type == received_msg.fields.message_type
Done == pc' = "recv" /\ UNCHANGED <<net_buffer, got, received_msg, pos, asked, rounds>>

NotRequest ==
  /\ pc = "handle" /\ ~Handling
  /\ Drop

\* DISCOVER, and DECLINE after dhcp_handle_decline: dhcp_build_offer_args.  The
\* pool has an address for the client or not; it has none without a key.
Offer ==
  /\ Handling /\ Type \in {DISCOVER, DECLINE}
  /\ received_msg.lease_key # <<>>
  /\ \E host \in Pool : Reply(OFFER, <<Net, host>>)
  /\ Done

NoOffer == Handling /\ Type \in {DISCOVER, DECLINE} /\ Drop

\* dhcp_handle_request
Requested ==
  IF received_msg.fields.has_requested_ip THEN received_msg.fields.requested_ip
  ELSE received_msg.fixed.ciaddr
ForUs == received_msg.fields.has_server_id => received_msg.fields.server_id = Server

\* Only the host is compared.
InTable(addr) == addr[2] \in Pool

Acknowledge ==
  /\ Handling /\ Type = REQUEST
  /\ ForUs /\ InTable(Requested)
  /\ Reply(ACK, Requested)
  /\ Done

\* Another server is meant, there is no such slot, or it is not the client's.
NoAcknowledge == Handling /\ Type = REQUEST /\ Drop

\* RELEASE and the messages it does not know are not answered.
NoReply == Handling /\ Type \notin {DISCOVER, REQUEST, DECLINE} /\ Drop

Receive == \/ rounds > 1 /\ \E d \in Earlier : Recv(d)
           \/ rounds = 1 /\ \E d \in Datagrams : Recv(d)
Parse == CheckBad \/ CheckGood \/ ParsePad \/ ParseError \/ ParseOption \/ ParseDone
Handle == NotRequest \/ Offer \/ NoOffer \/ Acknowledge \/ NoAcknowledge \/ NoReply

Next == Receive \/ Parse \/ Handle

Spec == Init /\ [][Next]_vars

-----------------------------------------------------------------------------
(* What a string of option bytes says, apart from how the code reads it:   *)
(* the options up to END or the last byte, Overrun in place of one that is *)
(* longer than what is left.                                               *)

Overrun == [code |-> PAD, data |-> <<>>]

\* For each position the options from there on.
OptionsFrom(bytes) ==
  LET n == Len(bytes)
      from[p \in 1..n + 1] ==
        IF p >= n THEN <<>>
        ELSE IF bytes[p] = END THEN <<>>
        ELSE IF bytes[p] = PAD THEN from[p + 1]
        ELSE IF p + 1 + bytes[p + 1] > n THEN <<Overrun>>
        ELSE <<[code |-> bytes[p],
                data |-> SubSeq(bytes, p + 2, p + 1 + bytes[p + 1])]>>
             \o from[p + 2 + bytes[p + 1]]
  IN from
OptionsIn(bytes) == OptionsFrom(bytes)[1]

Right(o) ==
  /\ o.code \in {REQUESTED_IP, SERVER_ID} => Len(o.data) = AddrLen
  /\ o.code = MESSAGE_TYPE => Len(o.data) = 1
  /\ o.code = CLIENT_ID => Len(o.data) <= CidCap
  /\ o # Overrun
AllRight(os) == \A i \in DOMAIN os : Right(os[i])
WellFormed(bytes) == AllRight(OptionsIn(bytes))

\* Of several options with the same code the last one counts.
Has(os, code) == \E i \in DOMAIN os : os[i].code = code
LastOf(os, code) == CHOOSE i \in DOMAIN os :
  os[i].code = code /\ \A j \in DOMAIN os : j > i => os[j].code # code
ValueOf(os, code) == os[LastOf(os, code)].data
Listed(os) ==
  UNION {ToSet(os[i].data) : i \in {j \in DOMAIN os : os[j].code = PARAMETER_LIST}}

\* The fields of received_msg say what the options say, and those say who asks.
FieldsSay(f, os) ==
  /\ f.has_message_type = Has(os, MESSAGE_TYPE)
  /\ f.has_message_type => <<f.message_type>> = ValueOf(os, MESSAGE_TYPE)
  /\ f.has_requested_ip = Has(os, REQUESTED_IP)
  /\ f.has_requested_ip => f.requested_ip = ValueOf(os, REQUESTED_IP)
  /\ f.has_server_id = Has(os, SERVER_ID)
  /\ f.has_server_id => f.server_id = ValueOf(os, SERVER_ID)
  /\ f.has_client_id = Has(os, CLIENT_ID)
  /\ f.has_client_id => f.client_id = ValueOf(os, CLIENT_ID)
  /\ f.requested = Listed(os)
ClientOf(d) == LET os == OptionsIn(d.options)
               IN IF Has(os, CLIENT_ID) THEN ValueOf(os, CLIENT_ID) ELSE d.fixed.chaddr

Says(m, d) ==
  /\ m.fixed = d.fixed
  /\ FieldsSay(m.fields, OptionsIn(d.options))
  /\ m.lease_key = ClientOf(d)

-----------------------------------------------------------------------------
(* Properties                                                              *)

\* What the buffers can hold: the parser stays within what was received and a
\* client identifier within client_id.
TypeOK ==
  /\ DOMAIN net_buffer.options = 1..Cap
  /\ got \in -1..Cap
  /\ pos \in 1..Cap + 1 /\ (pc = "parse" => pos <= got + 1)
  /\ pc \in {"recv", "check", "parse", "handle"}
  /\ Len(received_msg.fields.client_id) <= CidCap
  /\ Len(received_msg.lease_key) <= CidCap
  /\ sent # None => Len(sent.options) <= ReplyCap
  /\ rounds \in 0..Rounds

\* dhcp_parse accepts a datagram exactly if each of its options ends within it
\* and has the length it must have, and then received_msg says what the bytes
\* of this datagram say: nothing that an earlier one left in net_buffer or in
\* received_msg.
ParserCorrect ==
  [][pc = "parse" /\ pc' # "parse" =>
       IF WellFormed(asked.options) THEN pc' = "handle" /\ Says(received_msg', asked)
       ELSE pc' = "recv"]_vars

\* A reply answers the request it is sent for.  Its own bytes, read as a client
\* reads them, carry the right type, this server and the identifier of the
\* client that asked; the transaction and the hardware address are those of the
\* request, an acknowledged address is the one it named, and the frame goes to
\* the relay it came through or, by hardware address, to that client.
RepliesMatchRequest ==
  sent # None =>
    LET request == OptionsIn(asked.options)
        reply == OptionsIn(sent.options)
        type == ValueOf(request, MESSAGE_TYPE)[1]
        Named == IF Has(request, REQUESTED_IP)
                 THEN ValueOf(request, REQUESTED_IP) ELSE asked.fixed.ciaddr
    IN /\ asked.fixed.op = BOOTREQUEST /\ sent.op = BOOTREPLY
       /\ AllRight(reply) /\ sent.options[Len(sent.options)] = END
       /\ ValueOf(reply, SERVER_ID) = Server
       /\ \/ /\ type \in {DISCOVER, DECLINE}
             /\ ValueOf(reply, MESSAGE_TYPE) = <<OFFER>>
          \/ /\ type = REQUEST /\ sent.yiaddr = Named
             /\ ValueOf(reply, MESSAGE_TYPE) = <<ACK>>
             /\ Has(request, SERVER_ID) => ValueOf(request, SERVER_ID) = Server
       /\ Has(reply, CLIENT_ID) = Has(request, CLIENT_ID)
       /\ Has(reply, CLIENT_ID) => ValueOf(reply, CLIENT_ID) = ValueOf(request, CLIENT_ID)
       /\ sent.xid = asked.fixed.xid /\ sent.chaddr = asked.fixed.chaddr
       /\ asked.fixed.giaddr # NoAddr => sent.dest.ip = asked.fixed.giaddr
       /\ sent.dest.mac # <<>> => /\ sent.dest.mac = asked.fixed.chaddr
                                 /\ sent.dest.ip = sent.yiaddr
                                 /\ asked.fixed.ciaddr = NoAddr
=============================================================================
