------------------------------ MODULE DhcpLease ------------------------------
(***************************************************************************)
(* The DHCP server's lease table and its journal in flash: what a server   *)
(* task does with each message, how a lease is made durable before it is   *)
(* acknowledged, and what a restart after a power failure rebuilds.        *)
(*                                                                         *)
(* A message is its type, the client's key and the slot its address falls  *)
(* into; messages that do not parse, name no slot or are meant for another *)
(* server change nothing.  Clients send what they like, as often as they   *)
(* like.  A flash word is programmed as a whole; a word of the magic that  *)
(* power failed on reads as erased, because programming it again completes *)
(* it.  A record that is cut short does not pass its CRC.                  *)
(***************************************************************************)
EXTENDS Naturals, FiniteSetsExt

CONSTANTS
  Clients,     \* the lease keys of the clients
  NoClient,    \* the key of a slot that was never given out (key_len 0), and of
               \* a client whose option 61 is empty
  Size,        \* addresses from start_addr to end_addr
  LeaseTime, OfferTime, DeclineTime,  \* lifetimes in seconds (3600, 60, 300)
  UptimeMod,   \* sys_uptime() / 1000 counts modulo this (2^32 / 1000)
  WordMod,     \* a uint32_t counts modulo this (2^32)
  MaxJournal,  \* bound on the entries of the journal (in the code there is none)
  MaxCrashes,  \* bound on power failures
  CrashIn,     \* the phases of the server in which power may fail
  Messages     \* the messages the clients send

Slots == 1..Size
Phases == {"boot", "erase", "header", "compact", "serve"}
LeaseStates == {"FREE", "OFFERED", "BOUND", "DECLINED"}

ASSUME TimesAssumption ==
  /\ {LeaseTime, OfferTime, DeclineTime, UptimeMod} \subseteq Nat \ {0}
  /\ WordMod \in Nat
  /\ \A d \in {LeaseTime, OfferTime, DeclineTime} : 2 * (UptimeMod + d) <= WordMod
ASSUME TableAssumption ==
  /\ Size \in Nat \ {0} /\ {MaxJournal, MaxCrashes} \subseteq Nat
  /\ Size <= MaxJournal
ASSUME InputsAssumption ==
  /\ CrashIn \subseteq Phases
  /\ Messages \subseteq {"DISCOVER", "REQUEST", "DECLINE", "RELEASE"}

VARIABLES
  slots,       \* lease_table.slots, in memory
  now,         \* sys_uptime() / 1000
  phase,       \* where dhcp_task is: setup_lease_table, or its loop
  next_slot,   \* the loop variable of journal_compact
  writing,     \* the record flash_append_journal is programming, if any
  reply,       \* the acknowledgement to be sent after it, if any
  header,      \* whether the sector starts with this table's header
  journal,     \* the 32-byte entries of the sector behind the header
  write_pointer, \* entries in front of flash_sector_write_pointer
  crashes,     \* power failures so far
  \* What the clients were told: how many seconds client k may still count on
  \* the offer, or on the lease, of slot a.
  offered, leased,
  fromFree     \* <<k, a>> while what client k was last offered of slot a is an
               \* offer that chose_address made because a is FREE and has its key

serverVars == <<slots, phase, next_slot, writing, reply, write_pointer>>
flashVars == <<header, journal>>
clientVars == <<offered, leased, fromFree>>
vars == <<serverVars, flashVars, clientVars, now, crashes>>

-----------------------------------------------------------------------------
(* The table.                                                              *)

FreeSlot == [state |-> "FREE", key |-> NoClient, expires_at |-> 0]
NoPromise == [k \in Clients |-> [a \in Slots |-> 0]]

\* (int32_t)(now_seconds - expires_at) < 0
Before(t, e) == 2 * ((t + WordMod - e) % WordMod) >= WordMod

\* Mutant of SlotAlive: only bound slots are kept.
SlotBound(slot) == slot.state = "BOUND" /\ Before(now, slot.expires_at)

\* slot_alive
SlotAlive(slot) == slot.state # "FREE" /\ Before(now, slot.expires_at)

\* chose_address: the slots that carry the client's key, and those that may
\* be given to anybody.
Found(tab, k) == {a \in Slots : tab[a].key = k /\ tab[a].state # "DECLINED"}
Available(tab) == {a \in Slots : ~SlotAlive(tab[a])}

\* dhcp_build_offer_args on the table tab, and the OFFER that dhcp_task sends;
\* off is what was offered so far.  The slot with the client's key keeps its
\* state, so that a slot which the client has released stays FREE.
Offer(tab, k, off) ==
  IF Found(tab, k) # {}
  THEN LET a == Min(Found(tab, k)) IN
       /\ slots' = [tab EXCEPT ![a].expires_at = now + LeaseTime]
       /\ offered' = [off EXCEPT ![k][a] = OfferTime]
       /\ fromFree' = IF tab[a].state = "FREE" THEN fromFree \cup {<<k, a>>}
                      ELSE fromFree \ {<<k, a>>}
  ELSE IF Available(tab) # {}
  THEN LET a == Min(Available(tab)) IN
       /\ slots' = [tab EXCEPT ![a] = [state |-> "OFFERED", key |-> k,
                                       expires_at |-> now + OfferTime]]
       /\ offered' = [off EXCEPT ![k][a] = OfferTime]
       /\ fromFree' = fromFree \ {<<k, a>>}
  ELSE slots' = tab /\ offered' = off /\ fromFree' = fromFree

-----------------------------------------------------------------------------
(* The journal.                                                            *)

Erased == [kind |-> "erased"]
Torn == [kind |-> "torn"]

\* Mutant of Record: the address is taken one too low.
RecordBelow(a, slot) ==
  [kind |-> "whole", slot |-> a - 1, state |-> slot.state, key |-> slot.key,
   expires_at |-> slot.expires_at]

\* serialize_record
Record(a, slot) ==
  [kind |-> "whole", slot |-> a, state |-> slot.state, key |-> slot.key,
   expires_at |-> slot.expires_at]

Positions == 1..MaxJournal

\* How many entries load_lease_table reads before one without the magic.
Entries ==
  Cardinality({i \in Positions : \A j \in 1..i : journal[j].kind # "erased"})

\* The entries among them that pass the CRC and are about slot a.
RecordsOf(a) ==
  {i \in 1..Entries : journal[i].kind = "whole" /\ journal[i].slot = a}

\* The slot the loop of load_lease_table leaves: the last record wins.
Loaded(a) ==
  IF RecordsOf(a) = {} THEN FreeSlot
  ELSE LET r == journal[Max(RecordsOf(a))] IN
       [state |-> r.state, key |-> r.key, expires_at |-> r.expires_at]

\* Mutant of WriteAfterLoad: the pointer is not moved back over the entry
\* that ended the loop.
WriteAfterReads == Entries + 1

\* flash_journal_set_write_pointer(-8), in entries.
WriteAfterLoad == Entries

\* load_lease_table, and the test of should_compact in setup_lease_table.
LoadLeaseTable ==
  /\ phase = "boot"
  /\ slots' = [a \in Slots |-> IF header THEN Loaded(a) ELSE FreeSlot]
  /\ write_pointer' = IF header THEN WriteAfterLoad ELSE write_pointer
  /\ phase' = IF ~header \/ \E i \in 1..Entries : journal[i].kind = "torn"
              THEN "erase" ELSE "serve"
  /\ UNCHANGED <<next_slot, writing, reply, flashVars, clientVars, now, crashes>>

\* journal_compact: the sector is erased, ...
EraseSector ==
  /\ phase = "erase"
  /\ write_pointer' = 0
  /\ header' = FALSE
  /\ journal' = [i \in Positions |-> Erased]
  /\ phase' = "header"
  /\ UNCHANGED <<slots, next_slot, writing, reply, clientVars, now, crashes>>

\* ... the header is programmed, ...
ProgramHeader ==
  /\ phase = "header"
  /\ header' = TRUE
  /\ next_slot' = 1
  /\ phase' = "compact"
  /\ UNCHANGED <<slots, writing, reply, journal, write_pointer, clientVars,
                 now, crashes>>

\* ... and a record of every slot that is not FREE.
CompactSlot ==
  /\ phase = "compact" /\ writing = <<>> /\ next_slot <= Size
  /\ writing' = IF slots[next_slot].state = "FREE" THEN <<>>
                ELSE <<Record(next_slot, slots[next_slot])>>
  /\ next_slot' = next_slot + 1
  /\ UNCHANGED <<slots, phase, reply, write_pointer, flashVars, clientVars,
                 now, crashes>>

CompactDone ==
  /\ phase = "compact" /\ writing = <<>> /\ next_slot > Size
  /\ phase' = "serve"
  /\ UNCHANGED <<slots, next_slot, writing, reply, write_pointer, flashVars,
                 clientVars, now, crashes>>

\* flash_append_journal programs the first words, which hold the magic, ...
BeginRecord ==
  /\ writing # <<>> /\ journal[write_pointer + 1].kind = "erased"
  /\ journal' = [journal EXCEPT ![write_pointer + 1] = Torn]
  /\ UNCHANGED <<serverVars, header, clientVars, now, crashes>>

\* ... and the last one, which holds the CRC.
EndRecord ==
  /\ writing # <<>> /\ journal[write_pointer + 1].kind = "torn"
  /\ journal' = [journal EXCEPT ![write_pointer + 1] = writing[1]]
  /\ write_pointer' = write_pointer + 1
  /\ writing' = <<>>
  /\ UNCHANGED <<slots, phase, next_slot, reply, header, clientVars, now, crashes>>

-----------------------------------------------------------------------------
(* The messages.                                                           *)

Receives(type) ==
  /\ type \in Messages
  /\ phase = "serve" /\ writing = <<>> /\ reply = <<>>

\* The bound of the model: the code appends wherever the pointer stands.
Room == write_pointer < MaxJournal

Discover(k) ==
  /\ Receives("DISCOVER")
  /\ Offer(slots, k, offered)
  /\ UNCHANGED <<phase, next_slot, writing, reply, write_pointer, flashVars,
                 leased, now, crashes>>

\* Mutant of Request: the key is not compared.
RequestAnyKey(k, a) ==
  LET bound == [state |-> "BOUND", key |-> k, expires_at |-> now + LeaseTime] IN
  /\ Receives("REQUEST")
  /\ SlotAlive(slots[a])
  /\ Room
  /\ slots' = [slots EXCEPT ![a] = bound]
  /\ writing' = <<Record(a, bound)>>
  /\ reply' = <<[client |-> k, slot |-> a, left |-> LeaseTime]>>
  /\ UNCHANGED <<phase, next_slot, write_pointer, flashVars, clientVars, now,
                 crashes>>

\* dhcp_handle_request: the record is programmed before the ACK is sent.  A
\* client that is refused hears nothing.
Request(k, a) ==
  LET bound == [state |-> "BOUND", key |-> k, expires_at |-> now + LeaseTime] IN
  /\ Receives("REQUEST")
  /\ SlotAlive(slots[a]) /\ slots[a].key = k
  /\ Room
  /\ slots' = [slots EXCEPT ![a] = bound]
  /\ writing' = <<Record(a, bound)>>
  /\ reply' = <<[client |-> k, slot |-> a, left |-> LeaseTime]>>
  /\ UNCHANGED <<phase, next_slot, write_pointer, flashVars, clientVars, now,
                 crashes>>

\* Mutant of SendAck: the ACK leaves before its record is in flash.
SendAckEarly ==
  /\ reply # <<>>
  /\ reply' = <<>>
  /\ \/ leased' = [leased EXCEPT ![reply[1].client][reply[1].slot] = reply[1].left]
     \/ UNCHANGED leased
  /\ UNCHANGED <<slots, phase, next_slot, writing, write_pointer, flashVars,
                 offered, fromFree, now, crashes>>

\* sys_net_send; the ACK arrives or is lost.  The client counts the lease
\* from its request.
SendAck ==
  /\ writing = <<>> /\ reply # <<>>
  /\ reply' = <<>>
  /\ \/ leased' = [leased EXCEPT ![reply[1].client][reply[1].slot] = reply[1].left]
     \/ UNCHANGED leased
  /\ UNCHANGED <<slots, phase, next_slot, writing, write_pointer, flashVars,
                 offered, fromFree, now, crashes>>

\* dhcp_handle_decline on the client's own slot, then a new offer.  For any
\* other slot DECLINE is the same as DISCOVER.
Decline(k, a) ==
  /\ Receives("DECLINE")
  /\ slots[a].key = k
  /\ Offer([slots EXCEPT ![a].state = "DECLINED",
                         ![a].expires_at = now + DeclineTime],
           k, [offered EXCEPT ![k][a] = 0])
  /\ leased' = [leased EXCEPT ![k][a] = 0]
  /\ UNCHANGED <<phase, next_slot, writing, reply, write_pointer, flashVars,
                 now, crashes>>

\* dhcp_handle_release: the key stays in the slot.
Release(k, a) ==
  LET freed == [slots[a] EXCEPT !.state = "FREE", !.expires_at = 0] IN
  /\ Receives("RELEASE")
  /\ slots[a].key = k
  /\ Room
  /\ slots' = [slots EXCEPT ![a] = freed]
  /\ writing' = <<Record(a, freed)>>
  /\ offered' = [offered EXCEPT ![k][a] = 0]
  /\ leased' = [leased EXCEPT ![k][a] = 0]
  /\ UNCHANGED <<phase, next_slot, reply, write_pointer, flashVars, fromFree,
                 now, crashes>>

-----------------------------------------------------------------------------
(* The environment.                                                        *)

Less(n) == IF n = 0 THEN 0 ELSE n - 1

\* A second passes, for the server and for the clients.
Second ==
  /\ now' = (now + 1) % UptimeMod
  /\ offered' = [k \in Clients |-> [a \in Slots |-> Less(offered[k][a])]]
  /\ leased' = [k \in Clients |-> [a \in Slots |-> Less(leased[k][a])]]
  /\ fromFree' = {p \in fromFree : offered[p[1]][p[2]] > 1}
  /\ reply' = IF reply = <<>> THEN <<>>
              ELSE <<[reply[1] EXCEPT !.left = Less(@)]>>
  /\ UNCHANGED <<slots, phase, next_slot, writing, write_pointer, flashVars,
                 crashes>>

\* Power fails and comes back: memory and uptime start again, the flash
\* stays.  Only what was acknowledged counts from here on.
Crash ==
  /\ crashes < MaxCrashes /\ phase \in CrashIn
  /\ crashes' = crashes + 1
  /\ slots' = [a \in Slots |-> FreeSlot]
  /\ now' = 0
  /\ phase' = "boot" /\ next_slot' = 1
  /\ writing' = <<>> /\ reply' = <<>> /\ write_pointer' = 0
  /\ offered' = NoPromise /\ fromFree' = {}
  /\ UNCHANGED <<flashVars, leased>>

Init ==
  /\ slots = [a \in Slots |-> FreeSlot]
  /\ now = 0
  /\ phase = "boot" /\ next_slot = 1
  /\ writing = <<>> /\ reply = <<>> /\ write_pointer = 0
  /\ header = FALSE
  /\ journal = [i \in Positions |-> Erased]
  /\ crashes = 0
  /\ offered = NoPromise /\ leased = NoPromise /\ fromFree = {}

Next ==
  \/ LoadLeaseTable
  \/ EraseSector \/ ProgramHeader \/ CompactSlot \/ CompactDone
  \/ BeginRecord \/ EndRecord
  \/ \E k \in Clients : \/ Discover(k)
                        \/ \E a \in Slots : Request(k, a) \/ Decline(k, a)
                                            \/ Release(k, a)
  \/ SendAck
  \/ Second
  \/ Crash

Spec == Init /\ [][Next]_vars

-----------------------------------------------------------------------------
(* Properties.                                                             *)

Times == 0..(UptimeMod - 1 + Max({LeaseTime, OfferTime, DeclineTime}))
Keys == Clients \cup {NoClient}
SlotType == [state : LeaseStates, key : Keys, expires_at : Times]
RecordType == [kind : {"whole"}, slot : Slots, state : LeaseStates,
               key : Keys, expires_at : Times]
ReplyType == [client : Clients, slot : Slots, left : 0..LeaseTime]

\* The fields of the table, of the journal and of the task hold values of
\* their C types; a record names an address of the table, and no time is so
\* far ahead that the signed comparison of slot_alive would misread it.
TypeOK ==
  /\ slots \in [Slots -> SlotType]
  /\ now \in 0..(UptimeMod - 1)
  /\ phase \in Phases /\ next_slot \in 1..(Size + 1)
  /\ \/ writing = <<>>
     \/ \E r \in RecordType : writing = <<r>>
  /\ \/ reply = <<>>
     \/ \E r \in ReplyType : reply = <<r>>
  /\ header \in BOOLEAN
  /\ journal \in [Positions -> {Erased, Torn} \cup RecordType]
  /\ write_pointer \in Nat
  /\ crashes \in 0..MaxCrashes
  /\ offered \in [Clients -> [Slots -> 0..OfferTime]]
  /\ leased \in [Clients -> [Slots -> 0..LeaseTime]]
  /\ fromFree \subseteq Clients \X Slots

\* A lease that was acknowledged is in the table of a server that serves, for
\* as long as its client counts on it, also after power failures (in a phase
\* of CrashIn): no offer, refusal, torn record or reload drops it or gives it
\* away (dhcp_handle_request, load_lease_table).
LeasesSurvive ==
  phase = "serve" => \A k \in Clients, a \in Slots :
    leased[k][a] > 0 => slots[a].key = k /\ SlotAlive(slots[a])

\* No two clients hold a lease of the same address at the same time, across
\* expiry, restart and reuse of the slot (dhcp_handle_request, chose_address).
OneClientPerAddress ==
  \A j, k \in Clients, a \in Slots :
    leased[j][a] > 0 /\ leased[k][a] > 0 => j = k

\* The slot is held for client k: its REQUEST is answered.
Held(k, a) == slots[a].key = k /\ SlotAlive(slots[a])

\* Every address that was offered is held for its client during OfferTime, so
\* that its REQUEST is answered, whatever the clients send meanwhile.
\* chose_address breaks this when it finds the client's key in a FREE slot.
OffersHeld ==
  phase = "serve" => \A k \in Clients, a \in Slots : offered[k][a] > 0 => Held(k, a)

\* The same for all offers but those: an address offered from a slot that
\* chose_address reserves, or finds reserved, is held for its client.  An offer
\* made to a client from a FREE slot by its key is the exception.
ReservedOffersHeld ==
  phase = "serve" => \A k \in Clients, a \in Slots :
    offered[k][a] > 0 /\ <<k, a>> \notin fromFree => Held(k, a)

\* An address in quarantine is given to no other client before that ends.
\* (The client that declined it may still request or release it.)
QuarantineKept ==
  [][\A a \in Slots :
       /\ slots[a].state = "DECLINED" /\ SlotAlive(slots[a])
       /\ phase' = "serve"
       => slots'[a].key = slots[a].key]_vars
=============================================================================
