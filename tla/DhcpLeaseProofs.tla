-------------------------- MODULE DhcpLeaseProofs ---------------------------
(***************************************************************************)
(* Theorems about DhcpLease, for every number of clients and addresses,    *)
(* all lifetimes, journals of every length and any number of power         *)
(* failures.                                                               *)
(***************************************************************************)
EXTENDS DhcpLease, FiniteSetTheorems, WellFoundedInduction, TLAPS

-----------------------------------------------------------------------------
(* The inductive invariant.                                                *)

\* The journal is whole records, then at most one that was cut short, then
\* erased flash; while the server writes, its pointer is behind the last
\* whole record.
Shape ==
  /\ \A i, j \in Positions :
       i < j /\ journal[j].kind # "erased" => journal[i].kind = "whole"
  /\ phase \in {"header", "compact", "serve"} => \A i \in Positions :
       /\ i <= write_pointer => journal[i].kind = "whole"
       /\ i > write_pointer => journal[i].kind # "whole"

\* What the phases say of the other variables.  A record that is being
\* written has room, and a record that is cut short is being written.
Flow ==
  /\ phase = "boot" => slots = [a \in Slots |-> FreeSlot]
  /\ phase \in {"compact", "serve"} => header
  /\ phase = "header" => write_pointer = 0
  /\ phase = "compact" => write_pointer < next_slot
  /\ phase = "compact" /\ writing # <<>> => write_pointer + 1 < next_slot
  /\ writing # <<>> => phase \in {"compact", "serve"} /\ write_pointer < MaxJournal
  /\ phase \in {"header", "compact", "serve"} /\ writing = <<>> =>
       \A i \in Positions : journal[i].kind # "torn"
  /\ reply # <<>> => phase = "serve"

\* The part that holds wherever power fails.
Base == TypeOK /\ Shape /\ Flow

\* Entry i is the last word of the journal on slot a.
Last(a, i) ==
  /\ journal[i].kind = "whole" /\ journal[i].slot = a
  /\ \A j \in Positions : j > i /\ journal[j].kind = "whole" => journal[j].slot # a

\* Slot or record r is client k's for another left seconds.
Fits(r, k, left) == r.key = k /\ r.state # "FREE" /\ now + left <= r.expires_at

OnFlash(k, a, left) == \E i \in Positions : Last(a, i) /\ Fits(journal[i], k, left)

\* A lease is in the table, ...
InTable ==
  phase # "boot" => \A k \in Clients, a \in Slots :
    leased[k][a] > 0 => Fits(slots[a], k, leased[k][a])

\* ... it is the last word of the flash whenever power may fail, ...
InFlash ==
  phase \in {"boot", "erase", "serve"} => \A k \in Clients, a \in Slots :
    leased[k][a] > 0 => header /\ OnFlash(k, a, leased[k][a])

\* ... and it is back there once the compaction has passed its slot.
Compacting ==
  phase = "compact" => \A k \in Clients, a \in Slots :
    a < next_slot /\ leased[k][a] > 0 =>
      OnFlash(k, a, leased[k][a]) \/ (writing # <<>> /\ writing[1].slot = a)

\* The record being written keeps the leases of its slot.
InWriting ==
  writing # <<>> => \A k \in Clients, a \in Slots :
    a = writing[1].slot /\ leased[k][a] > 0 => Fits(writing[1], k, leased[k][a])

\* The lease that is about to be acknowledged is in the table, and in flash
\* or on its way there.
InReply ==
  reply # <<>> => \A k \in Clients, a \in Slots, l \in Nat :
    k = reply[1].client /\ a = reply[1].slot /\ l = reply[1].left =>
      /\ writing # <<>> => writing[1].slot = a
      /\ l > 0 => Fits(slots[a], k, l)
      /\ l > 0 /\ writing = <<>> => OnFlash(k, a, l)
      /\ l > 0 /\ writing # <<>> => Fits(writing[1], k, l)

Durable == InTable /\ InFlash /\ Compacting /\ InWriting /\ InReply

\* An offer is in the table, unless it was made from a FREE slot.
InOffer ==
  \A k \in Clients, a \in Slots :
    offered[k][a] > 0 /\ <<k, a>> \notin fromFree =>
      phase = "serve" /\ Fits(slots[a], k, offered[k][a])

-----------------------------------------------------------------------------
(* Numbers.                                                                *)

\* A non-empty set of naturals has a least element.
LEMMA LeastExists ==
  ASSUME NEW S \in SUBSET Nat, S # {}
  PROVE  \E x \in S : \A y \in S : x <= y
<1> DEFINE R == {p \in Nat \X Nat : p[1] < p[2]}
<1>1. IsWellFoundedOn(R, Nat)
  BY NatLessThanWellFounded DEF OpToRel
<1> HIDE DEF R
<1>2. PICK x \in S : \A y \in S : ~(<<y, x>> \in R)
  BY <1>1, WFMin
<1>3. \A y \in S : ~(y < x)
  BY <1>2 DEF R
<1> QED
  BY <1>3

\* What chose_address finds first is one of the slots it looks for.
LEMMA MinMember ==
  ASSUME NEW S \in SUBSET Nat, S # {}
  PROVE  Min(S) \in S
<1>1. \E x \in S : \A y \in S : x <= y
  BY LeastExists
<1> QED
  BY <1>1 DEF Min

\* The last of finitely many entries of the journal.
LEMMA MaxMember ==
  ASSUME NEW n \in Nat, NEW S \in SUBSET (0..n), S # {}
  PROVE  Max(S) \in S /\ \A y \in S : y <= Max(S)
<1> DEFINE T == {n - x : x \in S}
<1>1. T \in SUBSET Nat /\ T # {}
  OBVIOUS
<1> HIDE DEF T
<1>2. PICK t \in T : \A u \in T : t <= u
  BY <1>1, LeastExists
<1>3. PICK x \in S : t = n - x
  BY <1>2 DEF T
<1>4. \A y \in S : x >= y
  <2> SUFFICES ASSUME NEW y \in S PROVE x >= y
    OBVIOUS
  <2>1. n - y \in T
    BY DEF T
  <2>2. n - x <= n - y
    BY <1>2, <1>3, <2>1
  <2> QED
    BY <2>2
<1>5. \E z \in S : \A y \in S : z >= y
  BY <1>3, <1>4
<1>6. Max(S) \in S /\ \A y \in S : Max(S) >= y
  BY <1>5 DEF Max
<1> QED
  BY <1>6

\* Sums of the uptime and a lifetime are times, and times are so small that
\* their differences do not reach half the range of a word.
LEMMA TimesBound ==
  /\ \A t \in Times : t \in Nat /\ 2 * t <= WordMod
  /\ 0 \in Times
  /\ \A t \in 0..(UptimeMod - 1), d \in {LeaseTime, OfferTime, DeclineTime} :
       t + d \in Times
<1> DEFINE L == {LeaseTime, OfferTime, DeclineTime}
<1>1. LeaseTime \in Nat /\ OfferTime \in Nat /\ DeclineTime \in Nat
      /\ UptimeMod \in Nat \ {0} /\ WordMod \in Nat
  BY TimesAssumption
<1>2. L \in SUBSET (0..(LeaseTime + OfferTime + DeclineTime)) /\ L # {}
  BY <1>1
<1>3. LeaseTime + OfferTime + DeclineTime \in Nat
  BY <1>1
<1> HIDE DEF L
<1>4. Max(L) \in L /\ \A y \in L : y <= Max(L)
  BY <1>2, <1>3, MaxMember
<1>5. PICK m \in L : m = Max(L) /\ \A y \in L : y <= m
  BY <1>4
<1>6. Times = 0..(UptimeMod - 1 + m)
  BY <1>5 DEF Times, L
<1>7. m \in Nat /\ 2 * (UptimeMod + m) <= WordMod
  BY <1>1, TimesAssumption DEF L
<1>8. LeaseTime <= m /\ OfferTime <= m /\ DeclineTime <= m
  BY <1>5 DEF L
<1> QED
  BY <1>1, <1>6, <1>7, <1>8

\* A time ahead of the clock by less than half the range of a word.
LEMMA AheadIsBefore ==
  ASSUME NEW W \in Nat, NEW t \in Nat, NEW e \in Nat, t < e, 2 * e <= W
  PROVE  2 * ((t + W - e) % W) >= W
<1>1. PICK x \in Nat : x = t + W - e
  OBVIOUS
<1>2. x < W /\ 2 * x >= W
  BY <1>1
<1>3. x % W = x
  BY <1>2
<1> QED
  BY <1>1, <1>2, <1>3

\* slot_alive holds of a slot that is some client's for another second.
LEMMA FitsAlive ==
  ASSUME TypeOK, NEW s \in SlotType, NEW k, NEW l \in Nat \ {0}, Fits(s, k, l)
  PROVE  SlotAlive(s)
<1>1. s.expires_at \in Times
  BY DEF SlotType
<1>2. s.expires_at \in Nat /\ 2 * s.expires_at <= WordMod
  BY <1>1, TimesBound
<1>3. now \in Nat /\ now < s.expires_at /\ WordMod \in Nat
  <2>1. UptimeMod \in Nat /\ WordMod \in Nat
    BY TimesAssumption
  <2>2. now \in 0..(UptimeMod - 1)
    BY DEF TypeOK
  <2>3. now \in Nat
    BY <2>1, <2>2
  <2>4. now + l <= s.expires_at
    BY DEF Fits
  <2>5. PICK n \in Nat, e \in Nat : n = now /\ e = s.expires_at
    BY <1>2, <2>3
  <2>6. n < e
    BY <2>4, <2>5
  <2> QED
    BY <2>1, <2>5, <2>6
<1>4. 2 * ((now + WordMod - s.expires_at) % WordMod) >= WordMod
  BY <1>2, <1>3, AheadIsBefore
<1> QED
  BY <1>4 DEF SlotAlive, Before, Fits

-----------------------------------------------------------------------------
(* Reading the journal.                                                    *)

\* The three kinds of entry, and which of them are records.
LEMMA Kinds ==
  ASSUME NEW e \in {Erased, Torn} \cup RecordType
  PROVE  /\ e.kind \in {"erased", "torn", "whole"}
         /\ e.kind = "whole" <=> e \in RecordType
  BY DEF Erased, Torn, RecordType

\* load_lease_table reads up to the first erased entry.
LEMMA EntriesRead ==
  ASSUME TypeOK, Shape
  PROVE  /\ Entries \in 0..MaxJournal
         /\ \A i \in Positions : i <= Entries <=> journal[i].kind # "erased"
<1> DEFINE S == {i \in Positions : \A j \in 1..i : journal[j].kind # "erased"}
           G == {i \in Nat \ {0} : i > MaxJournal \/ journal[i].kind = "erased"}
<1>1. MaxJournal \in Nat
  BY TableAssumption
<1>2. MaxJournal + 1 \in G /\ G \in SUBSET Nat
  BY <1>1
<1>3. PICK g \in G : \A y \in G : g <= y
  <2> HIDE DEF G
  <2> QED
    BY <1>2, LeastExists
<1>4. g \in Nat \ {0} /\ g <= MaxJournal + 1
  BY <1>2, <1>3
<1>5. \A i \in Positions : i < g => journal[i].kind # "erased"
  BY <1>1, <1>3 DEF Positions
<1>6. g \in Positions => journal[g].kind = "erased"
  BY <1>1, <1>3 DEF Positions
<1>7. \A i \in Positions : i >= g => journal[i].kind = "erased"
  <2> SUFFICES ASSUME NEW i \in Positions, i >= g, journal[i].kind # "erased"
               PROVE  FALSE
    OBVIOUS
  <2>1. g \in Positions
    BY <1>1, <1>4 DEF Positions
  <2>2. g # i
    BY <1>6, <2>1
  <2>3. journal[g].kind = "whole"
    BY <1>1, <1>4, <2>1, <2>2 DEF Shape, Positions
  <2> QED
    BY <1>6, <2>1, <2>3
<1>8. S = 1..(g - 1)
  BY <1>1, <1>4, <1>5, <1>6 DEF Positions
<1>9. Cardinality(1..(g - 1)) = g - 1
  BY <1>4, FS_Interval
<1>10. Entries = g - 1
  BY <1>8, <1>9 DEF Entries
<1> QED
  BY <1>1, <1>4, <1>5, <1>7, <1>10 DEF Positions

\* The records that were read about a slot are whole and typed.
LEMMA RecordsTyped ==
  ASSUME TypeOK, Shape, NEW a \in Slots
  PROVE  /\ RecordsOf(a) \in SUBSET (0..MaxJournal)
         /\ RecordsOf(a) = {i \in Positions : journal[i].kind = "whole"
                                              /\ journal[i].slot = a}
         /\ \A i \in RecordsOf(a) : i \in Positions /\ journal[i] \in RecordType
<1>1. MaxJournal \in Nat
  BY TableAssumption
<1>2. /\ Entries \in 0..MaxJournal
      /\ \A i \in Positions : i <= Entries <=> journal[i].kind # "erased"
  BY EntriesRead
<1>3. \A i \in Positions : journal[i] \in {Erased, Torn} \cup RecordType
  BY DEF TypeOK
<1>4. \A i \in Positions : journal[i].kind = "whole" => journal[i] \in RecordType
  BY <1>3, Kinds
<1>5. 1..Entries \subseteq Positions
  BY <1>1, <1>2 DEF Positions
<1>6. RecordsOf(a) = {i \in Positions : journal[i].kind = "whole" /\ journal[i].slot = a}
  BY <1>1, <1>2, <1>5 DEF RecordsOf, Positions
<1> QED
  BY <1>1, <1>4, <1>6 DEF Positions

\* The slot that load_lease_table leaves is typed.
LEMMA LoadedType ==
  ASSUME TypeOK, Shape, NEW a \in Slots
  PROVE  Loaded(a) \in SlotType
<1>1. CASE RecordsOf(a) = {}
  BY <1>1, TimesBound DEF Loaded, FreeSlot, SlotType, LeaseStates, Keys
<1>2. CASE RecordsOf(a) # {}
  <2>1. MaxJournal \in Nat
    BY TableAssumption
  <2>2. RecordsOf(a) \in SUBSET (0..MaxJournal)
    BY RecordsTyped
  <2>3. Max(RecordsOf(a)) \in RecordsOf(a)
    BY <1>2, <2>1, <2>2, MaxMember
  <2>4. PICK i \in RecordsOf(a) : i = Max(RecordsOf(a))
    BY <2>3
  <2>5. journal[i] \in RecordType
    BY RecordsTyped
  <2>6. Loaded(a) = [state |-> journal[i].state, key |-> journal[i].key,
                     expires_at |-> journal[i].expires_at]
    BY <1>2, <2>4 DEF Loaded
  <2> QED
    BY <2>5, <2>6 DEF RecordType, SlotType
<1> QED
  BY <1>1, <1>2

\* What the flash says last of a slot is what load_lease_table leaves there.
LEMMA LoadedLast ==
  ASSUME TypeOK, Shape, NEW a \in Slots, NEW i \in Positions, Last(a, i)
  PROVE  Loaded(a) = [state |-> journal[i].state, key |-> journal[i].key,
                      expires_at |-> journal[i].expires_at]
<1>1. MaxJournal \in Nat
  BY TableAssumption
<1>2. /\ RecordsOf(a) \in SUBSET (0..MaxJournal)
      /\ RecordsOf(a) = {j \in Positions : journal[j].kind = "whole"
                                           /\ journal[j].slot = a}
  BY RecordsTyped
<1>3. i \in RecordsOf(a)
  BY <1>2 DEF Last
<1>4. Max(RecordsOf(a)) \in RecordsOf(a) /\ \A y \in RecordsOf(a) : y <= Max(RecordsOf(a))
  BY <1>1, <1>2, <1>3, MaxMember
<1>5. PICK m \in RecordsOf(a) : m = Max(RecordsOf(a)) /\ i <= m
  BY <1>3, <1>4
<1>6. m \in Positions /\ journal[m].kind = "whole" /\ journal[m].slot = a
  BY <1>2, <1>5
<1>7. m = i
  BY <1>1, <1>5, <1>6 DEF Last, Positions
<1>8. RecordsOf(a) # {}
  BY <1>3
<1> QED
  BY <1>5, <1>7, <1>8 DEF Loaded

-----------------------------------------------------------------------------
(* Offers and the other changes of the table.                              *)

\* The entry of slot a after dhcp_build_offer_args for client k on table tab.
OfferedSlot(tab, k, a) ==
  \/ slots'[a] = tab[a]
  \/ /\ tab[a].key = k /\ tab[a].state # "DECLINED"
     /\ slots'[a].key = k /\ slots'[a].state = tab[a].state
     /\ slots'[a].expires_at = now + LeaseTime
  \/ /\ ~SlotAlive(tab[a])
     /\ slots'[a].key = k /\ slots'[a].state = "OFFERED"
     /\ slots'[a].expires_at = now + OfferTime

\* What was offered of slot a to client j, and how.
OfferedPromise(k, off, j, a) ==
  \/ /\ offered'[j][a] = off[j][a]
     /\ <<j, a>> \in fromFree' <=> <<j, a>> \in fromFree
  \/ /\ j = k /\ offered'[j][a] = OfferTime
     /\ slots'[a].key = k
     /\ slots'[a].expires_at \in {now + LeaseTime, now + OfferTime}
     /\ <<j, a>> \in fromFree' <=> slots'[a].state = "FREE"

Promises(n) == [Clients -> [Slots -> 0..n]]

\* dhcp_build_offer_args extends the client's own slot or takes one that is
\* not alive; the other slots stay as they are.
LEMMA OfferEffect ==
  ASSUME now \in 0..(UptimeMod - 1), NEW tab \in [Slots -> SlotType],
         NEW k \in Clients, NEW off \in Promises(OfferTime), Offer(tab, k, off),
         fromFree \in SUBSET (Clients \X Slots)
  PROVE  /\ slots' \in [Slots -> SlotType]
         /\ offered' \in Promises(OfferTime)
         /\ fromFree' \in SUBSET (Clients \X Slots)
         /\ \A a \in Slots : OfferedSlot(tab, k, a)
         /\ \A j \in Clients, a \in Slots : OfferedPromise(k, off, j, a)
<1>1. Size \in Nat /\ OfferTime \in Nat /\ OfferTime > 0
  BY TableAssumption, TimesAssumption
<1>2. now + LeaseTime \in Times /\ now + OfferTime \in Times
  BY TimesBound
<1>3. CASE Found(tab, k) # {}
  <2>1. Found(tab, k) \in SUBSET Nat
    BY <1>1 DEF Found, Slots
  <2>2. Min(Found(tab, k)) \in Found(tab, k)
    BY <1>3, <2>1, MinMember
  <2>3. PICK a \in Found(tab, k) : a = Min(Found(tab, k))
    BY <2>2
  <2>4. a \in Slots /\ tab[a].key = k /\ tab[a].state # "DECLINED"
    BY <2>3 DEF Found
  <2>5. /\ slots' = [tab EXCEPT ![a].expires_at = now + LeaseTime]
        /\ offered' = [off EXCEPT ![k][a] = OfferTime]
        /\ fromFree' = IF tab[a].state = "FREE" THEN fromFree \cup {<<k, a>>}
                       ELSE fromFree \ {<<k, a>>}
    BY <1>3, <2>3 DEF Offer
  <2>6. slots' \in [Slots -> SlotType]
    BY <1>2, <2>4, <2>5 DEF SlotType
  <2>7. /\ slots'[a].key = k /\ slots'[a].state = tab[a].state
        /\ slots'[a].expires_at = now + LeaseTime
        /\ \A b \in Slots : b # a => slots'[b] = tab[b]
    BY <2>4, <2>5 DEF SlotType
  <2>8. offered' \in Promises(OfferTime)
    BY <1>1, <2>4, <2>5 DEF Promises
  <2>9. \A b \in Slots : OfferedSlot(tab, k, b)
    BY <2>4, <2>7 DEF OfferedSlot
  <2>10. ASSUME NEW j \in Clients, NEW b \in Slots
         PROVE  OfferedPromise(k, off, j, b)
    <3>1. /\ j = k /\ b = a => offered'[j][b] = OfferTime
          /\ ~(j = k /\ b = a) => offered'[j][b] = off[j][b]
      BY <2>4, <2>5 DEF Promises
    <3>2. /\ j = k /\ b = a => (<<j, b>> \in fromFree' <=> slots'[b].state = "FREE")
          /\ ~(j = k /\ b = a) => (<<j, b>> \in fromFree' <=> <<j, b>> \in fromFree)
      BY <2>4, <2>5, <2>7
    <3> QED
      BY <2>7, <3>1, <3>2 DEF OfferedPromise
  <2>11. fromFree' \in SUBSET (Clients \X Slots)
    BY <2>4, <2>5
  <2> QED
    BY <2>6, <2>8, <2>9, <2>10, <2>11
<1>4. CASE Found(tab, k) = {} /\ Available(tab) # {}
  <2>1. Available(tab) \in SUBSET Nat
    BY <1>1 DEF Available, Slots
  <2>2. Min(Available(tab)) \in Available(tab)
    BY <1>4, <2>1, MinMember
  <2>3. PICK a \in Available(tab) : a = Min(Available(tab))
    BY <2>2
  <2>4. a \in Slots /\ ~SlotAlive(tab[a])
    BY <2>3 DEF Available
  <2>5. /\ slots' = [tab EXCEPT ![a] = [state |-> "OFFERED", key |-> k,
                                        expires_at |-> now + OfferTime]]
        /\ offered' = [off EXCEPT ![k][a] = OfferTime]
        /\ fromFree' = fromFree \ {<<k, a>>}
    BY <1>4, <2>3 DEF Offer
  <2>6. slots' \in [Slots -> SlotType]
    BY <1>2, <2>4, <2>5 DEF SlotType, Keys, LeaseStates
  <2>7. /\ slots'[a].key = k /\ slots'[a].state = "OFFERED"
        /\ slots'[a].expires_at = now + OfferTime
        /\ \A b \in Slots : b # a => slots'[b] = tab[b]
    BY <2>4, <2>5
  <2>8. offered' \in Promises(OfferTime)
    BY <1>1, <2>4, <2>5 DEF Promises
  <2>9. \A b \in Slots : OfferedSlot(tab, k, b)
    BY <2>4, <2>7 DEF OfferedSlot
  <2>10. ASSUME NEW j \in Clients, NEW b \in Slots
         PROVE  OfferedPromise(k, off, j, b)
    <3>1. /\ j = k /\ b = a => offered'[j][b] = OfferTime
          /\ ~(j = k /\ b = a) => offered'[j][b] = off[j][b]
      BY <2>4, <2>5 DEF Promises
    <3>2. /\ j = k /\ b = a => (<<j, b>> \in fromFree' <=> slots'[b].state = "FREE")
          /\ ~(j = k /\ b = a) => (<<j, b>> \in fromFree' <=> <<j, b>> \in fromFree)
      BY <2>4, <2>5, <2>7
    <3> QED
      BY <2>7, <3>1, <3>2 DEF OfferedPromise
  <2>11. fromFree' \in SUBSET (Clients \X Slots)
    BY <2>4, <2>5
  <2> QED
    BY <2>6, <2>8, <2>9, <2>10, <2>11
<1>5. CASE Found(tab, k) = {} /\ Available(tab) = {}
  <2>1. slots' = tab /\ offered' = off /\ fromFree' = fromFree
    BY <1>5 DEF Offer
  <2> QED
    BY <2>1 DEF OfferedSlot, OfferedPromise
<1> QED
  BY <1>3, <1>4, <1>5

\* The slot that dhcp_handle_decline leaves.
Declined(s) == [state |-> "DECLINED", key |-> s.key, expires_at |-> now + DeclineTime]

\* The slot that dhcp_handle_release leaves.
Freed(s) == [state |-> "FREE", key |-> s.key, expires_at |-> 0]

\* Both fields of a slot change at once.
LEMMA TwoFields ==
  ASSUME NEW s \in SlotType, NEW x, NEW y
  PROVE  [s EXCEPT !.state = x, !.expires_at = y]
           = [state |-> x, key |-> s.key, expires_at |-> y]
<1>1. [s EXCEPT !.state = x, !.expires_at = y]
        = [[s EXCEPT !.state = x] EXCEPT !.expires_at = y]
  BY Zenon
<1>2. [s EXCEPT !.state = x]
        = [state |-> x, key |-> s.key, expires_at |-> s.expires_at]
  BY DEF SlotType
<1>3. [[s EXCEPT !.state = x] EXCEPT !.expires_at = y]
        = [[state |-> x, key |-> s.key, expires_at |-> s.expires_at]
             EXCEPT !.expires_at = y]
  BY <1>2, Zenon
<1> QED
  BY <1>1, <1>3

\* The same inside the table, as dhcp_handle_decline does it.
LEMMA TwoFieldsOfSlot ==
  ASSUME slots \in [Slots -> SlotType], NEW a \in Slots
  PROVE  [slots EXCEPT ![a].state = "DECLINED", ![a].expires_at = now + DeclineTime]
           = [slots EXCEPT ![a] = Declined(slots[a])]
<1>1. [slots EXCEPT ![a].state = "DECLINED", ![a].expires_at = now + DeclineTime]
        = [[slots EXCEPT ![a].state = "DECLINED"]
             EXCEPT ![a].expires_at = now + DeclineTime]
  BY Zenon
<1>2. [slots EXCEPT ![a].state = "DECLINED"]
        = [slots EXCEPT ![a] = [state |-> "DECLINED", key |-> slots[a].key,
                                expires_at |-> slots[a].expires_at]]
  <2>1. slots[a] \in SlotType
    OBVIOUS
  <2>2. [slots[a] EXCEPT !.state = "DECLINED"]
          = [state |-> "DECLINED", key |-> slots[a].key,
             expires_at |-> slots[a].expires_at]
    BY <2>1 DEF SlotType
  <2>3. [slots EXCEPT ![a].state = "DECLINED"]
          = [slots EXCEPT ![a] = [slots[a] EXCEPT !.state = "DECLINED"]]
    OBVIOUS
  <2> QED
    BY <2>2, <2>3, Zenon
<1>3. [[slots EXCEPT ![a].state = "DECLINED"]
         EXCEPT ![a].expires_at = now + DeclineTime]
        = [[slots EXCEPT ![a] = [state |-> "DECLINED", key |-> slots[a].key,
                                 expires_at |-> slots[a].expires_at]]
             EXCEPT ![a].expires_at = now + DeclineTime]
  BY <1>2, Zenon
<1> QED
  BY <1>1, <1>3 DEF Declined

-----------------------------------------------------------------------------
(* The part of the invariant that holds wherever power fails.              *)

\* The two optional values of the task: a record, and an acknowledgement.
LEMMA Optional ==
  ASSUME TypeOK
  PROVE  /\ writing # <<>> => writing[1] \in RecordType /\ writing = <<writing[1]>>
         /\ reply # <<>> => reply[1] \in ReplyType /\ reply = <<reply[1]>>
  BY DEF TypeOK

\* serialize_record of a typed slot.
LEMMA RecordTyped ==
  ASSUME NEW a \in Slots, NEW s \in SlotType
  PROVE  /\ Record(a, s) \in RecordType
         /\ <<Record(a, s)>> # <<>> /\ <<Record(a, s)>>[1] = Record(a, s)
         /\ Record(a, s).slot = a /\ Record(a, s).key = s.key
         /\ Record(a, s).state = s.state /\ Record(a, s).expires_at = s.expires_at
  BY DEF Record, RecordType, SlotType

\* The erased sector and the empty table that a new device starts with.
LEMMA BaseInit == Init => Base
<1> SUFFICES ASSUME Init PROVE Base
  OBVIOUS
<1>1. FreeSlot \in SlotType
  BY TimesBound DEF FreeSlot, SlotType, LeaseStates, Keys
<1>2. TypeOK
  <2>1. /\ now \in 0..(UptimeMod - 1) /\ next_slot \in 1..(Size + 1)
        /\ write_pointer \in Nat /\ crashes \in 0..MaxCrashes
    BY TimesAssumption, TableAssumption DEF Init
  <2>2. 0 \in 0..OfferTime /\ 0 \in 0..LeaseTime
    BY TimesAssumption
  <2>3. offered \in Promises(OfferTime) /\ leased \in Promises(LeaseTime)
    BY <2>2 DEF Init, NoPromise, Promises
  <2>4. slots \in [Slots -> SlotType]
    BY <1>1 DEF Init
  <2>5. journal \in [Positions -> {Erased, Torn} \cup RecordType]
    BY DEF Init
  <2> QED
    BY <2>1, <2>3, <2>4, <2>5 DEF Init, TypeOK, Phases, Promises
<1>3. \A i \in Positions : journal[i].kind = "erased"
  BY DEF Init, Erased
<1>4. Shape
  BY <1>3 DEF Shape, Init
<1>5. Flow
  BY DEF Flow, Init
<1> QED
  BY <1>2, <1>4, <1>5 DEF Base

\* setup_lease_table: the journal is read into the table.
LEMMA BaseLoad == Base /\ LoadLeaseTable => Base'
<1> SUFFICES ASSUME Base, LoadLeaseTable PROVE Base'
  OBVIOUS
<1> USE DEF Base
<1>1. FreeSlot \in SlotType
  BY TimesBound DEF FreeSlot, SlotType, LeaseStates, Keys
<1>2. \A a \in Slots : Loaded(a) \in SlotType
  BY LoadedType
<1>3. /\ Entries \in 0..MaxJournal
      /\ \A i \in Positions : i <= Entries <=> journal[i].kind # "erased"
  BY EntriesRead
<1>4. PICK n \in 0..MaxJournal : n = Entries
  BY <1>3
<1>5. /\ slots' = [a \in Slots |-> IF header THEN Loaded(a) ELSE FreeSlot]
      /\ write_pointer' = IF header THEN n ELSE write_pointer
      /\ phase = "boot"
      /\ phase' = IF ~header \/ \E i \in 1..n : journal[i].kind = "torn"
                  THEN "erase" ELSE "serve"
      /\ UNCHANGED <<next_slot, writing, reply, header, journal, offered, leased, fromFree,
                     now, crashes>>
  BY <1>4 DEF LoadLeaseTable, WriteAfterLoad, flashVars, clientVars
<1>6. slots' \in [Slots -> SlotType]
  BY <1>1, <1>2, <1>5
<1>7. TypeOK'
  BY <1>5, <1>6 DEF TypeOK, Phases
<1>8. \A i \in Positions : i \in Nat /\ i >= 1
  BY TableAssumption DEF Positions
<1>9. \A i \in Positions : journal[i].kind \in {"erased", "torn", "whole"}
  BY Kinds DEF TypeOK
<1>10. phase' = "serve" => header /\ \A i \in Positions : i <= n => journal[i].kind = "whole"
  BY <1>3, <1>4, <1>5, <1>8, <1>9
<1>11. Shape'
  BY <1>3, <1>4, <1>5, <1>8, <1>10 DEF Shape
<1>12. writing = <<>> /\ reply = <<>>
  BY <1>5 DEF Flow
<1>13. phase' = "serve" => \A i \in Positions : journal[i].kind # "torn"
  BY <1>3, <1>4, <1>10
<1>14. Flow'
  BY <1>5, <1>12, <1>10, <1>13 DEF Flow
<1> QED
  BY <1>7, <1>11, <1>14

\* journal_compact: erase, header, one record per slot in use, done.
LEMMA BaseCompact ==
  Base /\ (EraseSector \/ ProgramHeader \/ CompactSlot \/ CompactDone) => Base'
<1> SUFFICES ASSUME Base PROVE EraseSector \/ ProgramHeader \/ CompactSlot \/ CompactDone
                               => Base'
  OBVIOUS
<1> USE DEF Base
<1>1. ASSUME EraseSector PROVE Base'
  <2>1. \A i \in Positions : journal'[i].kind = "erased"
    BY <1>1 DEF EraseSector, Erased
  <2>2. TypeOK'
    <3>1. journal' \in [Positions -> {Erased, Torn} \cup RecordType]
      BY <1>1 DEF EraseSector
    <3>2. write_pointer' \in Nat
      BY <1>1 DEF EraseSector
    <3> QED
      BY <1>1, <3>1, <3>2 DEF EraseSector, clientVars, TypeOK, Phases
  <2>3. Shape'
    BY <1>1, <2>1 DEF EraseSector, Shape, Positions
  <2>4. Flow'
    BY <1>1, <2>1 DEF EraseSector, Flow
  <2> QED
    BY <2>2, <2>3, <2>4
<1>2. ASSUME ProgramHeader PROVE Base'
  <2>1. TypeOK'
    BY <1>2, TableAssumption DEF ProgramHeader, clientVars, TypeOK, Phases
  <2>2. Shape'
    BY <1>2 DEF ProgramHeader, Shape
  <2>3. Flow'
    BY <1>2 DEF ProgramHeader, Flow
  <2> QED
    BY <2>1, <2>2, <2>3
<1>3. ASSUME CompactSlot PROVE Base'
  <2>1. next_slot \in Slots
    BY <1>3, TableAssumption DEF CompactSlot, TypeOK, Slots
  <2>2. PICK a \in Slots : a = next_slot
    BY <2>1
  <2>3. slots[a] \in SlotType
    BY DEF TypeOK
  <2>4. /\ Record(a, slots[a]) \in RecordType
        /\ <<Record(a, slots[a])>> # <<>>
    BY <2>3, RecordTyped
  <2>5. PICK r \in RecordType : r = Record(a, slots[a])
    BY <2>4
  <2>6. /\ phase = "compact" /\ writing = <<>> /\ a <= Size
        /\ writing' \in {<<>>, <<r>>}
        /\ next_slot' = a + 1
        /\ UNCHANGED <<slots, phase, reply, write_pointer, header, journal,
                       offered, leased, fromFree, now, crashes>>
    BY <1>3, <2>2, <2>5 DEF CompactSlot, flashVars, clientVars
  <2>7. Size \in Nat /\ a \in Nat /\ write_pointer \in Nat /\ MaxJournal \in Nat
        /\ Size <= MaxJournal
    BY TableAssumption DEF Slots, TypeOK
  <2>8. TypeOK'
    BY <2>6, <2>7 DEF TypeOK, Slots
  <2>9. Shape'
    BY <2>6 DEF Shape
  <2>10. Flow'
    BY <2>2, <2>6, <2>7 DEF Flow
  <2> QED
    BY <2>8, <2>9, <2>10
<1>4. ASSUME CompactDone PROVE Base'
  <2>1. TypeOK'
    BY <1>4 DEF CompactDone, flashVars, clientVars, TypeOK, Phases
  <2>2. Shape'
    BY <1>4 DEF CompactDone, flashVars, Shape
  <2>3. Flow'
    BY <1>4 DEF CompactDone, flashVars, Flow
  <2> QED
    BY <2>1, <2>2, <2>3
<1> QED
  BY <1>1, <1>2, <1>3, <1>4

\* The two halves of flash_append_journal: the magic, then the CRC.
LEMMA BaseWrite == Base /\ (BeginRecord \/ EndRecord) => Base'
<1> SUFFICES ASSUME Base, BeginRecord \/ EndRecord PROVE Base'
  OBVIOUS
<1> USE DEF Base
<1>1. writing # <<>>
  BY DEF BeginRecord, EndRecord
<1>2. writing[1] \in RecordType /\ writing = <<writing[1]>>
  BY <1>1, Optional
<1>3. PICK r \in RecordType : writing = <<r>> /\ writing[1] = r
  BY <1>2
<1>4. phase \in {"compact", "serve"} /\ write_pointer < MaxJournal
  BY <1>1 DEF Flow
<1>5. MaxJournal \in Nat /\ write_pointer \in Nat
  BY TableAssumption DEF TypeOK
<1>6. write_pointer + 1 \in Positions
  BY <1>4, <1>5 DEF Positions
<1>7. PICK p \in Positions : p = write_pointer + 1
  BY <1>6
<1>8. \A i \in Positions : i \in Nat
  BY <1>5 DEF Positions
<1>9. \A i \in Positions : journal[i].kind \in {"erased", "torn", "whole"}
  BY Kinds DEF TypeOK
<1>10. \A i \in Positions : /\ i < p => journal[i].kind = "whole"
                            /\ i >= p => journal[i].kind # "whole"
  BY <1>4, <1>5, <1>7, <1>8 DEF Shape
<1>11. \A i \in Positions : i > p => journal[i].kind = "erased"
  BY <1>5, <1>7, <1>8, <1>10 DEF Shape
<1>12. Torn.kind = "torn" /\ r.kind = "whole"
  BY DEF Torn, RecordType
<1>13. CASE BeginRecord
  <2>1. /\ journal' = [journal EXCEPT ![p] = Torn]
        /\ UNCHANGED <<slots, phase, next_slot, writing, reply, write_pointer,
                       header, offered, leased, fromFree, now, crashes>>
    BY <1>13, <1>7 DEF BeginRecord, serverVars, clientVars
  <2>2. TypeOK'
    BY <2>1, <1>7 DEF TypeOK
  <2>3. \A i \in Positions :
          /\ i # p => journal'[i] = journal[i]
          /\ i = p => journal'[i].kind = "torn"
    BY <2>1, <1>12 DEF TypeOK
  <2>4. Shape'
    BY <2>1, <2>3, <1>5, <1>7, <1>8, <1>10, <1>11 DEF Shape
  <2>5. Flow'
    BY <2>1, <1>1 DEF Flow
  <2> QED
    BY <2>2, <2>4, <2>5
<1>14. CASE EndRecord
  <2>1. /\ journal' = [journal EXCEPT ![p] = r]
        /\ write_pointer' = p /\ writing' = <<>>
        /\ UNCHANGED <<slots, phase, next_slot, reply,
                       header, offered, leased, fromFree, now, crashes>>
    BY <1>14, <1>7, <1>3 DEF EndRecord, clientVars
  <2>2. p \in Nat
    BY <1>5 DEF Positions
  <2>3. TypeOK'
    BY <2>1, <2>2 DEF TypeOK
  <2>4. \A i \in Positions :
          /\ i # p => journal'[i] = journal[i]
          /\ i = p => journal'[i].kind = "whole"
    BY <2>1, <1>12 DEF TypeOK
  <2>5. Shape'
    BY <2>1, <2>4, <1>5, <1>7, <1>8, <1>10, <1>11 DEF Shape
  <2>6. \A i \in Positions : journal'[i].kind # "torn"
    BY <2>4, <1>8, <1>10, <1>11
  <2>7. Flow'
    BY <2>1, <2>6, <1>1, <1>4, <1>7 DEF Flow
  <2> QED
    BY <2>3, <2>5, <2>7
<1> QED
  BY <1>13, <1>14

\* dhcp_handle_discover as a whole.
LEMMA DiscoverEffect ==
  ASSUME TypeOK, NEW k \in Clients, Discover(k)
  PROVE  /\ slots' \in [Slots -> SlotType]
         /\ offered' \in Promises(OfferTime)
         /\ fromFree' \in SUBSET (Clients \X Slots)
         /\ \A b \in Slots : OfferedSlot(slots, k, b)
         /\ \A j \in Clients, b \in Slots : OfferedPromise(k, offered, j, b)
         /\ phase = "serve" /\ writing = <<>> /\ reply = <<>>
         /\ UNCHANGED <<phase, next_slot, writing, reply, write_pointer, header,
                        journal, leased, now, crashes>>
<1>1. /\ now \in 0..(UptimeMod - 1) /\ slots \in [Slots -> SlotType]
      /\ offered \in Promises(OfferTime) /\ Offer(slots, k, offered)
      /\ fromFree \in SUBSET (Clients \X Slots)
  BY DEF TypeOK, Promises, Discover
<1>2. /\ slots' \in [Slots -> SlotType]
      /\ offered' \in Promises(OfferTime)
      /\ fromFree' \in SUBSET (Clients \X Slots)
      /\ \A b \in Slots : OfferedSlot(slots, k, b)
      /\ \A j \in Clients, b \in Slots : OfferedPromise(k, offered, j, b)
  BY <1>1, OfferEffect
<1> QED
  BY <1>2 DEF Discover, Receives, flashVars

\* dhcp_handle_decline as a whole: the client has given the slot up, which
\* keeps its key.
LEMMA DeclineEffect ==
  ASSUME TypeOK, NEW k \in Clients, NEW a \in Slots, Decline(k, a)
  PROVE  /\ slots' \in [Slots -> SlotType]
         /\ offered' \in Promises(OfferTime)
         /\ leased' \in Promises(LeaseTime)
         /\ fromFree' \in SUBSET (Clients \X Slots)
         /\ slots[a].key = k /\ slots'[a].key = k /\ slots'[a].state # "FREE"
         /\ \A b \in Slots : b # a => OfferedSlot(slots, k, b)
         /\ \A j \in Clients, b \in Slots :
              OfferedPromise(k, [offered EXCEPT ![k][a] = 0], j, b)
         /\ leased' = [leased EXCEPT ![k][a] = 0]
         /\ phase = "serve" /\ writing = <<>> /\ reply = <<>>
         /\ UNCHANGED <<phase, next_slot, writing, reply, write_pointer, header,
                        journal, now, crashes>>
<1> DEFINE tab == [slots EXCEPT ![a] = Declined(slots[a])]
           off == [offered EXCEPT ![k][a] = 0]
<1>1. /\ now \in 0..(UptimeMod - 1) /\ slots \in [Slots -> SlotType]
      /\ offered \in Promises(OfferTime) /\ leased \in Promises(LeaseTime)
      /\ fromFree \in SUBSET (Clients \X Slots)
  BY DEF TypeOK, Promises
<1>2. now + DeclineTime \in Times
  BY <1>1, TimesBound
<1>3. tab \in [Slots -> SlotType]
  BY <1>1, <1>2 DEF Declined, SlotType, LeaseStates
<1>4. 0 \in 0..OfferTime /\ 0 \in 0..LeaseTime
  BY TimesAssumption
<1>5. off \in Promises(OfferTime)
  BY <1>1, <1>4 DEF Promises
<1>6. [slots EXCEPT ![a].state = "DECLINED", ![a].expires_at = now + DeclineTime]
        = tab
  BY <1>1, TwoFieldsOfSlot
<1>7. Offer([slots EXCEPT ![a].state = "DECLINED", ![a].expires_at = now + DeclineTime],
            k, off)
  BY DEF Decline
<1>8. /\ tab[a].key = slots[a].key /\ tab[a].state = "DECLINED"
      /\ \A b \in Slots : b # a => tab[b] = slots[b]
  BY <1>1 DEF Declined
<1> HIDE DEF tab
<1>9. Offer(tab, k, off)
  BY <1>6, <1>7, Zenon
<1> HIDE DEF off
<1>10. /\ slots' \in [Slots -> SlotType]
       /\ offered' \in Promises(OfferTime)
       /\ fromFree' \in SUBSET (Clients \X Slots)
       /\ \A b \in Slots : OfferedSlot(tab, k, b)
       /\ \A j \in Clients, b \in Slots : OfferedPromise(k, off, j, b)
  BY <1>1, <1>3, <1>5, <1>9, OfferEffect
<1>11. slots[a].key = k
  BY DEF Decline
<1>12. slots'[a].key = k /\ slots'[a].state # "FREE"
  BY <1>8, <1>10, <1>11 DEF OfferedSlot
<1>13. \A b \in Slots : b # a => OfferedSlot(slots, k, b)
  BY <1>8, <1>10 DEF OfferedSlot
<1>14. leased' = [leased EXCEPT ![k][a] = 0]
  BY DEF Decline
<1>15. leased' \in Promises(LeaseTime)
  BY <1>1, <1>4, <1>14 DEF Promises
<1>16. \A j \in Clients, b \in Slots :
         OfferedPromise(k, [offered EXCEPT ![k][a] = 0], j, b)
  BY <1>10 DEF off
<1> QED
  BY <1>10, <1>11, <1>12, <1>13, <1>14, <1>15, <1>16 DEF Decline, Receives, flashVars

\* dhcp_handle_request up to the write of its record.
LEMMA RequestEffect ==
  ASSUME TypeOK, NEW k \in Clients, NEW a \in Slots, Request(k, a)
  PROVE  \E s \in SlotType, r \in RecordType, c \in ReplyType :
         /\ s = [state |-> "BOUND", key |-> k, expires_at |-> now + LeaseTime]
         /\ r = Record(a, s) /\ c = [client |-> k, slot |-> a, left |-> LeaseTime]
         /\ slots' = [slots EXCEPT ![a] = s] /\ slots[a].key = k
         /\ writing' = <<r>> /\ reply' = <<c>>
         /\ write_pointer < MaxJournal
         /\ phase = "serve" /\ writing = <<>> /\ reply = <<>>
         /\ UNCHANGED <<phase, next_slot, write_pointer, header, journal,
                        offered, leased, fromFree, now, crashes>>
<1>1. now + LeaseTime \in Times
  BY TimesBound DEF TypeOK
<1>2. PICK s \in SlotType :
        s = [state |-> "BOUND", key |-> k, expires_at |-> now + LeaseTime]
  BY <1>1 DEF SlotType, LeaseStates, Keys
<1>3. Record(a, s) \in RecordType
  BY RecordTyped
<1>4. LeaseTime \in 0..LeaseTime
  BY TimesAssumption
<1>5. [client |-> k, slot |-> a, left |-> LeaseTime] \in ReplyType
  BY <1>4 DEF ReplyType
<1>6. PICK r \in RecordType : r = Record(a, s)
  BY <1>3
<1>7. PICK c \in ReplyType : c = [client |-> k, slot |-> a, left |-> LeaseTime]
  BY <1>5
<1>8. /\ slots' = [slots EXCEPT ![a] = s] /\ slots[a].key = k
      /\ writing' = <<r>> /\ reply' = <<c>>
      /\ write_pointer < MaxJournal
      /\ phase = "serve" /\ writing = <<>> /\ reply = <<>>
      /\ UNCHANGED <<phase, next_slot, write_pointer, header, journal,
                     offered, leased, fromFree, now, crashes>>
  BY <1>2, <1>6, <1>7 DEF Request, Receives, Room, flashVars, clientVars
<1> QED
  BY <1>2, <1>6, <1>7, <1>8

\* dhcp_handle_release up to the write of its record.
LEMMA ReleaseEffect ==
  ASSUME TypeOK, NEW k \in Clients, NEW a \in Slots, Release(k, a)
  PROVE  \E s \in SlotType, r \in RecordType :
         /\ s = Freed(slots[a]) /\ r = Record(a, s)
         /\ slots' = [slots EXCEPT ![a] = s] /\ slots[a].key = k
         /\ writing' = <<r>>
         /\ offered' = [offered EXCEPT ![k][a] = 0]
         /\ leased' = [leased EXCEPT ![k][a] = 0]
         /\ write_pointer < MaxJournal
         /\ phase = "serve" /\ writing = <<>> /\ reply = <<>>
         /\ UNCHANGED <<phase, next_slot, reply, write_pointer, header, journal,
                        fromFree, now, crashes>>
<1>1. slots[a] \in SlotType
  BY DEF TypeOK
<1>2. PICK s \in SlotType : s = Freed(slots[a])
  BY <1>1, TimesBound DEF Freed, SlotType, LeaseStates
<1>3. [slots[a] EXCEPT !.state = "FREE", !.expires_at = 0] = s
  BY <1>1, <1>2, TwoFields DEF Freed
<1>4. Record(a, s) \in RecordType
  BY RecordTyped
<1>5. PICK r \in RecordType : r = Record(a, s)
  BY <1>4
<1>6. /\ slots' = [slots EXCEPT ![a] = [slots[a] EXCEPT !.state = "FREE", !.expires_at = 0]]
      /\ writing' = <<Record(a, [slots[a] EXCEPT !.state = "FREE", !.expires_at = 0])>>
  BY Zenon DEF Release
<1>7. slots' = [slots EXCEPT ![a] = s] /\ writing' = <<r>>
  BY <1>3, <1>5, <1>6, Zenon
<1>8. /\ slots[a].key = k
      /\ offered' = [offered EXCEPT ![k][a] = 0]
      /\ leased' = [leased EXCEPT ![k][a] = 0]
      /\ write_pointer < MaxJournal
      /\ phase = "serve" /\ writing = <<>> /\ reply = <<>>
      /\ UNCHANGED <<phase, next_slot, reply, write_pointer, header, journal,
                     fromFree, now, crashes>>
  BY Zenon DEF Release, Receives, Room, flashVars
<1> QED
  BY <1>2, <1>5, <1>7, <1>8

\* The four messages that the clients send.
LEMMA BaseMessage ==
  ASSUME NEW k \in Clients, NEW a \in Slots
  PROVE  Base /\ (Discover(k) \/ Request(k, a) \/ Decline(k, a) \/ Release(k, a))
           => Base'
<1> SUFFICES ASSUME Base,
                    Discover(k) \/ Request(k, a) \/ Decline(k, a) \/ Release(k, a)
             PROVE  Base'
  OBVIOUS
<1> USE DEF Base
<1>1. CASE Discover(k)
  <2>1. /\ slots' \in [Slots -> SlotType]
        /\ offered' \in Promises(OfferTime)
        /\ fromFree' \in SUBSET (Clients \X Slots)
        /\ phase = "serve" /\ writing = <<>> /\ reply = <<>>
        /\ UNCHANGED <<phase, next_slot, writing, reply, write_pointer, header,
                       journal, leased, now, crashes>>
    BY <1>1, DiscoverEffect
  <2> QED
    BY <2>1 DEF TypeOK, Promises, Shape, Flow
<1>2. CASE Decline(k, a)
  <2>1. /\ slots' \in [Slots -> SlotType]
        /\ offered' \in Promises(OfferTime)
        /\ leased' \in Promises(LeaseTime)
        /\ fromFree' \in SUBSET (Clients \X Slots)
        /\ phase = "serve" /\ writing = <<>> /\ reply = <<>>
        /\ UNCHANGED <<phase, next_slot, writing, reply, write_pointer, header,
                       journal, now, crashes>>
    BY <1>2, DeclineEffect
  <2> QED
    BY <2>1 DEF TypeOK, Promises, Shape, Flow
<1>3. CASE Request(k, a)
  <2>1. PICK s \in SlotType, r \in RecordType, c \in ReplyType :
         /\ slots' = [slots EXCEPT ![a] = s]
         /\ writing' = <<r>> /\ reply' = <<c>>
         /\ write_pointer < MaxJournal
         /\ phase = "serve" /\ writing = <<>> /\ reply = <<>>
         /\ UNCHANGED <<phase, next_slot, write_pointer, header, journal,
                        offered, leased, fromFree, now, crashes>>
    BY <1>3, RequestEffect
  <2> QED
    BY <2>1 DEF TypeOK, Shape, Flow
<1>4. CASE Release(k, a)
  <2>1. PICK s \in SlotType, r \in RecordType :
         /\ slots' = [slots EXCEPT ![a] = s]
         /\ writing' = <<r>>
         /\ offered' = [offered EXCEPT ![k][a] = 0]
         /\ leased' = [leased EXCEPT ![k][a] = 0]
         /\ write_pointer < MaxJournal
         /\ phase = "serve" /\ writing = <<>> /\ reply = <<>>
         /\ UNCHANGED <<phase, next_slot, reply, write_pointer, header, journal,
                        fromFree, now, crashes>>
    BY <1>4, ReleaseEffect
  <2>2. 0 \in 0..OfferTime /\ 0 \in 0..LeaseTime
    BY TimesAssumption
  <2> QED
    BY <2>1, <2>2 DEF TypeOK, Shape, Flow
<1> QED
  BY <1>1, <1>2, <1>3, <1>4

\* A second less never leaves the range.
LEMMA LessType ==
  ASSUME NEW m \in Nat, NEW n \in 0..m
  PROVE  Less(n) \in 0..m /\ (Less(n) > 0 => n > 0 /\ Less(n) = n - 1)
  BY DEF Less

\* The clock never runs ahead of the seconds that pass.
LEMMA Clock ==
  ASSUME TypeOK, Second
  PROVE  now' \in 0..(UptimeMod - 1) /\ now' <= now + 1
<1>1. PICK n \in Nat : n = now
  BY DEF TypeOK
<1>2. PICK u \in Nat \ {0} : u = UptimeMod
  BY TimesAssumption
<1>3. n < u
  BY <1>1, <1>2 DEF TypeOK
<1>4. (n + 1) % u \in 0..(u - 1) /\ (n + 1) % u <= n + 1
  OBVIOUS
<1> QED
  BY <1>1, <1>2, <1>4 DEF Second

\* An ACK that is sent, a second that passes, a power failure.
LEMMA BaseRest == Base /\ (SendAck \/ Second \/ Crash \/ UNCHANGED vars) => Base'
<1> SUFFICES ASSUME Base, SendAck \/ Second \/ Crash \/ UNCHANGED vars PROVE Base'
  OBVIOUS
<1> USE DEF Base
<1>1. CASE SendAck
  <2>1. reply[1] \in ReplyType
    BY <1>1, Optional DEF SendAck
  <2>2. leased' \in [Clients -> [Slots -> 0..LeaseTime]]
    <3>1. PICK k \in Clients, a \in Slots, l \in 0..LeaseTime :
            k = reply[1].client /\ a = reply[1].slot /\ l = reply[1].left
      BY <2>1 DEF ReplyType
    <3>2. leased' = [leased EXCEPT ![k][a] = l] \/ leased' = leased
      BY <1>1, <3>1 DEF SendAck
    <3>3. leased \in [Clients -> [Slots -> 0..LeaseTime]]
      BY DEF TypeOK
    <3> QED
      BY <3>2, <3>3
  <2>3. TypeOK'
    BY <1>1, <2>2 DEF SendAck, TypeOK, flashVars
  <2>4. Shape' /\ Flow'
    BY <1>1 DEF SendAck, Shape, Flow, flashVars
  <2> QED
    BY <2>3, <2>4
<1>2. CASE Second
  <2>1. now' \in 0..(UptimeMod - 1)
    BY <1>2, Clock
  <2>2. LeaseTime \in Nat /\ OfferTime \in Nat
    BY TimesAssumption
  <2>3. /\ offered' \in [Clients -> [Slots -> 0..OfferTime]]
        /\ leased' \in [Clients -> [Slots -> 0..LeaseTime]]
    BY <1>2, <2>2, LessType DEF Second, TypeOK
  <2>4. reply' = <<>> \/ \E c \in ReplyType : reply' = <<c>>
    <3>1. CASE reply = <<>>
      BY <1>2, <3>1 DEF Second
    <3>2. CASE reply # <<>>
      <4>1. reply[1] \in ReplyType
        BY <3>2, Optional
      <4>2. Less(reply[1].left) \in 0..LeaseTime
        BY <2>2, <4>1, LessType DEF ReplyType
      <4>3. [reply[1] EXCEPT !.left = Less(reply[1].left)] \in ReplyType
        BY <4>1, <4>2 DEF ReplyType
      <4>4. reply' = <<[reply[1] EXCEPT !.left = Less(reply[1].left)]>>
        BY <1>2, <3>2 DEF Second
      <4> QED
        BY <4>3, <4>4
    <3> QED
      BY <3>1, <3>2
  <2>5. TypeOK'
    BY <1>2, <2>1, <2>3, <2>4 DEF Second, TypeOK, flashVars
  <2>6. reply' # <<>> => reply # <<>>
    BY <1>2 DEF Second
  <2>7. Shape' /\ Flow'
    BY <1>2, <2>6 DEF Second, Shape, Flow, flashVars
  <2> QED
    BY <2>5, <2>7
<1>3. CASE Crash
  <2>1. FreeSlot \in SlotType
    BY TimesBound DEF FreeSlot, SlotType, LeaseStates, Keys
  <2>2. /\ now' \in 0..(UptimeMod - 1) /\ next_slot' \in 1..(Size + 1)
        /\ write_pointer' \in Nat /\ crashes' \in 0..MaxCrashes
    <3>1. UptimeMod \in Nat \ {0} /\ Size \in Nat /\ MaxJournal \in Nat
          /\ MaxCrashes \in Nat
      BY TimesAssumption, TableAssumption
    <3>2. crashes \in 0..MaxCrashes /\ crashes < MaxCrashes /\ crashes' = crashes + 1
      BY <1>3 DEF Crash, TypeOK
    <3>3. now' = 0 /\ next_slot' = 1 /\ write_pointer' = 0
      BY <1>3 DEF Crash
    <3> QED
      BY <3>1, <3>2, <3>3
  <2>3. 0 \in 0..OfferTime
    BY TimesAssumption
  <2>4. offered' \in [Clients -> [Slots -> 0..OfferTime]]
    BY <1>3, <2>3 DEF Crash, NoPromise
  <2>5. TypeOK'
    BY <1>3, <2>1, <2>2, <2>4 DEF Crash, TypeOK, Phases, flashVars
  <2>6. Shape' /\ Flow'
    BY <1>3 DEF Crash, Shape, Flow, flashVars
  <2> QED
    BY <2>5, <2>6
<1>4. CASE UNCHANGED vars
  BY <1>4 DEF vars, serverVars, flashVars, clientVars, TypeOK, Shape, Flow
<1> QED
  BY <1>1, <1>2, <1>3, <1>4

\* Every step keeps it.
LEMMA BaseStep == Base /\ [Next]_vars => Base'
<1> SUFFICES ASSUME Base, [Next]_vars PROVE Base'
  OBVIOUS
<1>1. CASE \E k \in Clients : \/ Discover(k)
                             \/ \E a \in Slots : Request(k, a) \/ Decline(k, a)
                                                 \/ Release(k, a)
  <2>1. PICK k \in Clients, a \in Slots :
          Discover(k) \/ Request(k, a) \/ Decline(k, a) \/ Release(k, a)
    <3>1. 1 \in Slots
      BY TableAssumption DEF Slots
    <3> QED
      BY <1>1, <3>1
  <2> QED
    BY <2>1, BaseMessage
<1>2. CASE ~ \E k \in Clients : \/ Discover(k)
                             \/ \E a \in Slots : Request(k, a) \/ Decline(k, a)
                                                 \/ Release(k, a)
  BY <1>2, BaseLoad, BaseCompact, BaseWrite, BaseRest DEF Next
<1> QED
  BY <1>1, <1>2

\* The server, its table and its journal are always well typed: in particular
\* no record names an address outside the table, also one that was read back
\* after a power failure, and no expires_at is so far ahead of the uptime that
\* slot_alive would misread it (serialize_record, load_lease_table).
THEOREM LeaseTypes == Spec => []TypeOK
<1>1. Init => Base
  BY BaseInit
<1>2. Base /\ [Next]_vars => Base'
  BY BaseStep
<1>3. Base => TypeOK
  BY DEF Base
<1> QED
  BY <1>1, <1>2, <1>3, PTL DEF Spec

-----------------------------------------------------------------------------
(* Leases are durable.                                                     *)

\* The values that are compared are naturals.
LEMMA Numbers ==
  ASSUME TypeOK
  PROVE  /\ now \in Nat /\ LeaseTime \in Nat \ {0} /\ OfferTime \in Nat \ {0}
         /\ \A k \in Clients, a \in Slots :
              /\ leased[k][a] \in Nat /\ leased[k][a] <= LeaseTime
              /\ offered[k][a] \in Nat /\ offered[k][a] <= OfferTime
         /\ \A a \in Slots : slots[a].expires_at \in Nat
         /\ \A i \in Positions : journal[i].kind = "whole" =>
              journal[i].expires_at \in Nat /\ journal[i].slot \in Slots
         /\ writing # <<>> =>
              writing[1].expires_at \in Nat /\ writing[1].slot \in Slots
<1>1. \A t \in Times : t \in Nat
  BY TimesBound
<1>2. LeaseTime \in Nat \ {0} /\ OfferTime \in Nat \ {0} /\ UptimeMod \in Nat
  BY TimesAssumption
<1>3. \A i \in Positions : journal[i].kind = "whole" => journal[i] \in RecordType
  BY Kinds DEF TypeOK
<1>4. writing # <<>> => writing[1] \in RecordType
  BY Optional
<1>5. \A r \in RecordType : r.expires_at \in Nat /\ r.slot \in Slots
  BY <1>1 DEF RecordType
<1>6. \A a \in Slots : slots[a].expires_at \in Nat
  BY <1>1 DEF TypeOK, SlotType
<1>7. \A k \in Clients, a \in Slots :
        leased[k][a] \in 0..LeaseTime /\ offered[k][a] \in 0..OfferTime
  BY DEF TypeOK
<1>8. now \in Nat
  BY <1>2 DEF TypeOK
<1> QED
  BY <1>2, <1>3, <1>4, <1>5, <1>6, <1>7, <1>8

\* Flash that is not written says the same, for as long as time has not
\* caught up with it.
LEMMA FlashKept ==
  ASSUME TypeOK, journal' = journal, now' \in Nat, NEW k \in Clients,
         NEW a \in Slots, NEW l \in Nat, NEW m \in Nat, now' + m <= now + l,
         OnFlash(k, a, l)
  PROVE  OnFlash(k, a, m)'
<1>1. PICK i \in Positions : Last(a, i) /\ Fits(journal[i], k, l)
  BY DEF OnFlash
<1>2. journal[i].expires_at \in Nat /\ now \in Nat
  BY <1>1, Numbers DEF Last
<1>3. Last(a, i)'
  BY <1>1 DEF Last
<1>4. now' + m <= journal[i].expires_at
  <2>1. now + l <= journal[i].expires_at
    BY <1>1 DEF Fits
  <2>2. PICK e \in Nat, x \in Nat, y \in Nat :
          e = journal[i].expires_at /\ x = now /\ y = now'
    BY <1>2
  <2>3. y + m <= x + l /\ x + l <= e
    BY <2>1, <2>2
  <2>4. y + m <= e
    BY <2>3
  <2> QED
    BY <2>2, <2>4
<1>5. Fits(journal[i], k, m)'
  BY <1>1, <1>4 DEF Fits
<1> QED
  BY <1>3, <1>5 DEF OnFlash

\* Where the next record goes.
LEMMA WriteHere ==
  ASSUME Base, writing # <<>>
  PROVE  \E p \in Positions, r \in RecordType :
         /\ p = write_pointer + 1 /\ writing = <<r>> /\ writing[1] = r
         /\ \A i \in Positions : /\ i \in Nat
                                 /\ i < p => journal[i].kind = "whole"
                                 /\ i >= p => journal[i].kind # "whole"
<1> USE DEF Base
<1>1. PICK r \in RecordType : writing = <<r>> /\ writing[1] = r
  BY Optional
<1>2. phase \in {"compact", "serve"} /\ write_pointer < MaxJournal
  BY DEF Flow
<1>3. MaxJournal \in Nat /\ write_pointer \in Nat
  BY TableAssumption DEF TypeOK
<1>4. PICK p \in Positions : p = write_pointer + 1
  BY <1>2, <1>3 DEF Positions
<1>5. \A i \in Positions : i \in Nat
  BY <1>3 DEF Positions
<1>6. \A i \in Positions : /\ i < p => journal[i].kind = "whole"
                           /\ i >= p => journal[i].kind # "whole"
  <2>1. \A i \in Positions : /\ i <= write_pointer => journal[i].kind = "whole"
                             /\ i > write_pointer => journal[i].kind # "whole"
    BY <1>2 DEF Shape
  <2>2. \A i \in Positions : /\ i < p => i <= write_pointer
                             /\ i >= p => i > write_pointer
    BY <1>3, <1>4, <1>5
  <2> QED
    BY <2>1, <2>2
<1> QED
  BY <1>1, <1>4, <1>5, <1>6

\* The magic of a new record hides no other record, ...
LEMMA BeginFlash ==
  ASSUME Base, BeginRecord, NEW k \in Clients, NEW a \in Slots, NEW l \in Nat,
         OnFlash(k, a, l)
  PROVE  OnFlash(k, a, l)'
<1>1. writing # <<>>
  BY DEF BeginRecord
<1>2. PICK p \in Positions :
         /\ p = write_pointer + 1
         /\ \A i \in Positions : /\ i \in Nat
                                 /\ i >= p => journal[i].kind # "whole"
  BY <1>1, WriteHere
<1>3. journal' = [journal EXCEPT ![p] = Torn] /\ now' = now
  BY <1>2 DEF BeginRecord
<1>4. \A i \in Positions : /\ i # p => journal'[i] = journal[i]
                           /\ i = p => journal'[i].kind # "whole"
  BY <1>3 DEF Base, TypeOK, Torn
<1>5. PICK i \in Positions : Last(a, i) /\ Fits(journal[i], k, l)
  BY DEF OnFlash
<1>6. i # p
  BY <1>2, <1>5 DEF Last
<1>7. Last(a, i)'
  BY <1>4, <1>5, <1>6 DEF Last
<1>8. Fits(journal[i], k, l)'
  BY <1>3, <1>4, <1>5, <1>6 DEF Fits
<1> QED
  BY <1>7, <1>8 DEF OnFlash

\* ... and its CRC makes it the last word on its slot, and on no other.
LEMMA EndFlash ==
  ASSUME Base, EndRecord, NEW k \in Clients, NEW a \in Slots, NEW l \in Nat,
         IF a = writing[1].slot THEN Fits(writing[1], k, l) ELSE OnFlash(k, a, l)
  PROVE  OnFlash(k, a, l)'
<1>1. writing # <<>>
  BY DEF EndRecord
<1>2. PICK p \in Positions, r \in RecordType :
         /\ p = write_pointer + 1 /\ writing[1] = r
         /\ \A i \in Positions : /\ i \in Nat
                                 /\ i >= p => journal[i].kind # "whole"
  BY <1>1, WriteHere
<1>3. journal' = [journal EXCEPT ![p] = r] /\ now' = now
  BY <1>2 DEF EndRecord
<1>4. r.kind = "whole"
  BY DEF RecordType
<1>5. \A i \in Positions : /\ i # p => journal'[i] = journal[i]
                           /\ i = p => journal'[i] = r
  BY <1>3 DEF Base, TypeOK
<1>6. CASE a = writing[1].slot
  <2>1. Last(a, p)'
    BY <1>2, <1>4, <1>5, <1>6 DEF Last
  <2>2. Fits(r, k, l)
    BY <1>2, <1>6
  <2>3. Fits(journal[p], k, l)'
    BY <1>3, <1>5, <2>2 DEF Fits
  <2> QED
    BY <2>1, <2>3 DEF OnFlash
<1>7. CASE a # writing[1].slot
  <2>1. PICK i \in Positions : Last(a, i) /\ Fits(journal[i], k, l)
    BY <1>7 DEF OnFlash
  <2>2. i # p
    BY <1>2, <2>1 DEF Last
  <2>3. Last(a, i)'
    BY <1>2, <1>5, <1>7, <2>1, <2>2 DEF Last
  <2>4. Fits(journal[i], k, l)'
    BY <1>3, <1>5, <2>1, <2>2 DEF Fits
  <2> QED
    BY <2>3, <2>4 DEF OnFlash
<1> QED
  BY <1>6, <1>7

\* Nobody holds a lease at the start.
LEMMA DurableInit == Init => Durable
<1> SUFFICES ASSUME Init PROVE Durable
  OBVIOUS
<1>1. \A k \in Clients, a \in Slots : leased[k][a] = 0
  BY DEF Init, NoPromise
<1>2. phase = "boot" /\ writing = <<>> /\ reply = <<>>
  BY DEF Init
<1> QED
  BY <1>1, <1>2 DEF Durable, InTable, InFlash, Compacting, InWriting, InReply

\* load_lease_table brings every lease back.
LEMMA DurableLoad == Base /\ Durable /\ LoadLeaseTable => Durable'
<1> SUFFICES ASSUME Base, Durable, LoadLeaseTable PROVE Durable'
  OBVIOUS
<1>1. TypeOK /\ Shape /\ Flow
  BY DEF Base
<1>2. /\ phase = "boot" /\ phase' \in {"erase", "serve"}
      /\ slots' = [a \in Slots |-> IF header THEN Loaded(a) ELSE FreeSlot]
      /\ UNCHANGED <<next_slot, writing, reply, header, journal, leased, now>>
  BY DEF LoadLeaseTable, flashVars, clientVars
<1>3. writing' = <<>> /\ reply' = <<>>
  BY <1>1, <1>2 DEF Flow
<1>4. ASSUME NEW k \in Clients, NEW a \in Slots, leased'[k][a] > 0
      PROVE  header /\ Fits(slots[a], k, leased[k][a])' /\ OnFlash(k, a, leased[k][a])'
  <2>1. PICK l \in Nat : l = leased[k][a] /\ l > 0
    BY <1>1, <1>2, <1>4, Numbers
  <2>2. header /\ OnFlash(k, a, l)
    BY <1>2, <2>1 DEF Durable, InFlash
  <2>3. PICK i \in Positions : Last(a, i) /\ Fits(journal[i], k, l)
    BY <2>2 DEF OnFlash
  <2>4. Loaded(a) = [state |-> journal[i].state, key |-> journal[i].key,
                     expires_at |-> journal[i].expires_at]
    BY <1>1, <2>3, LoadedLast
  <2>5. slots'[a] = [state |-> journal[i].state, key |-> journal[i].key,
                     expires_at |-> journal[i].expires_at]
    BY <1>2, <2>2, <2>4
  <2>6. leased'[k][a] = l /\ now' = now
    BY <1>2, <2>1
  <2>7. Fits(slots[a], k, leased[k][a])'
    BY <2>3, <2>5, <2>6 DEF Fits
  <2>8. OnFlash(k, a, leased[k][a])'
    BY <1>2, <2>1, <2>2 DEF OnFlash, Last, Fits
  <2> QED
    BY <2>2, <2>7, <2>8
<1>5. InTable' /\ InFlash'
  BY <1>2, <1>4 DEF InTable, InFlash
<1>6. Compacting' /\ InWriting' /\ InReply'
  BY <1>2, <1>3 DEF Compacting, InWriting, InReply
<1> QED
  BY <1>5, <1>6 DEF Durable

\* journal_compact brings every lease back into the flash.
LEMMA DurableCompact ==
  Base /\ Durable /\ (EraseSector \/ ProgramHeader \/ CompactSlot \/ CompactDone)
    => Durable'
<1> SUFFICES ASSUME Base, Durable,
                    EraseSector \/ ProgramHeader \/ CompactSlot \/ CompactDone
             PROVE  Durable'
  OBVIOUS
<1>1. TypeOK /\ Shape /\ Flow
  BY DEF Base
<1>2. InTable /\ InFlash /\ Compacting /\ InWriting /\ InReply
  BY DEF Durable
<1>3. /\ phase \in {"erase", "header", "compact"}
      /\ UNCHANGED <<slots, reply, leased, now>>
  BY DEF EraseSector, ProgramHeader, CompactSlot, CompactDone, clientVars
<1>4. reply = <<>> /\ reply' = <<>>
  BY <1>1, <1>3 DEF Flow
<1>5. InReply'
  BY <1>4 DEF InReply
<1>6. InTable'
  BY <1>2, <1>3 DEF InTable, Fits
<1>7. CASE EraseSector \/ ProgramHeader
  <2>1. phase' \in {"header", "compact"} /\ writing' = writing
        /\ phase \in {"erase", "header"} /\ (phase' = "compact" => next_slot' = 1)
    BY <1>7 DEF EraseSector, ProgramHeader
  <2>2. writing' = <<>>
    BY <1>1, <2>1 DEF Flow
  <2>3. \A a \in Slots : ~(a < 1)
    BY TableAssumption DEF Slots
  <2>4. InFlash' /\ Compacting' /\ InWriting'
    BY <2>1, <2>2, <2>3 DEF InFlash, Compacting, InWriting
  <2> QED
    BY <1>5, <1>6, <2>4 DEF Durable
<1>8. CASE CompactSlot
  <2>1. PICK n \in Slots : n = next_slot
    BY <1>1, <1>8, TableAssumption DEF CompactSlot, TypeOK, Slots
  <2>2. slots[n] \in SlotType
    BY <1>1 DEF TypeOK
  <2>3. /\ Record(n, slots[n]) \in RecordType
        /\ Record(n, slots[n]).slot = n /\ Record(n, slots[n]).key = slots[n].key
        /\ Record(n, slots[n]).state = slots[n].state
        /\ Record(n, slots[n]).expires_at = slots[n].expires_at
    BY <2>2, RecordTyped
  <2>4. PICK r \in RecordType :
          r = Record(n, slots[n]) /\ r.slot = n /\ r.key = slots[n].key
          /\ r.state = slots[n].state /\ r.expires_at = slots[n].expires_at
    BY <2>3
  <2>5. /\ phase = "compact" /\ phase' = "compact" /\ writing = <<>>
        /\ writing' = IF slots[n].state = "FREE" THEN <<>> ELSE <<r>>
        /\ next_slot' = n + 1 /\ journal' = journal
    BY <1>8, <2>1, <2>4 DEF CompactSlot, flashVars
  <2>6. writing' # <<>> => writing' = <<r>> /\ writing'[1] = r
    BY <2>5
  <2>7. InWriting'
    <3> SUFFICES ASSUME writing' # <<>>, NEW k \in Clients, NEW a \in Slots,
                        a = writing'[1].slot, leased'[k][a] > 0
                 PROVE  Fits(writing[1], k, leased[k][a])'
      BY DEF InWriting
    <3>1. a = n /\ writing'[1] = r
      BY <2>4, <2>6
    <3>2. Fits(slots[a], k, leased[k][a])
      BY <1>2, <1>3, <2>5 DEF InTable
    <3> QED
      BY <1>3, <2>4, <3>1, <3>2 DEF Fits
  <2>8. Compacting'
    <3> SUFFICES ASSUME NEW k \in Clients, NEW a \in Slots, a < next_slot',
                        leased'[k][a] > 0
                 PROVE  OnFlash(k, a, leased[k][a])' \/ (writing' # <<>> /\ writing'[1].slot = a)
      BY DEF Compacting
    <3>1. CASE a = n
      <4>1. Fits(slots[n], k, leased[k][n])
        BY <1>2, <1>3, <2>5, <3>1 DEF InTable
      <4>2. writing' = <<r>>
        BY <2>5, <4>1 DEF Fits
      <4> QED
        BY <2>4, <3>1, <4>2
    <3>2. CASE a # n
      <4>1. a < n
        BY <2>5, <3>2, TableAssumption DEF Slots
      <4>2. OnFlash(k, a, leased[k][a])
        BY <1>2, <1>3, <2>1, <2>5, <4>1 DEF Compacting
      <4> QED
        BY <1>3, <2>5, <4>2 DEF OnFlash, Last, Fits
    <3> QED
      BY <3>1, <3>2
  <2>9. InFlash'
    BY <2>5 DEF InFlash
  <2> QED
    BY <1>5, <1>6, <2>7, <2>8, <2>9 DEF Durable
<1>9. CASE CompactDone
  <2>1. /\ phase = "compact" /\ phase' = "serve" /\ writing = <<>> /\ writing' = <<>>
        /\ next_slot > Size /\ header' = header /\ journal' = journal
    BY <1>9 DEF CompactDone, flashVars
  <2>2. header
    BY <1>1, <2>1 DEF Flow
  <2>3. InFlash'
    <3> SUFFICES ASSUME NEW k \in Clients, NEW a \in Slots, leased'[k][a] > 0
                 PROVE  header' /\ OnFlash(k, a, leased[k][a])'
      BY DEF InFlash
    <3>1. a < next_slot
      BY <1>1, <2>1, TableAssumption DEF Slots, TypeOK
    <3>2. OnFlash(k, a, leased[k][a])
      BY <1>2, <1>3, <2>1, <3>1 DEF Compacting
    <3> QED
      BY <1>3, <2>1, <2>2, <3>2 DEF OnFlash, Last, Fits
  <2>4. Compacting' /\ InWriting'
    BY <2>1 DEF Compacting, InWriting
  <2> QED
    BY <1>5, <1>6, <2>3, <2>4 DEF Durable
<1> QED
  BY <1>7, <1>8, <1>9

\* flash_append_journal loses no lease, whatever the record is about.
LEMMA DurableWrite == Base /\ Durable /\ (BeginRecord \/ EndRecord) => Durable'
<1> SUFFICES ASSUME Base, Durable, BeginRecord \/ EndRecord PROVE Durable'
  OBVIOUS
<1>1. TypeOK /\ Shape /\ Flow
  BY DEF Base
<1>2. InTable /\ InFlash /\ Compacting /\ InWriting /\ InReply
  BY DEF Durable
<1>3. writing # <<>> /\ UNCHANGED <<phase, next_slot, slots, reply, header, leased, now>>
  BY DEF BeginRecord, EndRecord, serverVars, clientVars
<1>4. phase \in {"compact", "serve"}
  BY <1>1, <1>3 DEF Flow
<1>5. InTable'
  BY <1>2, <1>3 DEF InTable, Fits
<1>6. CASE BeginRecord
  <2>1. writing' = writing
    BY <1>6 DEF BeginRecord, serverVars
  <2>2. ASSUME NEW k \in Clients, NEW a \in Slots, OnFlash(k, a, leased[k][a])
        PROVE  OnFlash(k, a, leased[k][a])'
    <3>1. PICK l \in Nat : l = leased[k][a] /\ l = leased'[k][a]
      BY <1>1, <1>3, Numbers
    <3>2. OnFlash(k, a, l)
      BY <2>2, <3>1
    <3>3. OnFlash(k, a, l)'
      BY <1>6, <3>2, BeginFlash
    <3> QED
      BY <3>1, <3>3 DEF OnFlash, Fits
  <2>3. InFlash' /\ Compacting'
    BY <1>2, <1>3, <2>1, <2>2 DEF InFlash, Compacting
  <2>4. InWriting' /\ InReply'
    BY <1>2, <1>3, <2>1 DEF InWriting, InReply, Fits
  <2> QED
    BY <1>5, <2>3, <2>4 DEF Durable
<1>7. CASE EndRecord
  <2>1. writing' = <<>>
    BY <1>7 DEF EndRecord
  <2>2. ASSUME NEW k \in Clients, NEW a \in Slots, leased'[k][a] > 0,
               a = writing[1].slot \/ OnFlash(k, a, leased[k][a])
        PROVE  OnFlash(k, a, leased[k][a])'
    <3>1. PICK l \in Nat : l = leased[k][a] /\ l = leased'[k][a] /\ l > 0
      BY <1>1, <1>3, <2>2, Numbers
    <3>2. a = writing[1].slot => Fits(writing[1], k, l)
      BY <1>2, <1>3, <3>1 DEF InWriting
    <3>3. IF a = writing[1].slot THEN Fits(writing[1], k, l) ELSE OnFlash(k, a, l)
      BY <2>2, <3>1, <3>2
    <3>4. OnFlash(k, a, l)'
      BY <1>7, <3>3, EndFlash
    <3> QED
      BY <3>1, <3>4 DEF OnFlash, Fits
  <2>3. InFlash'
    BY <1>2, <1>3, <2>2 DEF InFlash
  <2>4. Compacting'
    BY <1>2, <1>3, <2>2 DEF Compacting
  <2>5. InWriting'
    BY <2>1 DEF InWriting
  <2>6. InReply'
    <3> SUFFICES ASSUME reply' # <<>>, NEW k \in Clients, NEW a \in Slots, NEW l \in Nat,
                        k = reply'[1].client, a = reply'[1].slot, l = reply'[1].left,
                        l > 0
                 PROVE  Fits(slots[a], k, l)' /\ OnFlash(k, a, l)'
      BY <2>1 DEF InReply
    <3>1. writing[1].slot = a /\ Fits(slots[a], k, l) /\ Fits(writing[1], k, l)
      BY <1>2, <1>3 DEF InReply
    <3>2. IF a = writing[1].slot THEN Fits(writing[1], k, l) ELSE OnFlash(k, a, l)
      BY <3>1
    <3>3. OnFlash(k, a, l)'
      BY <1>7, <3>2, EndFlash
    <3> QED
      BY <1>3, <3>1, <3>3 DEF Fits
  <2> QED
    BY <1>5, <2>3, <2>4, <2>5, <2>6 DEF Durable
<1> QED
  BY <1>6, <1>7

\* While flash and clock stand still, the leases that remain are in flash.
LEMMA FlashStands ==
  ASSUME Base, Durable, phase = "serve", UNCHANGED <<phase, header, journal, now>>,
         \A k \in Clients, a \in Slots : leased'[k][a] > 0 => leased'[k][a] = leased[k][a]
  PROVE  InFlash'
<1> SUFFICES ASSUME NEW k \in Clients, NEW a \in Slots, leased'[k][a] > 0
             PROVE  header' /\ OnFlash(k, a, leased[k][a])'
  BY DEF InFlash
<1>1. leased'[k][a] = leased[k][a]
  OBVIOUS
<1>2. header /\ OnFlash(k, a, leased[k][a])
  BY <1>1 DEF Durable, InFlash
<1> QED
  BY <1>1, <1>2 DEF OnFlash, Last, Fits

\* An offer takes no leased slot and shortens no lease.
LEMMA OfferKeepsLease ==
  ASSUME TypeOK, NEW k \in Clients, NEW j \in Clients, NEW a \in Slots,
         NEW l \in Nat \ {0}, l <= LeaseTime, now' = now,
         Fits(slots[a], j, l), OfferedSlot(slots, k, a)
  PROVE  Fits(slots[a], j, l)'
<1>1. slots[a] \in SlotType
  BY DEF TypeOK
<1>2. SlotAlive(slots[a])
  BY <1>1, FitsAlive
<1>3. now \in Nat /\ LeaseTime \in Nat
  BY Numbers
<1>4. CASE slots'[a] = slots[a]
  BY <1>4 DEF Fits
<1>5. CASE /\ slots[a].key = k
           /\ slots'[a].key = k /\ slots'[a].state = slots[a].state
           /\ slots'[a].expires_at = now + LeaseTime
  <2>1. now + l <= now + LeaseTime
    BY <1>3
  <2> QED
    BY <1>5, <2>1 DEF Fits
<1> QED
  BY <1>2, <1>4, <1>5 DEF OfferedSlot

\* No message takes a lease away from a client that still counts on it.
LEMMA DurableMessage ==
  ASSUME NEW k \in Clients, NEW a \in Slots
  PROVE  Base /\ Durable /\ (Discover(k) \/ Request(k, a) \/ Decline(k, a) \/ Release(k, a))
           => Durable'
<1> SUFFICES ASSUME Base, Durable,
                    Discover(k) \/ Request(k, a) \/ Decline(k, a) \/ Release(k, a)
             PROVE  Durable'
  OBVIOUS
<1>1. TypeOK /\ Shape /\ Flow
  BY DEF Base
<1>2. InTable /\ InFlash /\ Compacting /\ InWriting /\ InReply
  BY DEF Durable
<1>3. \A j \in Clients, b \in Slots :
        leased[j][b] \in Nat /\ leased[j][b] <= LeaseTime
  BY <1>1, Numbers
<1>4. CASE Discover(k)
  <2>1. /\ \A b \in Slots : OfferedSlot(slots, k, b)
        /\ phase = "serve" /\ writing = <<>> /\ reply = <<>>
        /\ UNCHANGED <<phase, writing, reply, header, journal, leased, now>>
    BY <1>1, <1>4, DiscoverEffect
  <2>2. InFlash'
    BY <2>1, FlashStands
  <2>3. InTable'
    <3> SUFFICES ASSUME NEW j \in Clients, NEW b \in Slots, leased'[j][b] > 0
                 PROVE  Fits(slots[b], j, leased[j][b])'
      BY DEF InTable
    <3>1. PICK l \in Nat \ {0} : l = leased[j][b] /\ l = leased'[j][b] /\ l <= LeaseTime
      BY <1>3, <2>1
    <3>2. Fits(slots[b], j, l) /\ OfferedSlot(slots, k, b)
      BY <1>2, <2>1, <3>1 DEF InTable
    <3>3. Fits(slots[b], j, l)'
      BY <1>1, <2>1, <3>1, <3>2, OfferKeepsLease
    <3> QED
      BY <3>1, <3>3 DEF Fits
  <2>4. Compacting' /\ InWriting' /\ InReply'
    BY <2>1 DEF Compacting, InWriting, InReply
  <2> QED
    BY <2>2, <2>3, <2>4 DEF Durable
<1>5. CASE Decline(k, a)
  <2>1. /\ slots[a].key = k
        /\ \A b \in Slots : b # a => OfferedSlot(slots, k, b)
        /\ leased' = [leased EXCEPT ![k][a] = 0]
        /\ phase = "serve" /\ writing = <<>> /\ reply = <<>>
        /\ UNCHANGED <<phase, writing, reply, header, journal, now>>
    BY <1>1, <1>5, DeclineEffect
  <2>2. \A j \in Clients, b \in Slots :
          leased'[j][b] > 0 => leased'[j][b] = leased[j][b] /\ <<j, b>> # <<k, a>>
    BY <1>1, <2>1 DEF TypeOK
  <2>3. InFlash'
    BY <2>1, <2>2, FlashStands
  <2>4. InTable'
    <3> SUFFICES ASSUME NEW j \in Clients, NEW b \in Slots, leased'[j][b] > 0
                 PROVE  Fits(slots[b], j, leased[j][b])'
      BY DEF InTable
    <3>1. PICK l \in Nat \ {0} : l = leased[j][b] /\ l = leased'[j][b] /\ l <= LeaseTime
      BY <1>3, <2>2
    <3>2. Fits(slots[b], j, l)
      BY <1>2, <2>1, <3>1 DEF InTable
    <3>3. b # a
      BY <2>1, <2>2, <3>2 DEF Fits
    <3>4. OfferedSlot(slots, k, b) /\ now' = now
      BY <2>1, <3>3
    <3>5. Fits(slots[b], j, l)'
      BY <1>1, <3>1, <3>2, <3>4, OfferKeepsLease
    <3> QED
      BY <3>1, <3>5 DEF Fits
  <2>5. Compacting' /\ InWriting' /\ InReply'
    BY <2>1 DEF Compacting, InWriting, InReply
  <2> QED
    BY <2>3, <2>4, <2>5 DEF Durable
<1>6. CASE Request(k, a)
  <2>1. PICK s \in SlotType, r \in RecordType, c \in ReplyType :
         /\ s = [state |-> "BOUND", key |-> k, expires_at |-> now + LeaseTime]
         /\ r = Record(a, s) /\ c = [client |-> k, slot |-> a, left |-> LeaseTime]
         /\ slots' = [slots EXCEPT ![a] = s] /\ slots[a].key = k
         /\ writing' = <<r>> /\ reply' = <<c>>
         /\ phase = "serve" /\ writing = <<>> /\ reply = <<>>
         /\ UNCHANGED <<phase, header, journal, leased, now>>
    BY <1>1, <1>6, RequestEffect
  <2>2. r.slot = a /\ r.key = k /\ r.state = "BOUND" /\ r.expires_at = now + LeaseTime
    BY <2>1, RecordTyped
  <2>3. slots'[a] = s /\ \A b \in Slots : b # a => slots'[b] = slots[b]
    BY <1>1, <2>1 DEF TypeOK
  <2>4. now \in Nat /\ LeaseTime \in Nat
    BY <1>1, Numbers
  <2>5. ASSUME NEW l \in Nat, l <= LeaseTime
        PROVE  Fits(s, k, l)' /\ Fits(r, k, l)'
    <3>1. now' + l <= now + LeaseTime
      BY <2>1, <2>4, <2>5
    <3> QED
      BY <2>1, <2>2, <3>1 DEF Fits
  <2>6. ASSUME NEW j \in Clients, NEW b \in Slots, leased'[j][b] > 0
        PROVE  /\ Fits(slots[b], j, leased[j][b])'
               /\ b = a => Fits(writing[1], j, leased[j][b])'
    <3>1. PICK l \in Nat : l = leased[j][b] /\ l = leased'[j][b] /\ l <= LeaseTime /\ l > 0
      BY <1>3, <2>1, <2>6
    <3>2. Fits(slots[b], j, l)
      BY <1>2, <2>1, <3>1 DEF InTable
    <3>3. CASE b # a
      BY <2>1, <2>3, <3>1, <3>2, <3>3 DEF Fits
    <3>4. CASE b = a
      <4>1. j = k
        BY <2>1, <3>2, <3>4 DEF Fits
      <4>2. Fits(s, k, l)' /\ Fits(r, k, l)'
        BY <2>5, <3>1
      <4>3. slots'[b] = s /\ writing'[1] = r
        BY <2>1, <2>3, <3>4
      <4> QED
        BY <3>1, <4>1, <4>2, <4>3 DEF Fits
    <3> QED
      BY <3>3, <3>4
  <2>7. InFlash'
    BY <2>1, FlashStands
  <2>8. InTable'
    BY <2>6 DEF InTable
  <2>9. writing'[1] = r /\ writing' # <<>>
    BY <2>1
  <2>10. InWriting'
    BY <2>2, <2>6, <2>9 DEF InWriting
  <2>11. Compacting'
    BY <2>1 DEF Compacting
  <2>12. InReply'
    <3> SUFFICES ASSUME NEW j \in Clients, NEW b \in Slots, NEW l \in Nat,
                        j = reply'[1].client, b = reply'[1].slot, l = reply'[1].left
                 PROVE  /\ writing'[1].slot = b
                        /\ Fits(slots[b], j, l)'
                        /\ Fits(writing[1], j, l)'
      BY <2>9 DEF InReply
    <3>1. reply'[1] = c
      BY <2>1
    <3>2. j = k /\ b = a /\ l = LeaseTime
      BY <2>1, <3>1
    <3>3. Fits(s, k, l)' /\ Fits(r, k, l)'
      BY <2>4, <2>5, <3>2
    <3> QED
      BY <2>2, <2>3, <2>9, <3>2, <3>3 DEF Fits
  <2> QED
    BY <2>7, <2>8, <2>10, <2>11, <2>12 DEF Durable
<1>7. CASE Release(k, a)
  <2>1. PICK s \in SlotType, r \in RecordType :
         /\ r = Record(a, s)
         /\ slots' = [slots EXCEPT ![a] = s] /\ slots[a].key = k
         /\ writing' = <<r>>
         /\ leased' = [leased EXCEPT ![k][a] = 0]
         /\ phase = "serve" /\ writing = <<>> /\ reply = <<>>
         /\ UNCHANGED <<phase, reply, header, journal, now>>
    BY <1>1, <1>7, ReleaseEffect
  <2>2. r.slot = a /\ writing'[1] = r
    BY <2>1, RecordTyped
  <2>3. \A j \in Clients, b \in Slots :
          leased'[j][b] > 0 => leased'[j][b] = leased[j][b] /\ <<j, b>> # <<k, a>>
    BY <1>1, <2>1 DEF TypeOK
  <2>4. ASSUME NEW j \in Clients, NEW b \in Slots, leased'[j][b] > 0
        PROVE  b # a /\ Fits(slots[b], j, leased[j][b])'
    <3>1. leased'[j][b] = leased[j][b]
      BY <2>3, <2>4
    <3>2. Fits(slots[b], j, leased[j][b])
      BY <1>2, <2>1, <2>4, <3>1 DEF InTable
    <3>3. b # a
      BY <2>1, <2>3, <2>4, <3>2 DEF Fits
    <3>4. slots'[b] = slots[b]
      BY <1>1, <2>1, <3>3 DEF TypeOK
    <3> QED
      BY <2>1, <3>1, <3>2, <3>3, <3>4 DEF Fits
  <2>5. InFlash'
    BY <2>1, <2>3, FlashStands
  <2>6. InTable'
    BY <2>4 DEF InTable
  <2>7. InWriting'
    BY <2>2, <2>4 DEF InWriting
  <2>8. Compacting' /\ InReply'
    BY <2>1 DEF Compacting, InReply
  <2> QED
    BY <2>5, <2>6, <2>7, <2>8 DEF Durable
<1> QED
  BY <1>4, <1>5, <1>6, <1>7

\* An ACK, a second and a power failure outside the compaction lose nothing.
LEMMA DurableRest ==
  ASSUME CrashIn \cap {"header", "compact"} = {}
  PROVE  Base /\ Durable /\ (SendAck \/ Second \/ Crash \/ UNCHANGED vars) => Durable'
<1> SUFFICES ASSUME Base, Durable, SendAck \/ Second \/ Crash \/ UNCHANGED vars
             PROVE  Durable'
  OBVIOUS
<1>1. TypeOK /\ Shape /\ Flow
  BY DEF Base
<1>2. InTable /\ InFlash /\ Compacting /\ InWriting /\ InReply
  BY DEF Durable
<1>3. \A k \in Clients, a \in Slots : leased[k][a] \in 0..LeaseTime
  BY <1>1 DEF TypeOK
<1>4. now \in Nat /\ LeaseTime \in Nat /\ \A a \in Slots : slots[a].expires_at \in Nat
  BY <1>1, Numbers
<1>5. CASE SendAck
  <2>1. reply # <<>> /\ writing = <<>> /\ writing' = <<>> /\ reply' = <<>>
        /\ UNCHANGED <<slots, phase, header, journal, now>>
    BY <1>5 DEF SendAck, flashVars
  <2>2. phase = "serve" /\ header
    BY <1>1, <2>1 DEF Flow
  <2>3. reply[1] \in ReplyType
    BY <1>1, <2>1, Optional
  <2>4. PICK k \in Clients, a \in Slots, l \in 0..LeaseTime :
          k = reply[1].client /\ a = reply[1].slot /\ l = reply[1].left
    BY <2>3 DEF ReplyType
  <2>5. leased' = [leased EXCEPT ![k][a] = l] \/ leased' = leased
    BY <1>5, <2>4 DEF SendAck
  <2>6. l \in Nat
    BY <1>4
  <2>7. l > 0 => Fits(slots[a], k, l) /\ OnFlash(k, a, l)
    BY <1>2, <2>1, <2>4, <2>6 DEF InReply
  <2>8. ASSUME NEW j \in Clients, NEW b \in Slots, leased'[j][b] > 0
        PROVE  Fits(slots[b], j, leased[j][b])' /\ OnFlash(j, b, leased[j][b])'
    <3>1. PICK m \in Nat : m = leased'[j][b]
      <4>1. TypeOK'
        BY <1>5, BaseRest DEF Base
      <4>2. leased'[j][b] \in 0..LeaseTime
        BY <4>1 DEF TypeOK
      <4> QED
        BY <1>4, <4>2
    <3>2. (j = k /\ b = a /\ m = l) \/ m = leased[j][b]
      <4>1. leased \in [Clients -> [Slots -> 0..LeaseTime]]
        BY <1>1 DEF TypeOK
      <4>2. CASE leased' = [leased EXCEPT ![k][a] = l]
        BY <3>1, <4>1, <4>2
      <4>3. CASE leased' = leased
        BY <3>1, <4>3
      <4> QED
        BY <2>5, <4>2, <4>3
    <3>3. Fits(slots[b], j, m) /\ OnFlash(j, b, m)
      BY <1>2, <2>2, <2>7, <2>8, <3>1, <3>2 DEF InTable, InFlash
    <3> QED
      BY <2>1, <3>1, <3>3 DEF Fits, OnFlash, Last
  <2>9. InTable' /\ InFlash'
    BY <2>1, <2>2, <2>8 DEF InTable, InFlash
  <2>10. Compacting' /\ InWriting' /\ InReply'
    BY <2>1, <2>2 DEF Compacting, InWriting, InReply
  <2> QED
    BY <2>9, <2>10 DEF Durable
<1>6. CASE Second
  <2>1. UNCHANGED <<slots, phase, next_slot, writing, header, journal>>
    BY <1>6 DEF Second, flashVars
  <2>2. now' \in Nat /\ now' <= now + 1
    BY <1>1, <1>6, Clock, TimesAssumption
  <2>3. ASSUME NEW l \in Nat, NEW m \in Nat, m = l - 1
        PROVE  now' + m <= now + l
    BY <1>4, <2>2, <2>3
  <2>4. ASSUME NEW k \in Clients, NEW a \in Slots, leased'[k][a] > 0
        PROVE  \E l \in Nat, m \in Nat :
                 l = leased[k][a] /\ m = leased'[k][a] /\ l > 0 /\ m = l - 1
    <3>1. leased'[k][a] = Less(leased[k][a]) /\ leased[k][a] \in 0..LeaseTime
      BY <1>3, <1>6 DEF Second
    <3> QED
      BY <1>4, <2>4, <3>1, LessType
  <2>5. ASSUME NEW k \in Clients, NEW a \in Slots, NEW l \in Nat, NEW m \in Nat,
               m = l - 1, Fits(slots[a], k, l)
        PROVE  Fits(slots[a], k, m)'
    <3>1. now' + m <= now + l
      BY <2>3, <2>5
    <3>2. slots[a].expires_at \in Nat
      BY <1>4
    <3>3. now' + m <= slots[a].expires_at
      BY <1>4, <2>2, <2>5, <3>1, <3>2 DEF Fits
    <3> QED
      BY <2>1, <2>5, <3>3 DEF Fits
  <2>6. ASSUME NEW k \in Clients, NEW a \in Slots, NEW l \in Nat, NEW m \in Nat,
               m = l - 1, OnFlash(k, a, l)
        PROVE  OnFlash(k, a, m)'
    <3>1. now' + m <= now + l /\ journal' = journal
      BY <2>1, <2>3, <2>6
    <3> QED
      BY <1>1, <2>2, <2>6, <3>1, FlashKept
  <2>7. ASSUME writing # <<>>, NEW k \in Clients, NEW l \in Nat, NEW m \in Nat,
               m = l - 1, Fits(writing[1], k, l)
        PROVE  Fits(writing[1], k, m)'
    <3>1. now' + m <= now + l
      BY <2>3, <2>7
    <3>2. writing[1].expires_at \in Nat
      BY <1>1, <2>7, Numbers
    <3>3. now' + m <= writing[1].expires_at
      BY <1>4, <2>2, <2>7, <3>1, <3>2 DEF Fits
    <3> QED
      BY <2>1, <2>7, <3>3 DEF Fits
  <2>8. InTable'
    <3> SUFFICES ASSUME phase' # "boot", NEW k \in Clients, NEW a \in Slots,
                        leased'[k][a] > 0
                 PROVE  Fits(slots[a], k, leased[k][a])'
      BY DEF InTable
    <3>1. PICK l \in Nat, m \in Nat :
            l = leased[k][a] /\ m = leased'[k][a] /\ l > 0 /\ m = l - 1
      BY <2>4
    <3>2. Fits(slots[a], k, l)
      BY <1>2, <2>1, <3>1 DEF InTable
    <3>3. Fits(slots[a], k, m)'
      BY <2>5, <3>1, <3>2
    <3> QED
      BY <3>1, <3>3 DEF Fits
  <2>9. InFlash'
    <3> SUFFICES ASSUME phase' \in {"boot", "erase", "serve"}, NEW k \in Clients,
                        NEW a \in Slots, leased'[k][a] > 0
                 PROVE  header' /\ OnFlash(k, a, leased[k][a])'
      BY DEF InFlash
    <3>1. PICK l \in Nat, m \in Nat :
            l = leased[k][a] /\ m = leased'[k][a] /\ l > 0 /\ m = l - 1
      BY <2>4
    <3>2. header /\ OnFlash(k, a, l)
      BY <1>2, <2>1, <3>1 DEF InFlash
    <3>3. OnFlash(k, a, m)'
      BY <2>6, <3>1, <3>2
    <3> QED
      BY <2>1, <3>1, <3>2, <3>3 DEF OnFlash, Fits
  <2>10. Compacting'
    <3> SUFFICES ASSUME phase' = "compact", NEW k \in Clients,
                        NEW a \in Slots, a < next_slot', leased'[k][a] > 0,
                        ~(writing' # <<>> /\ writing'[1].slot = a)
                 PROVE  OnFlash(k, a, leased[k][a])'
      BY DEF Compacting
    <3>1. PICK l \in Nat, m \in Nat :
            l = leased[k][a] /\ m = leased'[k][a] /\ l > 0 /\ m = l - 1
      BY <2>4
    <3>2. OnFlash(k, a, l)
      BY <1>2, <2>1, <3>1 DEF Compacting
    <3>3. OnFlash(k, a, m)'
      BY <2>6, <3>1, <3>2
    <3> QED
      BY <3>1, <3>3 DEF OnFlash, Fits
  <2>11. InWriting'
    <3> SUFFICES ASSUME writing' # <<>>, NEW k \in Clients, NEW a \in Slots,
                        a = writing'[1].slot, leased'[k][a] > 0
                 PROVE  Fits(writing[1], k, leased[k][a])'
      BY DEF InWriting
    <3>1. PICK l \in Nat, m \in Nat :
            l = leased[k][a] /\ m = leased'[k][a] /\ l > 0 /\ m = l - 1
      BY <2>4
    <3>2. Fits(writing[1], k, l)
      BY <1>2, <2>1, <3>1 DEF InWriting
    <3>3. Fits(writing[1], k, m)'
      BY <2>1, <2>7, <3>1, <3>2
    <3> QED
      BY <3>1, <3>3 DEF Fits
  <2>12. InReply'
    <3> SUFFICES ASSUME reply' # <<>>, NEW k \in Clients, NEW a \in Slots, NEW m \in Nat,
                        k = reply'[1].client, a = reply'[1].slot, m = reply'[1].left
                 PROVE  /\ writing' # <<>> => writing'[1].slot = a
                        /\ m > 0 => Fits(slots[a], k, m)'
                        /\ m > 0 /\ writing' = <<>> => OnFlash(k, a, m)'
                        /\ m > 0 /\ writing' # <<>> => Fits(writing[1], k, m)'
      BY DEF InReply
    <3>1. reply # <<>> /\ reply' = <<[reply[1] EXCEPT !.left = Less(reply[1].left)]>>
      BY <1>6 DEF Second
    <3>2. reply[1] \in ReplyType
      BY <1>1, <3>1, Optional
    <3>3. PICK l \in 0..LeaseTime : l = reply[1].left
      BY <3>2 DEF ReplyType
    <3>4. k = reply[1].client /\ a = reply[1].slot /\ m = Less(l)
      BY <3>1, <3>2, <3>3 DEF ReplyType
    <3>5. l \in Nat /\ (m > 0 => l > 0 /\ m = l - 1)
      BY <1>4, <3>4, LessType
    <3>6. /\ writing # <<>> => writing[1].slot = a
          /\ l > 0 => Fits(slots[a], k, l)
          /\ l > 0 /\ writing = <<>> => OnFlash(k, a, l)
          /\ l > 0 /\ writing # <<>> => Fits(writing[1], k, l)
      BY <1>2, <3>1, <3>3, <3>4, <3>5 DEF InReply
    <3> QED
      BY <2>1, <2>5, <2>6, <2>7, <3>5, <3>6
  <2> QED
    BY <2>8, <2>9, <2>10, <2>11, <2>12 DEF Durable
<1>7. CASE Crash
  <2>1. /\ phase \in {"boot", "erase", "serve"} /\ phase' = "boot"
        /\ writing' = <<>> /\ reply' = <<>> /\ now' = 0
        /\ UNCHANGED <<header, journal, leased>>
    BY <1>1, <1>7 DEF Crash, flashVars, TypeOK, Phases
  <2>2. InFlash'
    <3> SUFFICES ASSUME NEW k \in Clients, NEW a \in Slots, leased'[k][a] > 0
                 PROVE  header' /\ OnFlash(k, a, leased[k][a])'
      BY DEF InFlash
    <3>1. PICK l \in Nat : l = leased[k][a] /\ l = leased'[k][a] /\ l > 0
      BY <1>3, <1>4, <2>1
    <3>2. header /\ OnFlash(k, a, l)
      BY <1>2, <2>1, <3>1 DEF InFlash
    <3>3. now' \in Nat /\ now' + l <= now + l /\ journal' = journal
      BY <1>4, <2>1
    <3>4. OnFlash(k, a, l)'
      BY <1>1, <3>2, <3>3, FlashKept
    <3> QED
      BY <2>1, <3>1, <3>2, <3>4 DEF OnFlash, Fits
  <2>3. InTable' /\ Compacting' /\ InWriting' /\ InReply'
    BY <2>1 DEF InTable, Compacting, InWriting, InReply
  <2> QED
    BY <2>2, <2>3 DEF Durable
<1>8. CASE UNCHANGED vars
  <2>1. UNCHANGED <<slots, phase, next_slot, writing, reply, write_pointer, header,
                    journal, leased, now>>
    BY <1>8 DEF vars, serverVars, flashVars, clientVars
  <2> QED
    BY <1>2, <2>1 DEF Durable, InTable, InFlash, Compacting, InWriting, InReply,
                      OnFlash, Last, Fits
<1> QED
  BY <1>5, <1>6, <1>7, <1>8

\* Every step keeps the leases durable.
LEMMA DurableStep ==
  ASSUME CrashIn \cap {"header", "compact"} = {}
  PROVE  Base /\ Durable /\ [Next]_vars => Durable'
<1> SUFFICES ASSUME Base, Durable, [Next]_vars PROVE Durable'
  OBVIOUS
<1>1. CASE \E k \in Clients : \/ Discover(k)
                             \/ \E a \in Slots : Request(k, a) \/ Decline(k, a)
                                                 \/ Release(k, a)
  <2>1. PICK k \in Clients, a \in Slots :
          Discover(k) \/ Request(k, a) \/ Decline(k, a) \/ Release(k, a)
    <3>1. 1 \in Slots
      BY TableAssumption DEF Slots
    <3> QED
      BY <1>1, <3>1
  <2> QED
    BY <2>1, DurableMessage
<1>2. CASE LoadLeaseTable
  BY <1>2, DurableLoad
<1>3. CASE EraseSector \/ ProgramHeader \/ CompactSlot \/ CompactDone
  BY <1>3, DurableCompact
<1>4. CASE BeginRecord \/ EndRecord
  BY <1>4, DurableWrite
<1>5. CASE SendAck \/ Second \/ Crash \/ UNCHANGED vars
  BY <1>5, DurableRest
<1> QED
  BY <1>1, <1>2, <1>3, <1>4, <1>5 DEF Next

\* A lease in the table of a server that serves is alive and its client's.
LEMMA DurableSurvives == Base /\ Durable => LeasesSurvive
<1> SUFFICES ASSUME Base, Durable, phase = "serve", NEW k \in Clients, NEW a \in Slots,
                    leased[k][a] > 0
             PROVE  slots[a].key = k /\ SlotAlive(slots[a])
  BY DEF LeasesSurvive
<1>1. TypeOK
  BY DEF Base
<1>2. PICK l \in Nat \ {0} : l = leased[k][a]
  BY <1>1, Numbers
<1>3. Fits(slots[a], k, l)
  BY <1>2 DEF Durable, InTable
<1>4. slots[a] \in SlotType
  BY <1>1 DEF TypeOK
<1>5. SlotAlive(slots[a])
  BY <1>1, <1>2, <1>3, <1>4, FitsAlive
<1> QED
  BY <1>3, <1>5 DEF Fits

\* The table, or the last word of the flash, names one client.
LEMMA DurableExclusive == Base /\ Durable => OneClientPerAddress
<1> SUFFICES ASSUME Base, Durable, NEW j \in Clients, NEW k \in Clients, NEW a \in Slots,
                    leased[j][a] > 0, leased[k][a] > 0
             PROVE  j = k
  BY DEF OneClientPerAddress
<1>1. CASE phase # "boot"
  BY <1>1 DEF Durable, InTable, Fits
<1>2. CASE phase = "boot"
  <2>1. OnFlash(j, a, leased[j][a]) /\ OnFlash(k, a, leased[k][a])
    BY <1>2 DEF Durable, InFlash
  <2>2. PICK i \in Positions : Last(a, i) /\ journal[i].key = j
    BY <2>1 DEF OnFlash, Fits
  <2>3. PICK n \in Positions : Last(a, n) /\ journal[n].key = k
    BY <2>1 DEF OnFlash, Fits
  <2>4. i \in Nat /\ n \in Nat
    BY TableAssumption DEF Positions
  <2>5. i = n
    BY <2>2, <2>3, <2>4 DEF Last
  <2> QED
    BY <2>2, <2>3, <2>5
<1> QED
  BY <1>1, <1>2

\* An acknowledged lease outlives every power failure outside the rewriting of
\* the sector: the server that serves again has it in its table
\* (dhcp_handle_request, flash_append_journal, load_lease_table).
THEOREM LeasesDurable ==
  CrashIn \cap {"header", "compact"} = {} => (Spec => []LeasesSurvive)
<1> SUFFICES ASSUME CrashIn \cap {"header", "compact"} = {}
             PROVE  Spec => []LeasesSurvive
  OBVIOUS
<1>1. Init => Base /\ Durable
  BY BaseInit, DurableInit
<1>2. (Base /\ Durable) /\ [Next]_vars => (Base /\ Durable)'
  BY BaseStep, DurableStep
<1>3. Base /\ Durable => LeasesSurvive
  BY DurableSurvives
<1> QED
  BY <1>1, <1>2, <1>3, PTL DEF Spec

\* No address is ever leased to two clients at a time, in memory or across a
\* restart (chose_address, dhcp_handle_request, load_lease_table).
THEOREM LeasesExclusive ==
  CrashIn \cap {"header", "compact"} = {} => (Spec => []OneClientPerAddress)
<1> SUFFICES ASSUME CrashIn \cap {"header", "compact"} = {}
             PROVE  Spec => []OneClientPerAddress
  OBVIOUS
<1>1. Init => Base /\ Durable
  BY BaseInit, DurableInit
<1>2. (Base /\ Durable) /\ [Next]_vars => (Base /\ Durable)'
  BY BaseStep, DurableStep
<1>3. Base /\ Durable => OneClientPerAddress
  BY DurableExclusive
<1> QED
  BY <1>1, <1>2, <1>3, PTL DEF Spec

-----------------------------------------------------------------------------
(* Offers and quarantine.                                                  *)

\* An offer keeps what was promised before, and what it promises itself.
LEMMA OfferKeepsOffer ==
  ASSUME TypeOK, OfferTime <= LeaseTime, NEW k \in Clients, NEW j \in Clients,
         NEW a \in Slots, NEW l \in Nat \ {0}, l <= OfferTime, now' = now,
         Fits(slots[a], j, l), OfferedSlot(slots, k, a)
  PROVE  Fits(slots[a], j, l)'
<1>1. l <= LeaseTime
  BY Numbers
<1> QED
  BY <1>1, OfferKeepsLease

\* The slot that was just offered.
LEMMA NewOfferFits ==
  ASSUME TypeOK, OfferTime <= LeaseTime, NEW k \in Clients, NEW a \in Slots, now' = now,
         slots'[a].key = k, slots'[a].state # "FREE",
         slots'[a].expires_at \in {now + LeaseTime, now + OfferTime}
  PROVE  Fits(slots[a], k, OfferTime)'
<1>1. now \in Nat /\ OfferTime \in Nat /\ LeaseTime \in Nat
  BY Numbers
<1>2. now + OfferTime <= slots'[a].expires_at
  BY <1>1
<1> QED
  BY <1>2 DEF Fits

\* No message takes an offer away from its client.
LEMMA OfferMessage ==
  ASSUME OfferTime <= LeaseTime, NEW k \in Clients, NEW a \in Slots
  PROVE  Base /\ InOffer /\ (Discover(k) \/ Request(k, a) \/ Decline(k, a) \/ Release(k, a))
           => InOffer'
<1> SUFFICES ASSUME Base, InOffer,
                    Discover(k) \/ Request(k, a) \/ Decline(k, a) \/ Release(k, a),
                    NEW j \in Clients, NEW b \in Slots, offered'[j][b] > 0,
                    <<j, b>> \notin fromFree'
             PROVE  phase' = "serve" /\ Fits(slots[b], j, offered[j][b])'
  BY DEF InOffer
<1>1. TypeOK /\ TypeOK'
  BY BaseMessage DEF Base
<1>2. PICK l \in Nat \ {0} : l = offered'[j][b]
  <2>1. offered'[j][b] \in 0..OfferTime
    BY <1>1 DEF TypeOK
  <2> QED
    BY <1>1, <2>1, Numbers
<1>3. offered[j][b] \in Nat /\ offered[j][b] <= OfferTime
  BY <1>1, Numbers
<1>4. l = offered[j][b] /\ <<j, b>> \notin fromFree =>
        Fits(slots[b], j, l) /\ l <= OfferTime
  BY <1>2, <1>3 DEF InOffer
<1>5. SUFFICES phase' = "serve" /\ Fits(slots[b], j, l)'
  BY <1>2 DEF Fits
<1>6. CASE Discover(k)
  <2>1. /\ OfferedSlot(slots, k, b) /\ OfferedPromise(k, offered, j, b)
        /\ phase' = "serve" /\ now' = now
    BY <1>1, <1>6, DiscoverEffect
  <2>2. CASE l = offered[j][b] /\ <<j, b>> \notin fromFree
    BY <1>1, <1>4, <2>1, <2>2, OfferKeepsOffer
  <2>3. CASE ~(l = offered[j][b] /\ <<j, b>> \notin fromFree)
    <3>1. /\ j = k /\ l = OfferTime
          /\ slots'[b].key = k /\ slots'[b].state # "FREE"
          /\ slots'[b].expires_at \in {now + LeaseTime, now + OfferTime}
      BY <1>2, <2>1, <2>3 DEF OfferedPromise
    <3>2. Fits(slots[b], k, OfferTime)'
      BY <1>1, <2>1, <3>1, NewOfferFits
    <3> QED
      BY <2>1, <3>1, <3>2
  <2> QED
    BY <2>2, <2>3
<1>7. CASE Decline(k, a)
  <2>1. /\ slots[a].key = k /\ (b # a => OfferedSlot(slots, k, b))
        /\ OfferedPromise(k, [offered EXCEPT ![k][a] = 0], j, b)
        /\ phase' = "serve" /\ now' = now
    BY <1>1, <1>7, DeclineEffect
  <2>2. PICK m \in Nat : m = [offered EXCEPT ![k][a] = 0][j][b]
                         /\ m = IF j = k /\ b = a THEN 0 ELSE offered[j][b]
    BY <1>1, <1>3 DEF TypeOK
  <2>3. CASE l = m /\ <<j, b>> \notin fromFree
    <3>1. l = offered[j][b] /\ ~(j = k /\ b = a)
      BY <2>2, <2>3
    <3>2. Fits(slots[b], j, l) /\ l <= OfferTime
      BY <1>4, <2>3, <3>1
    <3>3. b # a
      BY <2>1, <3>1, <3>2 DEF Fits
    <3> QED
      BY <1>1, <2>1, <3>2, <3>3, OfferKeepsOffer
  <2>4. CASE ~(l = m /\ <<j, b>> \notin fromFree)
    <3>1. /\ j = k /\ l = OfferTime
          /\ slots'[b].key = k /\ slots'[b].state # "FREE"
          /\ slots'[b].expires_at \in {now + LeaseTime, now + OfferTime}
      BY <1>2, <2>1, <2>2, <2>4 DEF OfferedPromise
    <3>2. Fits(slots[b], k, OfferTime)'
      BY <1>1, <2>1, <3>1, NewOfferFits
    <3> QED
      BY <2>1, <3>1, <3>2
  <2> QED
    BY <2>3, <2>4
<1>8. CASE Request(k, a)
  <2>1. PICK s \in SlotType :
         /\ s = [state |-> "BOUND", key |-> k, expires_at |-> now + LeaseTime]
         /\ slots' = [slots EXCEPT ![a] = s] /\ slots[a].key = k
         /\ phase' = "serve" /\ now' = now /\ offered' = offered
         /\ fromFree' = fromFree
    BY <1>1, <1>8, RequestEffect
  <2>2. Fits(slots[b], j, l) /\ l <= OfferTime
    BY <1>2, <1>4, <2>1
  <2>3. CASE b # a
    <3>1. slots'[b] = slots[b]
      BY <1>1, <2>1, <2>3 DEF TypeOK
    <3> QED
      BY <2>1, <2>2, <3>1 DEF Fits
  <2>4. CASE b = a
    <3>1. slots'[b] = s /\ j = k
      BY <1>1, <2>1, <2>2, <2>4 DEF TypeOK, Fits
    <3>2. now' + l <= now + LeaseTime
      BY <1>1, <2>1, <2>2, Numbers
    <3> QED
      BY <2>1, <3>1, <3>2 DEF Fits
  <2> QED
    BY <2>3, <2>4
<1>9. CASE Release(k, a)
  <2>1. PICK s \in SlotType :
         /\ slots' = [slots EXCEPT ![a] = s] /\ slots[a].key = k
         /\ offered' = [offered EXCEPT ![k][a] = 0]
         /\ phase' = "serve" /\ now' = now /\ fromFree' = fromFree
    BY <1>1, <1>9, ReleaseEffect
  <2>2. l = offered[j][b] /\ ~(j = k /\ b = a)
    BY <1>1, <1>2, <2>1 DEF TypeOK
  <2>3. Fits(slots[b], j, l)
    BY <1>4, <2>1, <2>2
  <2>4. b # a
    BY <2>1, <2>2, <2>3 DEF Fits
  <2>5. slots'[b] = slots[b]
    BY <1>1, <2>1, <2>4 DEF TypeOK
  <2> QED
    BY <2>1, <2>3, <2>5 DEF Fits
<1> QED
  BY <1>6, <1>7, <1>8, <1>9

\* Nor does anything else before its time has passed.
LEMMA OfferStep ==
  ASSUME OfferTime <= LeaseTime
  PROVE  Base /\ InOffer /\ [Next]_vars => InOffer'
<1> SUFFICES ASSUME Base, InOffer, [Next]_vars PROVE InOffer'
  OBVIOUS
<1>1. TypeOK
  BY DEF Base
<1>2. CASE \E k \in Clients : \/ Discover(k)
                             \/ \E a \in Slots : Request(k, a) \/ Decline(k, a)
                                                 \/ Release(k, a)
  <2>1. PICK k \in Clients, a \in Slots :
          Discover(k) \/ Request(k, a) \/ Decline(k, a) \/ Release(k, a)
    <3>1. 1 \in Slots
      BY TableAssumption DEF Slots
    <3> QED
      BY <1>2, <3>1
  <2> QED
    BY <2>1, OfferMessage
<1>3. CASE \/ LoadLeaseTable \/ EraseSector \/ ProgramHeader \/ CompactSlot
           \/ CompactDone
  <2>1. phase # "serve" /\ offered' = offered /\ fromFree' = fromFree
    BY <1>3 DEF LoadLeaseTable, EraseSector, ProgramHeader, CompactSlot, CompactDone,
                clientVars
  <2> QED
    BY <2>1 DEF InOffer
<1>4. CASE BeginRecord \/ EndRecord \/ SendAck \/ UNCHANGED vars
  <2>1. UNCHANGED <<phase, slots, now, offered, fromFree>>
    BY <1>4 DEF BeginRecord, EndRecord, SendAck, vars, serverVars, clientVars
  <2> QED
    BY <2>1 DEF InOffer, Fits
<1>5. CASE Second
  <2> SUFFICES ASSUME NEW k \in Clients, NEW a \in Slots, offered'[k][a] > 0,
                      <<k, a>> \notin fromFree'
               PROVE  phase' = "serve" /\ Fits(slots[a], k, offered[k][a])'
    BY DEF InOffer
  <2>1. PICK l \in 0..OfferTime : l = offered[k][a]
    BY <1>1 DEF TypeOK
  <2>2. offered'[k][a] = Less(l)
    BY <1>5, <2>1 DEF Second
  <2>3. l \in Nat /\ l > 0 /\ offered'[k][a] = l - 1
    BY <1>1, <2>1, <2>2, LessType, Numbers
  <2>4. phase = "serve" /\ Fits(slots[a], k, l)
    <3>1. l \in Nat /\ l - 1 > 0
      BY <2>1, <2>3
    <3>2. offered[k][a] > 1
      BY <2>1, <3>1
    <3>3. <<k, a>> \notin fromFree
      BY <1>5, <3>2 DEF Second
    <3> QED
      BY <2>1, <2>3, <3>3 DEF InOffer
  <2>5. now' \in Nat /\ now' <= now + 1 /\ now \in Nat
    BY <1>1, <1>5, Clock, Numbers, TimesAssumption
  <2>6. slots[a].expires_at \in Nat
    BY <1>1, Numbers
  <2>7. now' + (l - 1) <= slots[a].expires_at
    BY <2>3, <2>4, <2>5, <2>6 DEF Fits
  <2>8. slots' = slots /\ phase' = phase
    BY <1>5 DEF Second
  <2> QED
    BY <2>3, <2>4, <2>7, <2>8 DEF Fits
<1>6. CASE Crash
  <2>1. \A k \in Clients, a \in Slots : offered'[k][a] = 0
    BY <1>6 DEF Crash, NoPromise
  <2> QED
    BY <2>1 DEF InOffer
<1> QED
  BY <1>2, <1>3, <1>4, <1>5, <1>6 DEF Next

\* The table has what was promised and is not an exception.
LEMMA OfferHeld ==
  ASSUME Base, InOffer, NEW k \in Clients, NEW a \in Slots, offered[k][a] > 0,
         <<k, a>> \notin fromFree
  PROVE  Held(k, a)
<1>1. TypeOK
  BY DEF Base
<1>2. PICK l \in Nat \ {0} : l = offered[k][a]
  BY <1>1, Numbers
<1>3. Fits(slots[a], k, l) /\ slots[a] \in SlotType
  BY <1>1, <1>2 DEF InOffer, TypeOK
<1>4. SlotAlive(slots[a])
  BY <1>1, <1>2, <1>3, FitsAlive
<1> QED
  BY <1>3, <1>4 DEF Fits, Held

\* Nothing is offered at first.
LEMMA OfferInit == Init => InOffer
<1>1. Init => \A k \in Clients, a \in Slots : offered[k][a] = 0
  BY DEF Init, NoPromise
<1> QED
  BY <1>1 DEF InOffer

\* Every offer but those made from a FREE slot by its key is held for its
\* client while it stands, wherever power fails and whatever the clients send
\* (dhcp_build_offer_args, chose_address).
THEOREM OffersReserved == OfferTime <= LeaseTime => (Spec => []ReservedOffersHeld)
<1> SUFFICES ASSUME OfferTime <= LeaseTime PROVE Spec => []ReservedOffersHeld
  OBVIOUS
<1>1. Init => Base /\ InOffer
  BY BaseInit, OfferInit
<1>2. (Base /\ InOffer) /\ [Next]_vars => (Base /\ InOffer)'
  BY BaseStep, OfferStep
<1>3. Base /\ InOffer => ReservedOffersHeld
  BY OfferHeld DEF ReservedOffersHeld
<1> QED
  BY <1>1, <1>2, <1>3, PTL DEF Spec

\* While nobody releases an address, every FREE slot is one that was never
\* given out, and no record frees a slot.
NoneReleased ==
  /\ fromFree = {}
  /\ \A a \in Slots : slots[a].state = "FREE" => slots[a].key = NoClient
  /\ writing # <<>> => writing[1].state # "FREE"
  /\ \A i \in Positions : journal[i].kind = "whole" => journal[i].state # "FREE"

\* A client with a key of its own is then offered nothing from a FREE slot.
LEMMA OfferNotFromFree ==
  ASSUME NoClient \notin Clients, NEW k \in Clients, NEW off, fromFree = {},
         fromFree' \in SUBSET (Clients \X Slots),
         \A b \in Slots : slots'[b].state = "FREE" => slots'[b].key = NoClient,
         \A j \in Clients, b \in Slots : OfferedPromise(k, off, j, b)
  PROVE  fromFree' = {}
<1> SUFFICES ASSUME NEW j \in Clients, NEW b \in Slots, <<j, b>> \in fromFree'
             PROVE  FALSE
  OBVIOUS
<1>1. slots'[b].key = k /\ slots'[b].state = "FREE"
  BY DEF OfferedPromise
<1> QED
  BY <1>1

\* The messages but RELEASE keep it.
LEMMA NoneReleasedMessage ==
  ASSUME NoClient \notin Clients, NEW k \in Clients, NEW a \in Slots, Base, NoneReleased,
         Discover(k) \/ Request(k, a) \/ Decline(k, a)
  PROVE  NoneReleased'
<1>1. TypeOK
  BY DEF Base
<1>2. ASSUME NEW b \in Slots, OfferedSlot(slots, k, b), slots'[b].state = "FREE"
      PROVE  slots'[b].key = NoClient
  BY <1>2 DEF OfferedSlot, NoneReleased
<1>3. CASE Discover(k)
  <2>1. /\ fromFree' \in SUBSET (Clients \X Slots)
        /\ \A b \in Slots : OfferedSlot(slots, k, b)
        /\ \A j \in Clients, b \in Slots : OfferedPromise(k, offered, j, b)
        /\ UNCHANGED <<writing, journal>>
    BY <1>1, <1>3, DiscoverEffect
  <2>2. \A b \in Slots : slots'[b].state = "FREE" => slots'[b].key = NoClient
    BY <1>2, <2>1
  <2>3. fromFree' = {}
    BY <2>1, <2>2, OfferNotFromFree DEF NoneReleased
  <2> QED
    BY <2>1, <2>2, <2>3 DEF NoneReleased
<1>4. CASE Decline(k, a)
  <2> DEFINE off == [offered EXCEPT ![k][a] = 0]
  <2>1. /\ fromFree' \in SUBSET (Clients \X Slots)
        /\ slots'[a].state # "FREE"
        /\ \A b \in Slots : b # a => OfferedSlot(slots, k, b)
        /\ \A j \in Clients, b \in Slots : OfferedPromise(k, off, j, b)
        /\ UNCHANGED <<writing, journal>>
    BY <1>1, <1>4, DeclineEffect
  <2> HIDE DEF off
  <2>2. \A b \in Slots : slots'[b].state = "FREE" => slots'[b].key = NoClient
    BY <1>2, <2>1
  <2>3. fromFree' = {}
    BY <2>1, <2>2, OfferNotFromFree DEF NoneReleased
  <2> QED
    BY <2>1, <2>2, <2>3 DEF NoneReleased
<1>5. CASE Request(k, a)
  <2>1. PICK s \in SlotType, r \in RecordType :
         /\ s = [state |-> "BOUND", key |-> k, expires_at |-> now + LeaseTime]
         /\ r = Record(a, s)
         /\ slots' = [slots EXCEPT ![a] = s] /\ writing' = <<r>>
         /\ UNCHANGED <<journal, fromFree>>
    BY <1>1, <1>5, RequestEffect
  <2>2. s.state = "BOUND" /\ r.state = "BOUND" /\ writing'[1] = r
    BY <2>1, RecordTyped
  <2>3. \A b \in Slots : slots'[b] = IF b = a THEN s ELSE slots[b]
    BY <1>1, <2>1 DEF TypeOK
  <2> QED
    BY <2>1, <2>2, <2>3 DEF NoneReleased
<1> QED
  BY <1>3, <1>4, <1>5

\* So does every other step: what is compacted, programmed and read back is
\* not FREE.
LEMMA NoneReleasedStep ==
  ASSUME NoClient \notin Clients, "RELEASE" \notin Messages
  PROVE  Base /\ NoneReleased /\ [Next]_vars => NoneReleased'
<1> SUFFICES ASSUME Base, NoneReleased, [Next]_vars PROVE NoneReleased'
  OBVIOUS
<1>1. TypeOK /\ Shape
  BY DEF Base
<1>2. CASE \E k \in Clients : \/ Discover(k)
                             \/ \E a \in Slots : Request(k, a) \/ Decline(k, a)
                                                 \/ Release(k, a)
  <2>1. PICK k \in Clients, a \in Slots :
          Discover(k) \/ Request(k, a) \/ Decline(k, a) \/ Release(k, a)
    <3>1. 1 \in Slots
      BY TableAssumption DEF Slots
    <3> QED
      BY <1>2, <3>1
  <2>2. ~Release(k, a)
    BY DEF Release, Receives
  <2> QED
    BY <2>1, <2>2, NoneReleasedMessage
<1>3. CASE LoadLeaseTable
  <2>1. ASSUME NEW a \in Slots
        PROVE  Loaded(a).state = "FREE" => Loaded(a).key = NoClient
    <3>1. CASE RecordsOf(a) = {}
      BY <3>1 DEF Loaded, FreeSlot
    <3>2. CASE RecordsOf(a) # {}
      <4>1. MaxJournal \in Nat
        BY TableAssumption
      <4>2. RecordsOf(a) \in SUBSET (0..MaxJournal)
        BY <1>1, RecordsTyped
      <4>3. Max(RecordsOf(a)) \in RecordsOf(a)
        BY <3>2, <4>1, <4>2, MaxMember
      <4>4. PICK i \in RecordsOf(a) : i = Max(RecordsOf(a))
        BY <4>3
      <4>5. i \in Positions /\ journal[i].kind = "whole"
        BY <1>1, RecordsTyped DEF RecordsOf
      <4>6. Loaded(a).state = journal[i].state
        BY <3>2, <4>4 DEF Loaded
      <4> QED
        BY <4>5, <4>6 DEF NoneReleased
    <3> QED
      BY <3>1, <3>2
  <2>2. /\ \A a \in Slots : slots'[a] = IF header THEN Loaded(a) ELSE FreeSlot
        /\ UNCHANGED <<writing, journal, fromFree>>
    BY <1>3 DEF LoadLeaseTable, flashVars, clientVars
  <2>3. FreeSlot.key = NoClient
    BY DEF FreeSlot
  <2>4. \A a \in Slots : slots'[a].state = "FREE" => slots'[a].key = NoClient
    BY <2>1, <2>2, <2>3
  <2> QED
    BY <2>2, <2>4 DEF NoneReleased
<1>4. CASE EraseSector
  <2>1. \A i \in Positions : journal'[i].kind = "erased"
    BY <1>4 DEF EraseSector, Erased
  <2> QED
    BY <1>4, <2>1 DEF EraseSector, clientVars, NoneReleased
<1>5. CASE CompactSlot
  <2>1. next_slot \in Slots
    BY <1>1, <1>5, TableAssumption DEF CompactSlot, TypeOK, Slots
  <2>2. PICK a \in Slots : a = next_slot
    BY <2>1
  <2>3. slots[a] \in SlotType
    BY <1>1 DEF TypeOK
  <2>4. PICK r : r = Record(a, slots[a]) /\ r.state = slots[a].state /\ <<r>>[1] = r
    BY <2>3, RecordTyped
  <2>5. /\ writing' = IF slots[a].state = "FREE" THEN <<>> ELSE <<r>>
        /\ UNCHANGED <<slots, journal, fromFree>>
    BY <1>5, <2>2, <2>4 DEF CompactSlot, flashVars, clientVars
  <2> QED
    BY <2>4, <2>5 DEF NoneReleased
<1>6. CASE BeginRecord
  <2>1. UNCHANGED <<slots, writing, fromFree>>
    BY <1>6 DEF BeginRecord, serverVars, clientVars
  <2>2. \A i \in Positions : journal'[i] = journal[i] \/ journal'[i] = Torn
    BY <1>1, <1>6 DEF BeginRecord, TypeOK
  <2>3. Torn.kind # "whole"
    BY DEF Torn
  <2> QED
    BY <2>1, <2>2, <2>3 DEF NoneReleased
<1>7. CASE EndRecord
  <2>1. writing' = <<>> /\ writing # <<>> /\ UNCHANGED <<slots, fromFree>>
    BY <1>7 DEF EndRecord, clientVars
  <2>2. \A i \in Positions : journal'[i] = journal[i] \/ journal'[i] = writing[1]
    BY <1>1, <1>7 DEF EndRecord, TypeOK
  <2> QED
    BY <2>1, <2>2 DEF NoneReleased
<1>8. CASE Second
  BY <1>8 DEF Second, flashVars, NoneReleased
<1>9. CASE Crash
  <2>1. \A a \in Slots : slots'[a] = FreeSlot
    BY <1>9 DEF Crash
  <2> QED
    BY <1>9, <2>1 DEF Crash, flashVars, FreeSlot, NoneReleased
<1>10. CASE ProgramHeader \/ CompactDone \/ SendAck \/ UNCHANGED vars
  <2>1. UNCHANGED <<slots, writing, journal, fromFree>>
    BY <1>10 DEF ProgramHeader, CompactDone, SendAck, vars, serverVars, flashVars,
                 clientVars
  <2> QED
    BY <2>1 DEF NoneReleased
<1> QED
  BY <1>2, <1>3, <1>4, <1>5, <1>6, <1>7, <1>8, <1>9, <1>10 DEF Next

\* The statement without the exception: clients that have a key and never
\* release an address are held every address they are offered, across power
\* failures and whatever else the clients send (chose_address,
\* dhcp_handle_request).
THEOREM AllOffersReserved ==
  OfferTime <= LeaseTime /\ "RELEASE" \notin Messages /\ NoClient \notin Clients =>
    (Spec => []OffersHeld)
<1> SUFFICES ASSUME OfferTime <= LeaseTime, "RELEASE" \notin Messages,
                    NoClient \notin Clients
             PROVE  Spec => []OffersHeld
  OBVIOUS
<1> DEFINE Inv == Base /\ InOffer /\ NoneReleased
<1>1. Init => Inv
  <2>1. Init => NoneReleased
    BY DEF Init, NoneReleased, FreeSlot, Erased
  <2> QED
    BY <2>1, BaseInit, OfferInit
<1>2. Inv /\ [Next]_vars => Inv'
  BY BaseStep, OfferStep, NoneReleasedStep
<1>3. Inv => OffersHeld
  BY OfferHeld DEF OffersHeld, NoneReleased
<1> HIDE DEF Inv
<1> QED
  BY <1>1, <1>2, <1>3, PTL DEF Spec

\* No message gives an address in quarantine to another client.
LEMMA QuarantineMessage ==
  ASSUME Base, NEW k \in Clients, NEW a \in Slots,
         Discover(k) \/ Request(k, a) \/ Decline(k, a) \/ Release(k, a),
         NEW b \in Slots, slots[b].state = "DECLINED", SlotAlive(slots[b])
  PROVE  slots'[b].key = slots[b].key
<1>1. TypeOK
  BY DEF Base
<1>2. OfferedSlot(slots, k, b) => slots'[b].key = slots[b].key
  BY DEF OfferedSlot
<1>3. CASE Discover(k)
  BY <1>1, <1>2, <1>3, DiscoverEffect
<1>4. CASE Decline(k, a)
  <2>1. /\ slots[a].key = k /\ slots'[a].key = k
        /\ \A c \in Slots : c # a => OfferedSlot(slots, k, c)
    BY <1>1, <1>4, DeclineEffect
  <2>2. CASE b = a
    BY <2>1, <2>2
  <2>3. CASE b # a
    BY <1>2, <2>1, <2>3
  <2> QED
    BY <2>2, <2>3
<1>5. CASE Request(k, a)
  <2>1. PICK s \in SlotType :
         /\ s = [state |-> "BOUND", key |-> k, expires_at |-> now + LeaseTime]
         /\ slots' = [slots EXCEPT ![a] = s] /\ slots[a].key = k
    BY <1>1, <1>5, RequestEffect
  <2> QED
    BY <1>1, <2>1 DEF TypeOK
<1>6. CASE Release(k, a)
  <2>1. PICK s \in SlotType :
         s = Freed(slots[a]) /\ slots' = [slots EXCEPT ![a] = s]
    BY <1>1, <1>6, ReleaseEffect
  <2>2. s.key = slots[a].key
    BY <2>1 DEF Freed
  <2> QED
    BY <1>1, <2>1, <2>2 DEF TypeOK
<1> QED
  BY <1>3, <1>4, <1>5, <1>6

\* An address that a client declined is given to no other client before its
\* quarantine ends (dhcp_handle_decline, chose_address).
THEOREM QuarantineHolds == Spec => QuarantineKept
<1> DEFINE Kept == \A a \in Slots :
                     /\ slots[a].state = "DECLINED" /\ SlotAlive(slots[a])
                     /\ phase' = "serve"
                     => slots'[a].key = slots[a].key
<1>1. Init => Base
  BY BaseInit
<1>2. Base /\ [Next]_vars => Base'
  BY BaseStep
<1>3. Base /\ [Next]_vars => [Kept]_vars
  <2> SUFFICES ASSUME Base, Next, NEW b \in Slots, slots[b].state = "DECLINED",
                      SlotAlive(slots[b]), phase' = "serve"
               PROVE  slots'[b].key = slots[b].key
    OBVIOUS
  <2>1. CASE \E k \in Clients : \/ Discover(k)
                               \/ \E a \in Slots : Request(k, a) \/ Decline(k, a)
                                                   \/ Release(k, a)
    <3>1. PICK k \in Clients, a \in Slots :
            Discover(k) \/ Request(k, a) \/ Decline(k, a) \/ Release(k, a)
      BY <2>1
    <3> QED
      BY <3>1, QuarantineMessage
  <2>2. CASE LoadLeaseTable
    <3>1. slots[b].state = "FREE"
      BY <2>2 DEF LoadLeaseTable, Base, Flow, FreeSlot
    <3> QED
      BY <3>1
  <2>3. CASE \/ EraseSector \/ ProgramHeader \/ CompactSlot \/ CompactDone
             \/ BeginRecord \/ EndRecord \/ SendAck \/ Second
    BY <2>3 DEF EraseSector, ProgramHeader, CompactSlot, CompactDone, BeginRecord,
                EndRecord, SendAck, Second, serverVars
  <2>4. CASE Crash
    BY <2>4 DEF Crash
  <2> QED
    BY <2>1, <2>2, <2>3, <2>4 DEF Next
<1> HIDE DEF Kept
<1>4. Spec => [][Kept]_vars
  BY <1>1, <1>2, <1>3, PTL DEF Spec
<1> QED
  BY <1>4 DEF QuarantineKept, Kept
=============================================================================
