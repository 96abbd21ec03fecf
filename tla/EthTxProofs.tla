----------------------------- MODULE EthTxProofs -----------------------------
(***************************************************************************)
(* Proofs about EthTx for every ring size, every wake-up threshold, every  *)
(* packet size and every set of packets.                                   *)
(***************************************************************************)
EXTENDS EthTx, ListFacts

USE SizeAssumption

Packet == [skb : Skbs \cup {None}, descs : 0 .. MaxDescs]
Entry == [skb : Skbs, descs : Sizes]
EntryDescs == [e \in Entry |-> e.descs]

(* start_xmit has prepared a packet and not started the engine. *)
Busy == xmit.at # "idle"
Pending == IF Busy THEN xmit.descs ELSE 0

(* The type invariant, with the packets start_xmit has really prepared *)
TypeLoose ==
    /\ up \in BOOLEAN /\ stopped \in BOOLEAN /\ irq \in BOOLEAN
    /\ overrun \in BOOLEAN /\ lost \in BOOLEAN
    /\ next_to_use \in Slots /\ next_to_clean \in Slots
    /\ tx_info \in [Slots -> Packet]
    /\ owner \in [Skbs -> {"stack", "driver"}]
    /\ xmit \in [at : {"idle", "check", "stop", "action"}, skb : Skbs \cup {None},
                 descs : 0 .. MaxDescs]
    /\ Busy => xmit.skb \in Skbs /\ xmit.descs \in Sizes
    /\ poll \in {"idle", "get", "clean", "check", "wake", "done"}
    /\ total_done \in 0 .. HwDescs /\ used \in 0 .. HwDescs
    /\ reported \in Nat /\ part \in Nat
    /\ hw \in Seq(Entry)

(* The part reported is of the engine's first packet, and not all of it. *)
PartOfFirst ==
    /\ hw = <<>> => part = 0
    /\ hw # <<>> => part < EntryDescs[Head(hw)]

(* A descriptor is in the engine, reported, or of the packet start_xmit is *)
(* working on.                                                             *)
Counted == used + part = Weight(EntryDescs, hw) + reported + Pending

(* What start_xmit has seen of the queue before it leaves it running; the  *)
(* poll only makes more room.                                              *)
RoomKept == up /\ ~stopped /\ xmit.at \in {"idle", "action"} => used + MaxDescs <= HwDescs

(* The interface is down, or the poll is not in its loop. *)
AtRest ==
    /\ ~up => /\ stopped /\ ~Busy /\ poll = "idle"
              /\ hw = <<>> /\ reported = 0 /\ used = 0
    /\ poll # "clean" => total_done = 0

CInv == TypeLoose /\ PartOfFirst /\ Counted /\ RoomKept /\ AtRest
-----------------------------------------------------------------------------
(* Every entry weighs its descriptors, at least one. *)
LEMMA EntriesWeigh ==
    /\ Weighs(EntryDescs, Entry) /\ Entry \subseteq Packet
    /\ \A e \in Entry : EntryDescs[e] = e.descs /\ e.descs \in Sizes /\ e.skb \in Skbs
    /\ \A e \in Entry : e.descs \in Nat
    /\ \A e \in Entry : EntryDescs[e] >= 1
  <1>0. \A n \in Sizes : n \in Nat /\ n >= 1 /\ n \in 0 .. MaxDescs
    OBVIOUS
  <1>1. Entry \subseteq Packet
    BY <1>0 DEF Entry, Packet
  <1>2. \A e \in Entry : EntryDescs[e] = e.descs /\ e.descs \in Sizes /\ e.skb \in Skbs
    BY DEF EntryDescs, Entry
  <1>3. Weighs(EntryDescs, Entry)
    BY <1>0 DEF Weighs, EntryDescs, Entry
  <1>4. \A e \in Entry : EntryDescs[e] >= 1 /\ e.descs \in Nat
    BY <1>0, <1>2
  <1> QED BY <1>1, <1>2, <1>3, <1>4

(* The first packet of the engine, and what the rest weighs *)
LEMMA FirstWeighs ==
    ASSUME NEW s \in Seq(Entry), s # <<>>
    PROVE  \E h \in Entry, t \in Seq(Entry), d \in Nat, v \in Nat :
              /\ h = Head(s) /\ t = Tail(s) /\ d = EntryDescs[h] /\ d = h.descs
              /\ v = Weight(EntryDescs, t) /\ Weight(EntryDescs, s) = d + v
  <1>1. PICK h \in Entry, t \in Seq(Entry) : h = Head(s) /\ t = Tail(s)
    BY DelHead
  <1>2. Weight(EntryDescs, s) = EntryDescs[h] + Weight(EntryDescs, t)
    BY <1>1, EntriesWeigh, WeightTail
  <1>3. PICK v \in Nat : v = Weight(EntryDescs, t)
    BY EntriesWeigh, WeightType
  <1>4. PICK d \in Nat : d = EntryDescs[h] /\ d = h.descs
    BY EntriesWeigh
  <1> QED BY <1>1, <1>2, <1>3, <1>4

(* The numbers of a state, as constants for arithmetic *)
LEMMA Counts ==
    ASSUME CInv
    PROVE  \E w \in Nat, x \in Nat : /\ w = Weight(EntryDescs, hw) /\ x = Pending
                                     /\ used + part = w + reported + x
                                     /\ used \in Nat /\ used <= HwDescs /\ reported \in Nat
                                     /\ part \in Nat /\ part <= w
  <1>0. hw \in Seq(Entry) /\ part \in Nat /\ reported \in Nat /\ used \in 0 .. HwDescs
    BY DEF CInv, TypeLoose
  <1>1. PICK w \in Nat : w = Weight(EntryDescs, hw)
    BY <1>0, EntriesWeigh, WeightType
  <1>2. PICK x \in Nat : x = Pending
    BY DEF Pending, CInv, TypeLoose
  <1>3. part <= w
    <2>1. CASE hw = <<>>
      BY <1>0, <1>1, <2>1 DEF CInv, PartOfFirst
    <2>2. CASE hw # <<>>
      <3>1. PICK h \in Entry, t \in Seq(Entry), d \in Nat, v \in Nat :
               h = Head(hw) /\ d = EntryDescs[h] /\ Weight(EntryDescs, hw) = d + v
        BY <1>0, <2>2, FirstWeighs
      <3>2. part < d
        BY <2>2, <3>1 DEF CInv, PartOfFirst
      <3> QED BY <1>0, <1>1, <3>1, <3>2
    <2> QED BY <2>1, <2>2
  <1>4. used + part = w + reported + x
    BY <1>1, <1>2 DEF CInv, Counted
  <1> QED BY <1>0, <1>1, <1>2, <1>3, <1>4

(* An empty queue *)
LEMMA InitCInv == Init => CInv
  <1> SUFFICES ASSUME Init PROVE CInv
    OBVIOUS
  <1> USE DEF Init
  <1>1. ~Busy /\ Pending = 0
    BY DEF Busy, Pending, Idling
  <1>2. TypeLoose
    <2>1. hw \in Seq(Entry)
      BY EmptySeq
    <2>2. 0 \in Slots /\ 0 \in 0 .. HwDescs
      BY DEF Slots
    <2>3. Empty \in Packet
      BY DEF Packet, Empty
    <2>4. tx_info \in [Slots -> Packet]
      BY <2>3
    <2>5. xmit \in [at : {"idle", "check", "stop", "action"}, skb : Skbs \cup {None},
                    descs : 0 .. MaxDescs]
      BY DEF Idling
    <2> QED BY <1>1, <2>1, <2>2, <2>4, <2>5 DEF TypeLoose
  <1>3. Counted
    <2>1. Weight(EntryDescs, <<>>) = 0
      BY EntriesWeigh, WeightEmpty
    <2> QED BY <1>1, <2>1 DEF Counted
  <1>4. RoomKept /\ AtRest /\ PartOfFirst
    BY <1>1 DEF RoomKept, AtRest, PartOfFirst
  <1> QED BY <1>2, <1>3, <1>4 DEF CInv

(* A failed packet changes a slot and no count. *)
LEMMA FailedKeepsC ==
    ASSUME CInv, NEW p \in Skbs, XmitMapError(p) \/ XmitDropped(p)
    PROVE  CInv'
  <1> USE DEF XmitMapError, XmitDropped, device
  <1>1. TypeLoose'
    <2>1. tx_info \in [Slots -> Packet] /\ next_to_use \in Slots
      BY DEF CInv, TypeLoose
    <2>2. PICK q \in Skbs \cup {None} : tx_info' = [tx_info EXCEPT ![next_to_use].skb = q]
      OBVIOUS
    <2>3. tx_info' \in [Slots -> Packet]
      BY <2>1, <2>2 DEF Packet
    <2>4. overrun' \in BOOLEAN
      OBVIOUS
    <2> QED BY <2>3, <2>4 DEF CInv, TypeLoose, Busy
  <1>2. ~Busy' /\ Pending' = 0 /\ ~Busy /\ Pending = 0
    BY DEF Busy, Pending
  <1>3. Counted' /\ RoomKept' /\ AtRest' /\ PartOfFirst'
    BY <1>2 DEF CInv, Counted, RoomKept, AtRest, PartOfFirst, EntryDescs, Entry
  <1> QED BY <1>1, <1>3 DEF CInv

(* There is room for the packet. *)
LEMMA PrepareKeepsC ==
    ASSUME CInv, NEW p \in Skbs, NEW n \in Sizes, XmitPrepare(p, n)
    PROVE  /\ CInv' /\ Busy' /\ ~Busy
           /\ tx_info' = [tx_info EXCEPT ![next_to_use] = [skb |-> p, descs |-> n]]
           /\ xmit' = [at |-> "check", skb |-> p, descs |-> n]
  <1> USE DEF XmitPrepare
  <1>1. ~Busy /\ Pending = 0 /\ ~stopped /\ ~stopped' /\ up /\ up'
    BY DEF Busy, Pending, CInv, AtRest
  <1>2. n \in 1 .. MaxDescs /\ used + MaxDescs <= HwDescs /\ used \in Nat
    BY <1>1 DEF CInv, RoomKept, TypeLoose, Busy
  <1>3. ~(al_udma_available_get < n)
    BY <1>2 DEF al_udma_available_get
  <1>4. /\ tx_info' = [tx_info EXCEPT ![next_to_use] = [skb |-> p, descs |-> n]]
        /\ used' = used + n
        /\ xmit' = [at |-> "check", skb |-> p, descs |-> n]
    BY <1>3
  <1>5. next_to_use \in Slots /\ tx_info \in [Slots -> Packet]
    BY DEF CInv, TypeLoose
  <1>6. Busy' /\ Pending' = n /\ xmit'.at = "check" /\ xmit'.skb = p /\ xmit'.descs = n
    BY <1>4 DEF Pending, Busy
  <1>7. TypeLoose'
    <2>1. next_to_use' \in Slots
      BY <1>5 DEF Slots, Succ
    <2>2. tx_info' \in [Slots -> Packet]
      BY <1>2, <1>4, <1>5 DEF Packet
    <2>3. used' \in 0 .. HwDescs
      BY <1>2, <1>4
    <2>4. owner' \in [Skbs -> {"stack", "driver"}]
      BY DEF CInv, TypeLoose
    <2>5. xmit' \in [at : {"idle", "check", "stop", "action"}, skb : Skbs \cup {None},
                     descs : 0 .. MaxDescs]
      BY <1>2, <1>4
    <2>6. overrun' \in BOOLEAN
      OBVIOUS
    <2> QED BY <1>6, <2>1, <2>2, <2>3, <2>4, <2>5, <2>6 DEF CInv, TypeLoose
  <1>8. Counted'
    <2>1. PICK w \in Nat : /\ w = Weight(EntryDescs, hw) /\ used + part = w + reported + 0
                           /\ reported \in Nat /\ part \in Nat
      BY <1>1, Counts
    <2>2. Weight(EntryDescs, hw)' = w /\ reported' = reported /\ part' = part
      BY <2>1 DEF EntryDescs, Entry
    <2>3. (used + n) + part = w + reported + n
      BY <1>2, <2>1
    <2> QED BY <1>4, <1>6, <2>2, <2>3 DEF Counted
  <1>9. RoomKept' /\ AtRest' /\ PartOfFirst'
    BY <1>1, <1>6 DEF CInv, RoomKept, AtRest, PartOfFirst, EntryDescs, Entry
  <1> QED BY <1>1, <1>4, <1>6, <1>7, <1>8, <1>9 DEF CInv

(* al_eth_start_xmit looks for room, and stops the queue. *)
LEMMA CheckKeepsC == CInv /\ (XmitCheck \/ XmitStop) => CInv'
  <1> SUFFICES ASSUME CInv, XmitCheck \/ XmitStop PROVE CInv'
    OBVIOUS
  <1> USE DEF XmitCheck, XmitStop, sw, device, history
  <1>1. /\ xmit'.at \in {"stop", "action"} /\ xmit'.skb = xmit.skb /\ xmit'.descs = xmit.descs
        /\ xmit' \in [at : {"idle", "check", "stop", "action"}, skb : Skbs \cup {None},
                       descs : 0 .. MaxDescs]
        /\ Busy /\ Busy'
    BY DEF CInv, TypeLoose, Busy
  <1>2. TypeLoose'
    BY <1>1 DEF CInv, TypeLoose
  <1>3. Pending' = Pending
    BY <1>1 DEF Pending
  <1>4. Counted' /\ AtRest' /\ PartOfFirst'
    BY <1>1, <1>3 DEF CInv, Counted, AtRest, PartOfFirst, EntryDescs, Entry
  <1>5. RoomKept'
    <2>1. xmit'.at = "action" /\ ~stopped' => used + MaxDescs <= HwDescs
      BY DEF al_udma_available_get, CInv, TypeLoose
    <2> QED BY <1>1, <2>1 DEF RoomKept
  <1> QED BY <1>2, <1>4, <1>5 DEF CInv

(* The packet start_xmit is working on *)
Prepared == [skb |-> xmit.skb, descs |-> xmit.descs]

(* The engine gets the packet. *)
LEMMA ActionKeepsC ==
    ASSUME CInv, XmitAction
    PROVE  CInv' /\ Busy /\ ~Busy' /\ hw' = Append(hw, Prepared) /\ Prepared \in Entry
  <1> USE DEF XmitAction, sw, history
  <1>1. /\ Busy /\ ~Busy' /\ Pending' = 0 /\ Pending = xmit.descs
        /\ xmit.descs \in Sizes /\ xmit.skb \in Skbs
    BY DEF Busy, Pending, Idling, CInv, TypeLoose
  <1>2. PICK e \in Entry : e = Prepared /\ EntryDescs[e] = Pending
    BY <1>1 DEF Prepared, Entry, EntryDescs
  <1>3. hw' = Append(hw, e)
    BY <1>1, <1>2 DEF Prepared
  <1>0. hw \in Seq(Entry)
    BY DEF CInv, TypeLoose
  <1>4. TypeLoose'
    <2>1. hw' \in Seq(Entry)
      BY <1>0, <1>3, AppendProperties
    <2>2. xmit' \in [at : {"idle", "check", "stop", "action"}, skb : Skbs \cup {None},
                     descs : 0 .. MaxDescs]
      BY DEF Idling
    <2> QED BY <1>1, <2>1, <2>2 DEF CInv, TypeLoose
  <1>5. Counted'
    <2>1. PICK w \in Nat, x \in Nat : /\ w = Weight(EntryDescs, hw) /\ x = Pending
                                      /\ used + part = w + reported + x /\ reported \in Nat
      BY Counts
    <2>2. Weight(EntryDescs, Append(hw, e)) = Weight(EntryDescs, hw) + EntryDescs[e]
      BY <1>0, EntriesWeigh, WeightAppend
    <2>3. Weight(EntryDescs, hw)' = w + x
      BY <1>2, <1>3, <2>1, <2>2 DEF EntryDescs, Entry
    <2>4. w + reported + x = (w + x) + reported + 0
      BY <2>1
    <2> QED BY <1>1, <2>1, <2>3, <2>4 DEF Counted
  <1>6. PartOfFirst'
    <2>0. hw' # <<>> /\ part' = part
      BY <1>0, <1>3, AppendProperties
    <2>1. CASE hw = <<>>
      <3>1. Head(hw') = e
        BY <1>3, <2>1
      <3>2. part = 0 /\ EntryDescs[e] >= 1
        BY <2>1, EntriesWeigh DEF CInv, PartOfFirst
      <3>3. EntryDescs[e] \in Nat
        BY EntriesWeigh
      <3>4. part' < EntryDescs[Head(hw')]
        BY <2>0, <3>1, <3>2, <3>3
      <3> QED BY <2>0, <3>4 DEF PartOfFirst, EntryDescs, Entry
    <2>2. CASE hw # <<>>
      <3>1. Head(hw') = Head(hw)
        BY <1>0, <1>3, <2>2, AppendProperties
      <3> QED BY <2>0, <2>2, <3>1 DEF CInv, PartOfFirst, EntryDescs, Entry
    <2> QED BY <2>1, <2>2
  <1>7. RoomKept' /\ AtRest'
    BY <1>1 DEF CInv, RoomKept, AtRest
  <1> QED BY <1>1, <1>2, <1>3, <1>4, <1>5, <1>6, <1>7 DEF CInv

(* tx_poll acknowledges what is reported: none of it is of the packet      *)
(* start_xmit is working on.                                               *)
LEMMA GetKeepsC == CInv /\ PollGet => CInv'
  <1> SUFFICES ASSUME CInv, PollGet PROVE CInv'
    OBVIOUS
  <1> USE DEF PollGet, sw, history
  <1>1. PICK w \in Nat, x \in Nat : /\ w = Weight(EntryDescs, hw) /\ x = Pending
                                    /\ used + part = w + reported + x
                                    /\ used \in Nat /\ used <= HwDescs /\ reported \in Nat
                                    /\ part \in Nat /\ part <= w
    BY Counts
  <1>2. Busy' = Busy /\ Pending' = Pending /\ up /\ up'
    BY DEF Busy, Pending, CInv, AtRest
  <1>3. /\ used' + part = w + 0 + x /\ used' \in 0 .. HwDescs /\ used' <= used
        /\ total_done' \in 0 .. HwDescs
    BY <1>1
  <1>4. TypeLoose'
    BY <1>2, <1>3 DEF CInv, TypeLoose
  <1>5. Counted' /\ PartOfFirst'
    BY <1>1, <1>2, <1>3 DEF CInv, Counted, PartOfFirst, EntryDescs, Entry
  <1>6. RoomKept'
    <2>1. used + MaxDescs <= HwDescs => used' + MaxDescs <= HwDescs
      BY <1>1, <1>3
    <2> QED BY <1>2, <2>1 DEF CInv, RoomKept
  <1>7. AtRest'
    BY <1>2 DEF CInv, AtRest
  <1> QED BY <1>4, <1>5, <1>6, <1>7 DEF CInv

(* Cleaning a slot leaves descriptor counts as they are. *)
LEMMA CleanKeepsC == CInv /\ PollClean => CInv'
  <1> SUFFICES ASSUME CInv, PollClean PROVE CInv'
    OBVIOUS
  <1> USE DEF PollClean, device, history
  <1>1. /\ tx_info \in [Slots -> Packet] /\ next_to_clean \in Slots
        /\ owner \in [Skbs -> {"stack", "driver"}] /\ total_done \in 0 .. HwDescs
    BY DEF CInv, TypeLoose
  <1>2. Busy' = Busy /\ Pending' = Pending
    BY DEF Busy, Pending
  <1>3. total_done' \in 0 .. HwDescs
    <2>1. tx_info[next_to_clean].descs \in Nat /\ tx_info[next_to_clean].descs <= total_done
      BY <1>1 DEF Packet, Cleanable
    <2> QED BY <1>1, <2>1
  <1>4. TypeLoose'
    <2>1. tx_info' \in [Slots -> Packet]
      BY <1>1 DEF Packet
    <2>2. next_to_clean' \in Slots
      BY <1>1 DEF Slots, Succ
    <2>3. owner' \in [Skbs -> {"stack", "driver"}]
      BY <1>1
    <2> QED BY <1>2, <1>3, <2>1, <2>2, <2>3 DEF CInv, TypeLoose
  <1>5. Counted' /\ AtRest' /\ PartOfFirst' /\ RoomKept'
    BY <1>2 DEF CInv, Counted, AtRest, PartOfFirst, RoomKept, EntryDescs, Entry
  <1> QED BY <1>4, <1>5 DEF CInv

(* The interrupt, and the poll after its loop.  tx_poll wakes the queue    *)
(* only with room for the largest packet, looking again under the lock.    *)
LEMMA PollKeepsC ==
    CInv /\ (Interrupt \/ PollCleaned \/ PollCheck \/ PollWake \/ PollDone) => CInv'
  <1> SUFFICES ASSUME CInv, Interrupt \/ PollCleaned \/ PollCheck \/ PollWake \/ PollDone
               PROVE  CInv'
    OBVIOUS
  <1> USE DEF sw, device, history
  <1>0. /\ stopped \in BOOLEAN /\ lost \in BOOLEAN /\ irq \in BOOLEAN /\ used \in Nat
        /\ poll # "idle" => up
        /\ poll # "clean" => total_done = 0
    BY DEF CInv, AtRest, TypeLoose
  <1>1. /\ UNCHANGED <<up, sw, xmit, used, hw, part, reported, overrun>> /\ total_done' = 0
        /\ poll' \in {"idle", "get", "check", "wake", "done"}
        /\ irq' \in BOOLEAN /\ stopped' \in BOOLEAN /\ lost' \in BOOLEAN
        /\ up
    <2>1. CASE Interrupt
      BY <1>0, <2>1 DEF Interrupt
    <2>2. CASE PollCleaned
      BY <1>0, <2>2 DEF PollCleaned
    <2>3. CASE PollCheck
      BY <1>0, <2>3 DEF PollCheck
    <2>4. CASE PollWake \/ PollDone
      BY <1>0, <2>4 DEF PollWake, PollDone
    <2> QED BY <2>1, <2>2, <2>3, <2>4
  <1>2. Busy' = Busy /\ Pending' = Pending
    BY <1>1 DEF Busy, Pending
  <1>3. TypeLoose'
    BY <1>1, <1>2 DEF CInv, TypeLoose
  <1>4. Counted' /\ AtRest' /\ PartOfFirst'
    BY <1>1, <1>2 DEF CInv, Counted, AtRest, PartOfFirst, EntryDescs, Entry
  <1>5. RoomKept'
    <2>1. CASE stopped' = stopped
      BY <1>1, <2>1 DEF CInv, RoomKept
    <2>2. CASE stopped' # stopped
      <3>1. PollWake /\ MayWake
        BY <1>0, <2>2 DEF Interrupt, PollCleaned, PollCheck, PollWake, PollDone
      <3>2. used + MaxDescs <= HwDescs
        BY <1>0, <3>1 DEF MayWake, al_udma_available_get
      <3> QED BY <1>1, <3>2 DEF RoomKept
    <2> QED BY <2>1, <2>2
  <1> QED BY <1>3, <1>4, <1>5 DEF CInv

(* The engine reports a descriptor of its oldest packet: the last one of   *)
(* it, or not.                                                             *)
LEMMA ReportKeepsC ==
    ASSUME CInv, HwReport
    PROVE  /\ CInv'
           /\ \/ part' = part + 1 /\ hw' = hw
              \/ part' = 0 /\ hw' = Tail(hw) /\ part + 1 = EntryDescs[Head(hw)]
  <1> USE DEF HwReport, sw, history
  <1>0. hw \in Seq(Entry) /\ hw # <<>> /\ part \in Nat /\ part < EntryDescs[Head(hw)]
    BY DEF CInv, TypeLoose, PartOfFirst
  <1>1. PICK h \in Entry, t \in Seq(Entry), d \in Nat, v \in Nat :
           /\ h = Head(hw) /\ t = Tail(hw) /\ d = EntryDescs[h] /\ d = h.descs
           /\ v = Weight(EntryDescs, t) /\ Weight(EntryDescs, hw) = d + v
    BY <1>0, FirstWeighs
  <1>2. PICK x \in Nat : /\ x = Pending /\ used + part = (d + v) + reported + x
                         /\ reported \in Nat /\ used \in Nat
    BY <1>1, Counts
  <1>3. Busy' = Busy /\ Pending' = Pending /\ used' = used /\ reported' = reported + 1
    BY DEF Busy, Pending
  <1>4. part < d
    BY <1>0, <1>1
  <1>5. CASE part + 1 < d
    <2>1. part' = part + 1 /\ hw' = hw
      BY <1>1, <1>5
    <2>2. TypeLoose'
      BY <1>0, <1>2, <1>3, <2>1 DEF CInv, TypeLoose
    <2>3. Weight(EntryDescs, hw)' = d + v
      BY <1>1, <2>1 DEF EntryDescs, Entry
    <2>4. used + (part + 1) = (d + v) + (reported + 1) + x
      BY <1>0, <1>2
    <2>5. Counted'
      BY <1>2, <1>3, <2>1, <2>3, <2>4 DEF Counted
    <2>6. part' < EntryDescs[Head(hw')] /\ hw' # <<>>
      BY <1>0, <1>1, <1>5, <2>1
    <2>7. PartOfFirst' /\ RoomKept' /\ AtRest'
      BY <1>3, <2>6 DEF CInv, PartOfFirst, RoomKept, AtRest, EntryDescs, Entry
    <2> QED BY <2>1, <2>2, <2>5, <2>7 DEF CInv
  <1>6. CASE ~(part + 1 < d)
    <2>1. part' = 0 /\ hw' = t /\ part + 1 = d
      BY <1>0, <1>1, <1>4, <1>6
    <2>2. TypeLoose'
      BY <1>1, <1>2, <1>3, <2>1, SMTT(40) DEF CInv, TypeLoose
    <2>3. Weight(EntryDescs, hw)' = v
      BY <1>1, <2>1 DEF EntryDescs, Entry
    <2>4. used + 0 = v + (reported + 1) + x
      BY <1>0, <1>2, <2>1
    <2>5. Counted'
      BY <1>2, <1>3, <2>1, <2>3, <2>4 DEF Counted
    <2>6. PartOfFirst'
      <3>1. CASE t = <<>>
        BY <2>1, <3>1 DEF PartOfFirst
      <3>2. CASE t # <<>>
        <4>1. Head(t) \in Entry
          BY <3>2, DelHead
        <4>2. EntryDescs[Head(t)] \in Nat /\ EntryDescs[Head(t)] >= 1
          BY <4>1, EntriesWeigh
        <4>3. part' < EntryDescs[Head(hw')]
          BY <2>1, <4>2
        <4> QED BY <2>1, <3>2, <4>3 DEF PartOfFirst, EntryDescs, Entry
      <3> QED BY <3>1, <3>2
    <2>7. RoomKept' /\ AtRest'
      BY <1>3 DEF CInv, RoomKept, AtRest
    <2> QED BY <1>1, <2>1, <2>2, <2>5, <2>6, <2>7 DEF CInv
  <1> QED BY <1>5, <1>6

(* al_eth_down and al_eth_up reset the counters. *)
LEMMA DownKeepsC == CInv /\ (al_eth_down \/ al_eth_up) => CInv'
  <1> SUFFICES ASSUME CInv, al_eth_down \/ al_eth_up PROVE CInv'
    OBVIOUS
  <1> USE DEF al_eth_down, al_eth_up, device, history
  <1>1. /\ ~Busy' /\ ~Busy /\ Pending' = 0 /\ hw' = <<>> /\ reported' = 0 /\ used' = 0
        /\ poll' = "idle" /\ total_done' = 0 /\ (~up' => stopped') /\ xmit' = xmit
        /\ part' = 0
    BY DEF CInv, AtRest, Busy, Pending, PartOfFirst
  <1>2. TypeLoose'
    <2>1. hw' \in Seq(Entry)
      BY <1>1, EmptySeq
    <2>2. Empty \in Packet /\ 0 \in Slots /\ 0 \in 0 .. HwDescs
      BY DEF Packet, Empty, Slots
    <2>3. tx_info' \in [Slots -> Packet]
      BY <2>2 DEF CInv, TypeLoose
    <2>4. owner' \in [Skbs -> {"stack", "driver"}]
      BY DEF CInv, TypeLoose
    <2>5. next_to_use' \in Slots /\ next_to_clean' \in Slots
      BY <2>2 DEF CInv, TypeLoose
    <2>6. /\ up' \in BOOLEAN /\ stopped' \in BOOLEAN /\ irq' \in BOOLEAN
          /\ overrun' \in BOOLEAN /\ lost' \in BOOLEAN
      BY DEF CInv, TypeLoose
    <2> QED BY <1>1, <2>1, <2>2, <2>3, <2>4, <2>5, <2>6 DEF CInv, TypeLoose
  <1>3. Counted'
    <2>1. Weight(EntryDescs, <<>>) = 0
      BY EntriesWeigh, WeightEmpty
    <2>2. Weight(EntryDescs, hw)' = 0
      BY <1>1, <2>1 DEF EntryDescs, Entry
    <2> QED BY <1>1, <2>2 DEF Counted
  <1>4. RoomKept' /\ AtRest' /\ PartOfFirst'
    BY <1>1 DEF RoomKept, AtRest, PartOfFirst
  <1> QED BY <1>2, <1>3, <1>4 DEF CInv

(* Every step keeps the counts. *)
LEMMA NextKeepsC == CInv /\ [Next]_vars => CInv'
  <1> SUFFICES ASSUME CInv, [Next]_vars PROVE CInv'
    OBVIOUS
  <1>1. ASSUME NEW p \in Skbs, XmitMapError(p) \/ XmitDropped(p) PROVE CInv'
    BY <1>1, FailedKeepsC
  <1>2. ASSUME NEW p \in Skbs, NEW n \in Sizes, XmitPrepare(p, n) PROVE CInv'
    BY <1>2, PrepareKeepsC
  <1>3. CASE UNCHANGED vars
    <2> USE <1>3 DEF vars, sw, device, history
    <2>1. Busy' = Busy /\ Pending' = Pending
      BY DEF Busy, Pending
    <2>2. TypeLoose'
      BY <2>1 DEF CInv, TypeLoose
    <2>3. Counted' /\ RoomKept' /\ AtRest' /\ PartOfFirst'
      BY <2>1 DEF CInv, Counted, RoomKept, AtRest, PartOfFirst, EntryDescs, Entry
    <2> QED BY <2>2, <2>3 DEF CInv
  <1> QED BY <1>1, <1>2, <1>3, CheckKeepsC, ActionKeepsC, GetKeepsC, CleanKeepsC, PollKeepsC,
             ReportKeepsC, DownKeepsC
          DEF Next

(* The counts agree in every reachable state. *)
LEMMA CountsInvariant == Spec => []CInv
  BY InitCInv, NextKeepsC, PTL DEF Spec

(* Every variable keeps its type, overwritten slots or not: the counts of  *)
(* the UDMA queue do not depend on the slots.                              *)
THEOREM TypeCorrect == Spec => []TypeOK
  <1>1. CInv => TypeOK
    <2> SUFFICES ASSUME CInv PROVE TypeOK
      OBVIOUS
    <2>1. TypeLoose
      BY DEF CInv
    <2>2. reported \in 0 .. HwDescs
      BY Counts
    <2>3. hw \in Seq([skb : Skbs, descs : 1 .. MaxDescs])
      <3>1. Entry \subseteq [skb : Skbs, descs : 1 .. MaxDescs]
        BY DEF Entry
      <3> QED BY <2>1, <3>1, SeqMonotonic DEF TypeLoose
    <2>4. part \in 0 .. MaxDescs
      <3>1. CASE hw = <<>>
        BY <3>1 DEF CInv, PartOfFirst
      <3>2. CASE hw # <<>>
        <4>1. Head(hw) \in Entry
          BY <2>1, <3>2, DelHead DEF TypeLoose
        <4>2. PICK d \in Nat : d = EntryDescs[Head(hw)] /\ d \in Sizes
          BY <4>1, EntriesWeigh
        <4>3. part < d /\ part \in Nat
          BY <2>1, <3>2, <4>2 DEF CInv, PartOfFirst, TypeLoose
        <4> QED BY <4>2, <4>3
      <3> QED BY <3>1, <3>2
    <2> QED BY <2>1, <2>2, <2>3, <2>4 DEF TypeOK, TypeLoose, Packet
  <1> QED BY <1>1, CountsInvariant, PTL

(* Whenever the stack may call al_eth_start_xmit there is room for the     *)
(* largest packet, for every queue size and every wake-up threshold of at  *)
(* least that packet: al_eth_tx_pkt_prepare never fails, although the      *)
(* queue is looked at, stopped and woken by two CPUs.                      *)
THEOREM PrepareNeverFails == Spec => []PrepareFits
  <1>1. CInv => PrepareFits
    BY DEF CInv, RoomKept, TypeLoose, PrepareFits, al_udma_available_get
  <1> QED BY <1>1, CountsInvariant, PTL
-----------------------------------------------------------------------------
(* The slots, read from next_to_clean on, are a list of packets. *)
Ring(L, use, clean, info, own) ==
    /\ L \in Seq(Entry)
    /\ Len(L) <= SwDescs
    /\ use = (clean + Len(L)) % SwDescs
    /\ \A i \in 1 .. Len(L) : /\ info[(clean + (i - 1)) % SwDescs] = L[i]
                              /\ own[L[i].skb] = "driver"
    /\ \A i, j \in 1 .. Len(L) : L[i].skb = L[j].skb => i = j
    /\ \A p \in Skbs : own[p] = "driver" => \E i \in 1 .. Len(L) : L[i].skb = p
    /\ \A j \in Len(L) .. SwDescs - 1 :
          LET q == info[(clean + j) % SwDescs].skb
          IN  q = None \/ (j = Len(L) /\ q \in Skbs /\ own[q] = "stack")

RingTypes(use, clean, info, own) ==
    /\ use \in Slots /\ clean \in Slots /\ info \in [Slots -> Packet]
    /\ own \in [Skbs -> {"stack", "driver"}]

(* Slots at different distances from next_to_clean are different. *)
LEMMA SlotsApart ==
    ASSUME NEW clean \in Slots, NEW i \in 0 .. SwDescs - 1, NEW j \in 0 .. SwDescs - 1, i # j
    PROVE  /\ (clean + i) % SwDescs # (clean + j) % SwDescs
           /\ (clean + i) % SwDescs \in Slots
  <1>1. SwDescs \in Nat \ {0} /\ clean \in 0 .. SwDescs - 1
    BY DEF Slots
  <1>2. (clean + i) % SwDescs # (clean + j) % SwDescs
    BY <1>1, RingApart, Zenon
  <1>3. (clean + i) % SwDescs \in 0 .. SwDescs - 1
    BY <1>1
  <1> QED BY <1>2, <1>3 DEF Slots

(* A packet that could not be mapped is left in the slot behind the list. *)
LEMMA RingStale ==
    ASSUME NEW L, NEW use, NEW clean, NEW info, NEW own, NEW q \in Skbs \cup {None},
           RingTypes(use, clean, info, own), Ring(L, use, clean, info, own),
           Len(L) < SwDescs, q # None => own[q] = "stack"
    PROVE  Ring(L, use, clean, [info EXCEPT ![use].skb = q], own)
  <1> DEFINE new == [info EXCEPT ![use].skb = q]
  <1>1. PICK n \in 0 .. SwDescs - 1 : n = Len(L)
    BY LenProperties DEF Ring
  <1>2. use = (clean + n) % SwDescs /\ use \in Slots /\ clean \in Slots /\ info \in [Slots -> Packet]
    BY <1>1 DEF Ring, RingTypes
  <1>3. /\ \A s \in Slots : s # use => new[s] = info[s]
        /\ new[use].skb = q
    BY <1>2 DEF Packet
  <1> HIDE DEF new
  <1>4. ASSUME NEW i \in 0 .. SwDescs - 1, i # n
        PROVE  new[(clean + i) % SwDescs] = info[(clean + i) % SwDescs]
    BY <1>2, <1>3, <1>4, SlotsApart
  <1>5. \A i \in 1 .. n : new[(clean + (i - 1)) % SwDescs] = L[i]
    <2> TAKE i \in 1 .. n
    <2>1. i - 1 \in 0 .. SwDescs - 1 /\ i - 1 # n
      OBVIOUS
    <2>2. new[(clean + (i - 1)) % SwDescs] = info[(clean + (i - 1)) % SwDescs]
      BY <1>4, <2>1
    <2> QED BY <1>1, <2>2 DEF Ring
  <1>6. \A j \in n .. SwDescs - 1 :
           LET r == new[(clean + j) % SwDescs].skb
           IN  r = None \/ (j = n /\ r \in Skbs /\ own[r] = "stack")
    <2> TAKE j \in n .. SwDescs - 1
    <2>1. CASE j = n
      BY <1>2, <1>3, <2>1
    <2>2. CASE j # n
      <3>1. new[(clean + j) % SwDescs] = info[(clean + j) % SwDescs]
        BY <1>4, <2>2
      <3> QED BY <1>1, <2>2, <3>1 DEF Ring
    <2> QED BY <2>1, <2>2
  <1> QED BY <1>1, <1>5, <1>6 DEF Ring, new

(* start_xmit puts a packet at the end. *)
LEMMA RingAppend ==
    ASSUME NEW L, NEW use, NEW clean, NEW info, NEW own, NEW e \in Entry,
           RingTypes(use, clean, info, own), Ring(L, use, clean, info, own),
           Len(L) < SwDescs, own[e.skb] = "stack"
    PROVE  Ring(Append(L, e), Succ(use), clean, [info EXCEPT ![use] = e],
                [own EXCEPT ![e.skb] = "driver"])
  <1> DEFINE new == [info EXCEPT ![use] = e]
             held == [own EXCEPT ![e.skb] = "driver"]
  <1>1. PICK n \in 0 .. SwDescs - 1 : n = Len(L)
    BY LenProperties DEF Ring
  <1>2. /\ use = (clean + n) % SwDescs /\ use \in Slots /\ clean \in Slots
        /\ info \in [Slots -> Packet] /\ own \in [Skbs -> {"stack", "driver"}]
        /\ e.skb \in Skbs /\ L \in Seq(Entry)
    BY <1>1 DEF Ring, RingTypes, Entry
  <1>3. /\ \A s \in Slots : s # use => new[s] = info[s]
        /\ new[use] = e
        /\ \A p \in Skbs : p # e.skb => held[p] = own[p]
        /\ held[e.skb] = "driver"
    BY <1>2
  <1> HIDE DEF new, held
  <1>4. ASSUME NEW i \in 0 .. SwDescs - 1, i # n
        PROVE  new[(clean + i) % SwDescs] = info[(clean + i) % SwDescs]
    BY <1>2, <1>3, <1>4, SlotsApart
  <1>5. PICK M \in Seq(Entry) : M = Append(L, e)
    BY <1>2, AddTail
  <1>6. Len(M) = n + 1 /\ M[n + 1] = e /\ \A i \in 1 .. n : M[i] = L[i]
    BY <1>1, <1>2, <1>5, AddTail
  <1>7. Succ(use) = (clean + (n + 1)) % SwDescs
    <2>1. clean \in 0 .. SwDescs - 1 /\ n \in 0 .. SwDescs /\ 1 \in 0 .. SwDescs
          /\ SwDescs \in Nat \ {0}
      BY <1>2 DEF Slots
    <2>2. (((clean + n) % SwDescs) + 1) % SwDescs = (clean + n + 1) % SwDescs
      BY <2>1, RingOn, Zenon
    <2>3. clean + n + 1 = clean + (n + 1)
      BY <2>1
    <2> QED BY <1>2, <2>2, <2>3 DEF Succ
  <1>8. \A i \in 1 .. n : L[i] \in Entry /\ L[i].skb \in Skbs /\ own[L[i].skb] = "driver"
    <2>1. L \in Seq(Entry) /\ Len(L) = n
      BY <1>1 DEF Ring
    <2>2. \A i \in 1 .. n : L[i] \in Entry
      BY <2>1, ElementOfSeq
    <2>3. \A i \in 1 .. n : own[L[i].skb] = "driver"
      BY <2>1 DEF Ring
    <2> QED BY <2>2, <2>3 DEF Entry
  <1>9. \A i \in 1 .. n : L[i].skb # e.skb
    BY <1>8
  <1>10. \A i \in 1 .. n + 1 : /\ new[(clean + (i - 1)) % SwDescs] = M[i]
                               /\ held[M[i].skb] = "driver"
    <2> TAKE i \in 1 .. n + 1
    <2>1. CASE i = n + 1
      <3>1. i - 1 = n
        BY <2>1
      <3> QED BY <1>2, <1>3, <1>6, <2>1, <3>1
    <2>2. CASE i # n + 1
      <3>1. i - 1 \in 0 .. SwDescs - 1 /\ i - 1 # n /\ i \in 1 .. n
        BY <2>2
      <3>2. new[(clean + (i - 1)) % SwDescs] = info[(clean + (i - 1)) % SwDescs]
        BY <1>4, <3>1
      <3>3. info[(clean + (i - 1)) % SwDescs] = L[i]
        BY <1>1, <3>1 DEF Ring
      <3> QED BY <1>3, <1>6, <1>8, <1>9, <3>1, <3>2, <3>3
    <2> QED BY <2>1, <2>2
  <1>11. \A i, j \in 1 .. n + 1 : M[i].skb = M[j].skb => i = j
    <2> SUFFICES ASSUME NEW i \in 1 .. n + 1, NEW j \in 1 .. n + 1, M[i].skb = M[j].skb
                 PROVE  i = j
      OBVIOUS
    <2>1. CASE i = n + 1 \/ j = n + 1
      BY <1>6, <1>9, <2>1
    <2>2. CASE i \in 1 .. n /\ j \in 1 .. n
      BY <1>1, <1>6, <2>2 DEF Ring
    <2> QED BY <2>1, <2>2
  <1>12. ASSUME NEW p \in Skbs, held[p] = "driver"
         PROVE  \E i \in 1 .. n + 1 : M[i].skb = p
    <2>1. CASE p = e.skb
      BY <1>6, <2>1
    <2>2. CASE p # e.skb
      <3>1. PICK i \in 1 .. n : L[i].skb = p
        BY <1>1, <1>3, <1>12, <2>2 DEF Ring
      <3>2. i \in 1 .. n + 1 /\ M[i].skb = p
        BY <1>6, <3>1
      <3> QED BY <3>2
    <2> QED BY <2>1, <2>2
  <1>13. \A j \in n + 1 .. SwDescs - 1 : new[(clean + j) % SwDescs].skb = None
    <2> TAKE j \in n + 1 .. SwDescs - 1
    <2>1. j \in 0 .. SwDescs - 1 /\ j # n /\ j \in n .. SwDescs - 1
      OBVIOUS
    <2>2. new[(clean + j) % SwDescs] = info[(clean + j) % SwDescs]
      BY <1>4, <2>1
    <2> QED BY <1>1, <2>1, <2>2 DEF Ring
  <1>14. n + 1 <= SwDescs
    OBVIOUS
  <1>15. Ring(M, Succ(use), clean, new, held)
    BY <1>6, <1>7, <1>10, <1>11, <1>12, <1>13, <1>14 DEF Ring
  <1> QED BY <1>5, <1>15 DEF new, held

(* tx_poll takes the first one away. *)
Cleared(info, slot) == [info EXCEPT ![slot].skb = None]
Freed(own, skb) == [own EXCEPT ![skb] = "stack"]

(* Cleaning the oldest packet takes it from the front of the list. *)
LEMMA RingTail ==
    ASSUME NEW L, NEW use, NEW clean, NEW info, NEW own, NEW h, h = L[1],
           RingTypes(use, clean, info, own), Ring(L, use, clean, info, own), L # <<>>
    PROVE  /\ info[clean] = h
           /\ Ring(Tail(L), use, Succ(clean), Cleared(info, clean), Freed(own, h.skb))
  <1> DEFINE new == [info EXCEPT ![clean].skb = None]
             held == [own EXCEPT ![L[1].skb] = "stack"]
  <1>1. PICK M \in Seq(Entry) : M = Tail(L)
    BY DelHead DEF Ring
  <1>2. PICK n \in 0 .. SwDescs - 1 : n = Len(M) /\ Len(L) = n + 1
    <2>1. Len(M) = Len(L) - 1 /\ Len(L) \in Nat \ {0} /\ Len(L) <= SwDescs
      BY <1>1, DelHead DEF Ring
    <2> QED BY <2>1
  <1>3. \A i \in 1 .. n : M[i] = L[i + 1]
    BY <1>1, <1>2, DelHead DEF Ring
  <1>4. /\ use = (clean + (n + 1)) % SwDescs /\ use \in Slots /\ clean \in Slots
        /\ info \in [Slots -> Packet] /\ own \in [Skbs -> {"stack", "driver"}]
        /\ clean \in 0 .. SwDescs - 1 /\ SwDescs \in Nat \ {0}
    BY <1>2 DEF Ring, RingTypes, Slots
  <1>5. \A i \in 1 .. n + 1 : L[i] \in Entry /\ L[i].skb \in Skbs /\ own[L[i].skb] = "driver"
    <2>1. L \in Seq(Entry) /\ Len(L) = n + 1
      BY <1>2 DEF Ring
    <2>2. \A i \in 1 .. n + 1 : L[i] \in Entry
      BY <2>1, ElementOfSeq
    <2>3. \A i \in 1 .. n + 1 : own[L[i].skb] = "driver"
      BY <2>1 DEF Ring
    <2> QED BY <2>2, <2>3 DEF Entry
  <1>6. (clean + 0) % SwDescs = clean /\ 0 \in 0 .. SwDescs - 1
    BY <1>4
  <1>7. info[clean] = L[1] /\ L[1] \in Entry
    <2>1. 1 \in 1 .. n + 1 /\ 1 - 1 = 0
      OBVIOUS
    <2>2. info[(clean + (1 - 1)) % SwDescs] = L[1]
      BY <1>2, <2>1 DEF Ring
    <2> QED BY <1>5, <1>6, <2>1, <2>2
  <1>8. /\ \A s \in Slots : s # clean => new[s] = info[s]
        /\ new[clean].skb = None
        /\ \A p \in Skbs : p # L[1].skb => held[p] = own[p]
        /\ held[L[1].skb] = "stack"
    <2>1. L[1].skb \in Skbs
      BY <1>5
    <2>2. /\ \A s \in Slots : s # clean => new[s] = info[s]
          /\ new[clean].skb = None
      BY <1>4 DEF Packet
    <2>3. /\ \A p \in Skbs : p # L[1].skb => held[p] = own[p]
          /\ held[L[1].skb] = "stack"
      BY <1>4, <2>1
    <2> QED BY <2>2, <2>3
  <1> HIDE DEF new, held
  <1>9. ASSUME NEW i \in 1 .. SwDescs - 1
        PROVE  new[(clean + i) % SwDescs] = info[(clean + i) % SwDescs]
    <2>1. i \in 0 .. SwDescs - 1 /\ i # 0
      OBVIOUS
    <2>2. (clean + i) % SwDescs # (clean + 0) % SwDescs /\ (clean + i) % SwDescs \in Slots
      BY <1>4, <1>6, <2>1, SlotsApart
    <2> QED BY <1>6, <1>8, <2>2
  <1>10. ASSUME NEW i \in 0 .. SwDescs - 1
         PROVE  (Succ(clean) + i) % SwDescs = (clean + (i + 1)) % SwDescs
    <2>1. 1 \in 0 .. SwDescs /\ i \in 0 .. SwDescs
      BY <1>4
    <2>2. (((clean + 1) % SwDescs) + i) % SwDescs = (clean + 1 + i) % SwDescs
      BY <1>4, <2>1, RingOn, Zenon
    <2>3. clean + 1 + i = clean + (i + 1)
      BY <1>4
    <2> QED BY <2>2, <2>3 DEF Succ
  <1>11. use = (Succ(clean) + n) % SwDescs
    BY <1>4, <1>10
  <1>12. \A i \in 1 .. n : /\ new[(Succ(clean) + (i - 1)) % SwDescs] = M[i]
                           /\ held[M[i].skb] = "driver"
    <2> TAKE i \in 1 .. n
    <2>1. /\ i - 1 \in 0 .. SwDescs - 1 /\ (i - 1) + 1 = i /\ i \in 1 .. SwDescs - 1
          /\ i + 1 \in 1 .. n + 1 /\ (i + 1) - 1 = i /\ i + 1 # 1 /\ 1 \in 1 .. n + 1
      OBVIOUS
    <2>2. (Succ(clean) + (i - 1)) % SwDescs = (clean + i) % SwDescs
      BY <1>10, <2>1
    <2>3. new[(clean + i) % SwDescs] = info[(clean + i) % SwDescs]
      BY <1>9, <2>1
    <2>4. info[(clean + ((i + 1) - 1)) % SwDescs] = L[i + 1]
      BY <1>2, <2>1 DEF Ring
    <2>5. L[i + 1].skb # L[1].skb
      BY <1>2, <2>1 DEF Ring
    <2>6. held[L[i + 1].skb] = "driver"
      BY <1>5, <1>8, <2>1, <2>5
    <2> QED BY <1>3, <2>1, <2>2, <2>3, <2>4, <2>6
  <1>13. \A i, j \in 1 .. n : M[i].skb = M[j].skb => i = j
    <2> SUFFICES ASSUME NEW i \in 1 .. n, NEW j \in 1 .. n, M[i].skb = M[j].skb
                 PROVE  i = j
      OBVIOUS
    <2>1. i + 1 \in 1 .. n + 1 /\ j + 1 \in 1 .. n + 1 /\ L[i + 1].skb = L[j + 1].skb
      BY <1>3
    <2>2. i + 1 = j + 1
      BY <1>2, <2>1 DEF Ring
    <2> QED BY <2>2
  <1>14. ASSUME NEW p \in Skbs, held[p] = "driver"
         PROVE  \E i \in 1 .. n : M[i].skb = p
    <2>1. p # L[1].skb /\ own[p] = "driver"
      BY <1>8, <1>14
    <2>2. PICK k \in 1 .. n + 1 : L[k].skb = p
      BY <1>2, <2>1 DEF Ring
    <2>3. k - 1 \in 1 .. n /\ (k - 1) + 1 = k
      BY <2>1, <2>2
    <2> QED BY <1>3, <2>2, <2>3
  <1>15. \A j \in n .. SwDescs - 1 :
            LET q == new[(Succ(clean) + j) % SwDescs].skb
            IN  q = None \/ (j = n /\ q \in Skbs /\ held[q] = "stack")
    <2> TAKE j \in n .. SwDescs - 1
    <2>0. (Succ(clean) + j) % SwDescs = (clean + (j + 1)) % SwDescs
      BY <1>10
    <2>1. CASE j = SwDescs - 1
      <3>1. clean + (j + 1) \in Int /\ SwDescs <= clean + (j + 1) /\ clean + (j + 1) < 2 * SwDescs
            /\ (clean + (j + 1)) - SwDescs = clean
        BY <1>4, <2>1
      <3>2. (clean + (j + 1)) % SwDescs = clean
        BY <1>4, <3>1, RingLaps, Zenon
      <3> QED BY <1>8, <2>0, <3>2
    <2>2. CASE j # SwDescs - 1
      <3>1. j + 1 \in 1 .. SwDescs - 1 /\ j + 1 \in n + 1 .. SwDescs - 1
            /\ (j + 1 = n + 1 => j = n)
        BY <2>2
      <3>2. new[(clean + (j + 1)) % SwDescs] = info[(clean + (j + 1)) % SwDescs]
        BY <1>9, <3>1
      <3>3. LET q == info[(clean + (j + 1)) % SwDescs].skb
            IN  q = None \/ (j = n /\ q \in Skbs /\ own[q] = "stack")
        BY <1>2, <3>1 DEF Ring
      <3>4. \A q \in Skbs : own[q] = "stack" => held[q] = "stack"
        BY <1>8
      <3> QED BY <2>0, <3>2, <3>3, <3>4
    <2> QED BY <2>1, <2>2
  <1>16. Ring(M, use, Succ(clean), new, held)
    BY <1>2, <1>11, <1>12, <1>13, <1>14, <1>15 DEF Ring
  <1> QED BY <1>1, <1>7, <1>16 DEF new, held, Cleared, Freed
-----------------------------------------------------------------------------
(* The list is made of the packets the engine has finished with, those it  *)
(* has, and the one that start_xmit is working on.  The descriptors of the *)
(* finished ones, and the part of the next, were reported: they are        *)
(* reported still, or counted by tx_poll, or tx_poll dropped the count.    *)
Pend == IF Busy THEN <<Prepared>> ELSE <<>>

Parts(L, fin) ==
    /\ fin \in Seq(Entry) /\ Pend \in Seq(Entry)
    /\ L = fin \o (hw \o Pend)
    /\ Weight(EntryDescs, fin) + part >= total_done + reported
    /\ ~lost => Weight(EntryDescs, fin) + part = total_done + reported

Listed(L, fin) == Ring(L, next_to_use, next_to_clean, tx_info, owner) /\ Parts(L, fin)

(* As long as no slot was overwritten *)
InRing == up /\ ~overrun => \E L, fin : Listed(L, fin)

(* While the interface is down the slots are empty. *)
AllFreed == ~up => /\ ~overrun => \A p \in Skbs : owner[p] = "stack"
                   /\ \A i \in Slots : tx_info[i] = Empty

RInv == CInv /\ InRing /\ AllFreed

(* A list of packets without descriptors is empty. *)
LEMMA NoDescsNoPacket ==
    ASSUME NEW s \in Seq(Entry), Weight(EntryDescs, s) = 0
    PROVE  s = <<>>
  <1>1. Weight(EntryDescs, s) >= 1 * Len(s)
    BY EntriesWeigh, WeightAtLeast
  <1>2. Len(s) \in Nat
    BY LenProperties
  <1>3. Len(s) = 0
    BY <1>1, <1>2
  <1> QED BY <1>3, EmptySeq

(* The type of the ring's variables *)
LEMMA TypesOfRing ==
    ASSUME CInv
    PROVE  RingTypes(next_to_use, next_to_clean, tx_info, owner)
  BY DEF CInv, TypeLoose, RingTypes

(* The slot at next_to_use is held when the list fills the ring, and only  *)
(* then.                                                                   *)
LEMMA HeldWhenFull ==
    ASSUME CInv, NEW L, Ring(L, next_to_use, next_to_clean, tx_info, owner)
    PROVE  SlotHeld <=> Len(L) = SwDescs
  <1>1. PICK k \in 0 .. SwDescs : k = Len(L)
    BY LenProperties DEF Ring
  <1>2. next_to_use = (next_to_clean + k) % SwDescs /\ next_to_clean \in 0 .. SwDescs - 1
        /\ L \in Seq(Entry)
    BY <1>1 DEF Ring, CInv, TypeLoose, Slots
  <1>3. CASE k = SwDescs
    <2>1. /\ next_to_clean + k \in Int /\ SwDescs <= next_to_clean + k
          /\ next_to_clean + k < 2 * SwDescs /\ (next_to_clean + k) - SwDescs = next_to_clean
          /\ SwDescs \in Nat \ {0}
      BY <1>2, <1>3
    <2>2. (next_to_clean + k) % SwDescs = next_to_clean
      BY <2>1, RingLaps, Zenon
    <2>3. L # <<>> /\ 1 \in 1 .. Len(L)
      <3>1. k # 0 /\ 1 \in 1 .. k
        BY <1>3
      <3> QED BY <1>1, <3>1, EmptySeq
    <2>4. tx_info[next_to_use] = L[1]
      BY <1>2, <2>2, <2>3, TypesOfRing, RingTail
    <2>5. L[1] \in Entry
      BY <1>2, <2>3, ElementOfSeq
    <2>6. L[1].skb \in Skbs /\ owner[L[1].skb] = "driver"
      BY <2>3, <2>5 DEF Entry, Ring
    <2> QED BY <1>1, <1>3, <2>4, <2>6, NoneAssumption DEF SlotHeld
  <1>4. CASE k # SwDescs
    <2>1. k \in k .. SwDescs - 1
      BY <1>4
    <2>2. LET q == tx_info[next_to_use].skb
          IN  q = None \/ (q \in Skbs /\ owner[q] = "stack")
      BY <1>1, <1>2, <2>1 DEF Ring
    <2> QED BY <1>1, <1>4, <2>2 DEF SlotHeld
  <1> QED BY <1>3, <1>4

(* An empty queue with an empty list *)
LEMMA InitRInv == Init => RInv
  <1> SUFFICES ASSUME Init PROVE RInv
    OBVIOUS
  <1>1. CInv
    BY InitCInv
  <1>2. AllFreed
    BY DEF Init, AllFreed
  <1>3. Ring(<<>>, next_to_use, next_to_clean, tx_info, owner)
    <2>1. <<>> \in Seq(Entry) /\ Len(<<>>) = 0 /\ 1 .. 0 = {}
      BY EmptySeq
    <2>2. (0 + 0) % SwDescs = 0 /\ 0 <= SwDescs
      OBVIOUS
    <2>3. \A j \in 0 .. SwDescs - 1 : (0 + j) % SwDescs \in Slots
      BY DEF Slots
    <2>4. \A j \in Slots : tx_info[j].skb = None
      BY DEF Init, Empty
    <2>5. \A p \in Skbs : owner[p] # "driver"
      BY DEF Init
    <2> QED BY <2>1, <2>2, <2>3, <2>4, <2>5 DEF Init, Ring
  <1>4. Parts(<<>>, <<>>)
    <2>1. <<>> \in Seq(Entry) /\ <<>> \o (<<>> \o <<>>) = <<>>
      BY EmptySeq, ConcatEmptySeq
    <2>2. Weight(EntryDescs, <<>>) = 0
      BY EntriesWeigh, WeightEmpty
    <2>3. hw = <<>> /\ Pend = <<>> /\ total_done = 0 /\ reported = 0 /\ part = 0
      BY DEF Init, Pend, Busy, Idling
    <2> QED BY <2>1, <2>2, <2>3 DEF Parts
  <1> QED BY <1>1, <1>2, <1>3, <1>4 DEF RInv, InRing, Listed

(* What is not part of the list may change. *)
LEMMA ListKept ==
    ASSUME UNCHANGED <<hw, part, Pend, total_done, reported, lost>>, NEW L, NEW fin,
           Parts(L, fin)
    PROVE  Parts(L, fin)'
  BY DEF Parts, EntryDescs, Entry

(* A list that describes the ring goes on describing it. *)
LEMMA RingKept ==
    ASSUME UNCHANGED sw, NEW L, Ring(L, next_to_use, next_to_clean, tx_info, owner)
    PROVE  Ring(L, next_to_use, next_to_clean, tx_info, owner)'
  <1>1. Ring(L, next_to_use', next_to_clean', tx_info', owner')
    BY DEF sw
  <1> QED BY <1>1 DEF Ring, Entry

(* A step that moves neither slots nor descriptors *)
LEMMA QuietKeepsR ==
    ASSUME RInv, CInv', UNCHANGED <<up, sw, hw, part, reported, total_done, Pend, lost, overrun>>
    PROVE  RInv'
  <1>1. AllFreed'
    BY DEF RInv, AllFreed, sw, Slots, Empty
  <1>2. ASSUME NEW L, NEW fin, Listed(L, fin)
        PROVE  Listed(L, fin)'
    BY <1>2, ListKept, RingKept DEF Listed
  <1>3. InRing'
    BY <1>2 DEF RInv, InRing
  <1> QED BY <1>1, <1>3 DEF RInv

(* tx_poll leaves its loop: what it drops is not counted any more. *)
LEMMA CleanedKeepsR ==
    ASSUME RInv, PollCleaned
    PROVE  RInv'
  <1>1. CInv' /\ CInv /\ up /\ up' /\ UNCHANGED <<sw, hw, part, reported, Pend, overrun>>
    BY PollKeepsC DEF RInv, PollCleaned, sw, device, Pend, Prepared, Busy, CInv, AtRest
  <1>2. AllFreed'
    BY <1>1 DEF AllFreed
  <1>3. ASSUME NEW L, NEW fin, Listed(L, fin)
        PROVE  Listed(L, fin)'
    <2>1. Parts(L, fin)
      BY <1>3 DEF Listed
    <2>2. /\ total_done \in Nat /\ reported \in Nat /\ part \in Nat /\ lost \in BOOLEAN
      BY <1>1 DEF CInv, TypeLoose
    <2>3. PICK w \in Nat : w = Weight(EntryDescs, fin)
      BY <2>1, EntriesWeigh, WeightType DEF Parts
    <2>4. total_done' = 0 /\ (~lost' => ~lost /\ ~(total_done > 0))
      BY <2>2 DEF PollCleaned
    <2>5. w + part >= 0 + reported
      BY <2>1, <2>2, <2>3 DEF Parts
    <2>6. ~lost' => w + part = 0 + reported
      BY <2>1, <2>2, <2>3, <2>4 DEF Parts
    <2>7. Parts(L, fin)'
      BY <1>1, <2>1, <2>3, <2>4, <2>5, <2>6 DEF Parts, EntryDescs, Entry
    <2> QED BY <1>1, <1>3, <2>7, RingKept DEF Listed
  <1>4. InRing'
    BY <1>1, <1>3 DEF RInv, InRing
  <1> QED BY <1>1, <1>2, <1>4 DEF RInv

(* A packet that is dropped leaves the list alone, unless it overwrites a  *)
(* slot.                                                                   *)
LEMMA FailedKeepsR ==
    ASSUME RInv, NEW p \in Skbs, XmitMapError(p) \/ XmitDropped(p)
    PROVE  RInv'
  <1>1. CInv' /\ CInv
    BY FailedKeepsC DEF RInv
  <1>2. up /\ up' /\ ~Busy /\ ~Busy' /\ owner' = owner
        /\ owner[p] = "stack" /\ next_to_use' = next_to_use /\ next_to_clean' = next_to_clean
        /\ (~overrun' => ~overrun /\ ~SlotHeld)
    BY <1>1 DEF CInv, AtRest, Busy, XmitMapError, XmitDropped
  <1>3. PICK q \in Skbs \cup {None} : /\ tx_info' = [tx_info EXCEPT ![next_to_use].skb = q]
                                      /\ q # None => owner[q] = "stack"
    BY <1>2 DEF XmitMapError, XmitDropped
  <1>4. ASSUME ~overrun' PROVE \E L, fin : Listed(L, fin)'
    <2>1. PICK L, fin : Listed(L, fin)
      BY <1>2, <1>4 DEF RInv, InRing
    <2>2. Len(L) < SwDescs
      <3>1. Len(L) # SwDescs
        BY <1>1, <1>2, <1>4, <2>1, HeldWhenFull DEF Listed
      <3>2. Len(L) \in Nat /\ Len(L) <= SwDescs
        BY <2>1, LenProperties DEF Listed, Ring
      <3> QED BY <3>1, <3>2
    <2>3. Ring(L, next_to_use, next_to_clean, tx_info', owner)
      BY <1>1, <1>3, <2>1, <2>2, TypesOfRing, RingStale DEF Listed
    <2>4. Ring(L, next_to_use, next_to_clean, tx_info, owner)'
      BY <1>2, <2>3 DEF Ring, Entry
    <2>5. Parts(L, fin)'
      BY <1>2, <2>1, ListKept DEF Listed, Pend, XmitMapError, XmitDropped, device
    <2> QED BY <2>4, <2>5 DEF Listed
  <1> QED BY <1>1, <1>2, <1>4 DEF RInv, InRing, AllFreed

(* A packet is added at the end. *)
LEMMA PrepareKeepsR ==
    ASSUME RInv, NEW p \in Skbs, NEW n \in Sizes, XmitPrepare(p, n)
    PROVE  RInv'
  <1> DEFINE e == [skb |-> p, descs |-> n]
  <1>1. /\ CInv' /\ CInv /\ Busy' /\ ~Busy /\ tx_info' = [tx_info EXCEPT ![next_to_use] = e]
        /\ Prepared' = e
    BY PrepareKeepsC DEF RInv, Prepared
  <1>2. /\ up /\ up' /\ owner[p] = "stack" /\ hw' = hw /\ part' = part /\ lost' = lost
        /\ owner' = [owner EXCEPT ![p] = "driver"] /\ next_to_use' = Succ(next_to_use)
        /\ next_to_clean' = next_to_clean /\ total_done' = total_done /\ reported' = reported
        /\ (~overrun' => ~overrun /\ ~SlotHeld)
    BY <1>1 DEF XmitPrepare, CInv, AtRest
  <1>5. e \in Entry /\ e.skb = p
    BY DEF Entry
  <1> HIDE DEF e
  <1>6. ASSUME ~overrun' PROVE \E L, fin : Listed(L, fin)'
    <2>1. PICK L, fin : Listed(L, fin)
      BY <1>2, <1>6 DEF RInv, InRing
    <2>2. Len(L) < SwDescs
      <3>1. Len(L) # SwDescs
        BY <1>1, <1>2, <1>6, <2>1, HeldWhenFull DEF Listed
      <3>2. Len(L) \in Nat /\ Len(L) <= SwDescs
        BY <2>1, LenProperties DEF Listed, Ring
      <3> QED BY <3>1, <3>2
    <2>3. Ring(Append(L, e), next_to_use', next_to_clean', tx_info', owner')
      BY <1>1, <1>2, <1>5, <2>1, <2>2, TypesOfRing, RingAppend DEF Listed
    <2>4. PICK M : M = Append(L, e)
      OBVIOUS
    <2>5. Ring(M, next_to_use, next_to_clean, tx_info, owner)'
      BY <2>3, <2>4 DEF Ring, Entry
    <2>6. Pend' = <<e>> /\ Pend = <<>> /\ <<e>> \in Seq(Entry) /\ hw \in Seq(Entry)
      BY <1>1, <1>5 DEF Pend, CInv, TypeLoose
    <2>7. fin \in Seq(Entry) /\ L = fin \o (hw \o <<>>)
      BY <2>1, <2>6 DEF Listed, Parts
    <2>8. L = fin \o hw /\ fin \o hw \in Seq(Entry)
      BY <2>6, <2>7, ConcatEmptySeq, ConcatProperties
    <2>9. M = (fin \o hw) \o <<e>>
      BY <1>5, <2>4, <2>8, AppendIsConcat
    <2>10. (fin \o hw) \o <<e>> = fin \o (hw \o <<e>>)
      BY <2>6, <2>7, ConcatAssociative, SMTT(40)
    <2>11. M = fin \o (hw' \o Pend')
      BY <1>2, <2>6, <2>9, <2>10
    <2>12. Parts(M, fin)'
      BY <1>2, <2>1, <2>6, <2>7, <2>11 DEF Listed, Parts, EntryDescs, Entry
    <2> QED BY <2>5, <2>12 DEF Listed
  <1> QED BY <1>1, <1>2, <1>6 DEF RInv, InRing, AllFreed

(* The packet goes to the engine. *)
LEMMA ActionKeepsR ==
    ASSUME RInv, XmitAction
    PROVE  RInv'
  <1>1. CInv' /\ CInv /\ Busy /\ ~Busy'
    BY ActionKeepsC DEF RInv
  <1>2. up /\ up' /\ UNCHANGED <<sw, total_done, reported, part, lost, overrun>>
    BY <1>1 DEF XmitAction, CInv, AtRest, history
  <1>3. PICK e \in Entry : e = Prepared /\ hw' = Append(hw, e)
    BY ActionKeepsC DEF RInv
  <1>4. /\ Pend = <<e>> /\ Pend' = <<>> /\ hw \in Seq(Entry)
        /\ hw' = hw \o <<e>> /\ hw' \in Seq(Entry) /\ hw' \o <<>> = hw'
    <2>1. Pend = <<e>> /\ Pend' = <<>> /\ hw \in Seq(Entry)
      BY <1>1, <1>3 DEF Pend, CInv, TypeLoose
    <2>2. Append(hw, e) = hw \o <<e>> /\ Append(hw, e) \in Seq(Entry)
      BY <2>1, AppendIsConcat, AddTail
    <2>3. Append(hw, e) \o <<>> = Append(hw, e)
      BY <2>2, ConcatEmptySeq
    <2> QED BY <1>3, <2>1, <2>2, <2>3
  <1>5. ASSUME NEW L, NEW fin, Listed(L, fin)
        PROVE  Listed(L, fin)'
    <2>1. fin \in Seq(Entry) /\ L = fin \o (hw \o <<e>>)
      BY <1>4, <1>5 DEF Listed, Parts
    <2>2. L = fin \o (hw' \o Pend') /\ Pend' \in Seq(Entry)
      BY <1>4, <2>1, EmptySeq
    <2>3. Parts(L, fin)'
      BY <1>2, <1>5, <2>1, <2>2 DEF Listed, Parts, EntryDescs, Entry
    <2> QED BY <1>2, <1>5, <2>3, RingKept DEF Listed
  <1>6. InRing'
    BY <1>2, <1>5 DEF RInv, InRing
  <1> QED BY <1>1, <1>2, <1>6 DEF RInv, AllFreed

(* A descriptor of the engine is reported: with the last of a packet, the  *)
(* packet joins those it has finished with.                                *)
LEMMA ReportKeepsR ==
    ASSUME RInv, HwReport
    PROVE  RInv'
  <1>1. CInv' /\ CInv /\ up /\ up' /\ UNCHANGED <<sw, total_done, Pend, lost, overrun>>
    BY ReportKeepsC DEF RInv, HwReport, sw, Pend, Prepared, Busy, history
  <1>2. hw # <<>> /\ hw \in Seq(Entry) /\ reported' = reported + 1
    BY <1>1 DEF HwReport, CInv, TypeLoose
  <1>3. total_done \in Nat /\ reported \in Nat /\ part \in Nat
    BY <1>1 DEF CInv, TypeLoose
  <1>4. ASSUME NEW L, NEW fin, Listed(L, fin)
        PROVE  \E more : Listed(L, more)'
    <2>1. PICK pend \in Seq(Entry) : pend = Pend
      BY <1>4 DEF Listed, Parts
    <2>2. /\ fin \in Seq(Entry) /\ L = fin \o (hw \o pend)
          /\ Weight(EntryDescs, fin) + part >= total_done + reported
          /\ ~lost => Weight(EntryDescs, fin) + part = total_done + reported
      BY <1>4, <2>1 DEF Listed, Parts
    <2>3. PICK w \in Nat : w = Weight(EntryDescs, fin)
      BY <2>2, EntriesWeigh, WeightType
    <2>3a. /\ w + (part + 1) >= total_done + (reported + 1)
           /\ ~lost => w + (part + 1) = total_done + (reported + 1)
      <3>1. w + part >= total_done + reported
        BY <2>2, <2>3
      <3>2. ~lost => w + part = total_done + reported
        BY <2>2, <2>3
      <3>3. w + (part + 1) >= total_done + (reported + 1)
        BY <1>3, <3>1
      <3>4. ASSUME ~lost PROVE w + (part + 1) = total_done + (reported + 1)
        <4>1. w + part = total_done + reported
          BY <3>2, <3>4
        <4> QED BY <1>3, <4>1
      <3> QED BY <3>3, <3>4
    <2>4. CASE part' = part + 1 /\ hw' = hw
      <3>2. Parts(L, fin)'
        BY <1>1, <1>2, <2>1, <2>2, <2>3, <2>3a, <2>4 DEF Parts, EntryDescs, Entry
      <3>3. Listed(L, fin)'
        BY <1>1, <1>4, <3>2, RingKept DEF Listed
      <3> QED BY <3>3
    <2>5. CASE part' = 0 /\ hw' = Tail(hw) /\ part + 1 = EntryDescs[Head(hw)]
      <3>1. PICK h \in Entry, t \in Seq(Entry) : h = Head(hw) /\ t = Tail(hw) /\ hw = <<h>> \o t
        <4>1. PICK h \in Entry, t \in Seq(Entry) : h = Head(hw) /\ t = Tail(hw)
          BY <1>2, DelHead
        <4>2. hw = <<h>> \o t
          BY <1>2, <4>1, FirstAndRest
        <4> QED BY <4>1, <4>2
      <3>2. PICK more \in Seq(Entry) : more = Append(fin, h)
        BY <2>2, AddTail
      <3>3. Weight(EntryDescs, more) = w + (part + 1)
        BY <2>2, <2>3, <2>5, <3>1, <3>2, EntriesWeigh, WeightAppend
      <3>4. (w + (part + 1)) + 0 = w + (part + 1)
        BY <1>3
      <3>5. L = more \o (t \o pend)
        <4>1. PICK x \in Seq(Entry) : x = <<h>>
          <5>1. <<h>> \in Seq(Entry)
            OBVIOUS
          <5> QED BY <5>1
        <4>2. more = fin \o x /\ hw = x \o t
          BY <2>2, <3>1, <3>2, <4>1, AppendIsConcat
        <4>3. PICK tp \in Seq(Entry) : tp = t \o pend
          BY ConcatProperties
        <4>4. Grouped(fin, x, tp) /\ Grouped(x, t, pend)
          BY <2>2, Grouping
        <4> QED BY <2>2, <4>2, <4>3, <4>4 DEF Grouped
      <3>6. Parts(L, more)'
        <4>1. /\ hw' = t /\ Pend' = pend /\ total_done' = total_done /\ part' = 0
          BY <1>1, <2>1, <2>5, <3>1
        <4> QED BY <1>1, <1>2, <2>3a, <3>3, <3>4, <3>5, <4>1 DEF Parts, EntryDescs, Entry
      <3>7. Listed(L, more)'
        BY <1>1, <1>4, <3>6, RingKept DEF Listed
      <3> QED BY <3>7
    <2> QED BY <1>1, <2>4, <2>5, ReportKeepsC
  <1>5. InRing'
    BY <1>1, <1>4 DEF RInv, InRing
  <1> QED BY <1>1, <1>5 DEF RInv, AllFreed

(* What is reported is acknowledged. *)
LEMMA GetKeepsR ==
    ASSUME RInv, PollGet
    PROVE  RInv'
  <1>1. /\ CInv' /\ CInv /\ up /\ up' /\ UNCHANGED <<sw, hw, Pend, part, lost, overrun>>
        /\ total_done = 0 /\ total_done' = reported /\ reported' = 0 /\ reported \in Nat
    BY GetKeepsC DEF RInv, PollGet, sw, Pend, Prepared, Busy, CInv, AtRest, history, TypeLoose
  <1>2. ASSUME NEW L, NEW fin, Listed(L, fin)
        PROVE  Listed(L, fin)'
    <2>1. total_done' + reported' = total_done + reported
      BY <1>1
    <2>2. Parts(L, fin)'
      BY <1>1, <1>2, <2>1 DEF Listed, Parts, EntryDescs, Entry
    <2> QED BY <1>1, <1>2, <2>2, RingKept DEF Listed
  <1>3. InRing'
    BY <1>1, <1>2 DEF RInv, InRing
  <1> QED BY <1>1, <1>3 DEF RInv, AllFreed

(* A packet that is cleaned is one the engine has finished with: of the    *)
(* next one only a part is counted.                                        *)
LEMMA CleanedIsFinished ==
    ASSUME CInv, PollClean, NEW L, NEW fin, Listed(L, fin)
    PROVE  fin # <<>>
  <1> SUFFICES ASSUME fin = <<>> PROVE FALSE
    OBVIOUS
  <1>1. hw \in Seq(Entry) /\ Pend \in Seq(Entry) /\ hw \o Pend \in Seq(Entry)
    BY ConcatProperties DEF CInv, TypeLoose, Listed, Parts
  <1>2. L = hw \o Pend
    BY <1>1, ConcatEmptySeq DEF Listed, Parts
  <1>3. /\ part \in Nat /\ reported \in Nat /\ total_done \in Nat
        /\ total_done > 0 /\ tx_info[next_to_clean].descs <= total_done
    BY DEF CInv, TypeLoose, PollClean, Cleanable
  <1>4. part >= total_done + reported
    <2>1. Weight(EntryDescs, <<>>) = 0
      BY EntriesWeigh, WeightEmpty
    <2>2. 0 + part >= total_done + reported
      BY <2>1 DEF Listed, Parts
    <2> QED BY <1>3, <2>2
  <1>5. hw # <<>>
    <2>1. part # 0
      BY <1>3, <1>4
    <2> QED BY <2>1 DEF CInv, PartOfFirst
  <1>6. PICK h \in Entry : h = Head(hw) /\ part < h.descs /\ h.descs \in Nat
    <2>1. PICK h \in Entry : h = Head(hw)
      BY <1>1, <1>5, DelHead
    <2>2. part < EntryDescs[h]
      BY <1>5, <2>1 DEF CInv, PartOfFirst
    <2> QED BY <2>1, <2>2, EntriesWeigh
  <1>7. L # <<>> /\ L[1] = h
    <2>1. hw \o Pend # <<>> /\ Head(hw \o Pend) = Head(hw)
      BY <1>1, <1>5, ConcatRest
    <2>2. L \in Seq(Entry) /\ L # <<>> /\ Head(L) = h
      BY <1>1, <1>2, <1>6, <2>1
    <2> QED BY <2>2, DelHead
  <1>8. tx_info[next_to_clean] = h
    <2>1. /\ RingTypes(next_to_use, next_to_clean, tx_info, owner)
          /\ Ring(L, next_to_use, next_to_clean, tx_info, owner)
      BY TypesOfRing DEF Listed
    <2> QED BY <1>7, <2>1, RingTail
  <1> QED BY <1>3, <1>4, <1>6, <1>8

(* A packet is cleaned. *)
LEMMA CleanKeepsR ==
    ASSUME RInv, PollClean
    PROVE  RInv'
  <1>1. /\ CInv' /\ CInv /\ up /\ up'
        /\ UNCHANGED <<hw, part, Pend, reported, next_to_use, lost, overrun>>
    BY CleanKeepsC DEF RInv, PollClean, device, history, CInv, AtRest, Pend, Prepared, Busy
  <1>2. ASSUME NEW L, NEW fin, Listed(L, fin)
        PROVE  \E M, rest : Listed(M, rest)'
    <2>1. PICK X \in Seq(Entry) : X = hw \o Pend
      BY <1>1, <1>2, ConcatProperties DEF Listed, Parts, CInv, TypeLoose
    <2>2. /\ fin \in Seq(Entry) /\ Pend \in Seq(Entry) /\ L = fin \o X /\ fin # <<>>
          /\ Weight(EntryDescs, fin) + part >= total_done + reported
          /\ ~lost => Weight(EntryDescs, fin) + part = total_done + reported
      BY <1>1, <1>2, <2>1, CleanedIsFinished DEF Listed, Parts
    <2>3. PICK h \in Entry, rest \in Seq(Entry), d \in Nat, v \in Nat :
             /\ h = Head(fin) /\ rest = Tail(fin) /\ d = EntryDescs[h] /\ d = h.descs
             /\ v = Weight(EntryDescs, rest) /\ Weight(EntryDescs, fin) = d + v
      BY <2>2, FirstWeighs
    <2>4. L \in Seq(Entry) /\ L # <<>> /\ L[1] = h /\ Tail(L) = rest \o X
      <3>1. fin \o X # <<>> /\ Head(fin \o X) = Head(fin) /\ Tail(fin \o X) = Tail(fin) \o X
        BY <2>2, ConcatRest, Zenon
      <3>2. fin \o X \in Seq(Entry)
        BY <2>2, ConcatProperties, Zenon
      <3>3. L \in Seq(Entry) /\ L # <<>> /\ Head(L) = h /\ Tail(L) = rest \o X
        BY <2>2, <2>3, <3>1, <3>2
      <3> QED BY <3>3, DelHead
    <2>5. /\ tx_info[next_to_clean] = h
          /\ Ring(Tail(L), next_to_use, Succ(next_to_clean),
                  Cleared(tx_info, next_to_clean), Freed(owner, h.skb))
      <3>1. /\ RingTypes(next_to_use, next_to_clean, tx_info, owner)
            /\ Ring(L, next_to_use, next_to_clean, tx_info, owner)
        BY <1>1, <1>2, TypesOfRing DEF Listed
      <3> QED BY <2>4, <3>1, RingTail
    <2>6. /\ next_to_clean' = Succ(next_to_clean) /\ total_done' = total_done - d
          /\ tx_info' = [tx_info EXCEPT ![next_to_clean].skb = None]
          /\ owner' = [owner EXCEPT ![h.skb] = "stack"]
      BY <2>3, <2>5 DEF PollClean
    <2>7. PICK M : M = Tail(L)
      OBVIOUS
    <2>8. Ring(M, next_to_use', next_to_clean', tx_info', owner')
      BY <1>1, <2>5, <2>6, <2>7 DEF Cleared, Freed
    <2>9. Ring(M, next_to_use, next_to_clean, tx_info, owner)'
      BY <2>8 DEF Ring, Entry
    <2>10. /\ v + part >= (total_done - d) + reported
           /\ ~lost => v + part = (total_done - d) + reported
      <3>1. total_done \in Nat /\ reported \in Nat /\ part \in Nat
        BY <1>1 DEF CInv, TypeLoose
      <3>2. (d + v) + part >= total_done + reported
        BY <2>2, <2>3
      <3>3. ~lost => (d + v) + part = total_done + reported
        BY <2>2, <2>3
      <3>4. v + part >= (total_done - d) + reported
        BY <3>1, <3>2
      <3>5. ASSUME ~lost PROVE v + part = (total_done - d) + reported
        <4>1. (d + v) + part = total_done + reported
          BY <3>3, <3>5
        <4> QED BY <3>1, <4>1
      <3> QED BY <3>4, <3>5
    <2>11. M = rest \o (hw' \o Pend')
      BY <1>1, <2>1, <2>4, <2>7
    <2>12. Parts(M, rest)'
      BY <1>1, <2>2, <2>3, <2>6, <2>10, <2>11 DEF Parts, EntryDescs, Entry
    <2>13. Listed(M, rest)'
      BY <2>9, <2>12 DEF Listed
    <2> QED BY <2>13
  <1>3. InRing'
    BY <1>1, <1>2 DEF RInv, InRing
  <1> QED BY <1>1, <1>3 DEF RInv, AllFreed

(* Going down frees every packet of the list; coming up starts with none. *)
LEMMA DownKeepsR ==
    ASSUME RInv, al_eth_down
    PROVE  RInv'
  <1>1. CInv' /\ CInv /\ up /\ ~up' /\ overrun' = overrun
    BY DownKeepsC DEF RInv, al_eth_down
  <1>3. ASSUME ~overrun, NEW p \in Skbs PROVE owner'[p] = "stack"
    <2>0. PICK L, fin : Listed(L, fin)
      BY <1>1, <1>3 DEF RInv, InRing
    <2>1. owner'[p] = IF p \in Held THEN "stack" ELSE owner[p]
      BY DEF al_eth_down
    <2>2. CASE p \in Held
      BY <2>1, <2>2
    <2>3. CASE p \notin Held
      <3>1. owner[p] # "driver"
        <4> SUFFICES ASSUME owner[p] = "driver" PROVE FALSE
          OBVIOUS
        <4>1. PICK i \in 1 .. Len(L) : L[i].skb = p
          BY <2>0 DEF Listed, Ring
        <4>2. PICK s : s = (next_to_clean + (i - 1)) % SwDescs
          OBVIOUS
        <4>3. tx_info[s] = L[i]
          BY <2>0, <4>1, <4>2 DEF Listed, Ring
        <4>4. s \in Slots
          <5>1. PICK k \in Nat : k = Len(L) /\ k <= SwDescs
            BY <2>0, LenProperties DEF Listed, Ring
          <5>2. next_to_clean \in 0 .. SwDescs - 1
            BY <1>1 DEF CInv, TypeLoose, Slots
          <5>3. i - 1 \in 0 .. SwDescs - 1
            BY <4>1, <5>1
          <5> QED BY <4>2, <5>2, <5>3 DEF Slots
        <4>5. p # None
          BY NoneAssumption
        <4> QED BY <2>3, <4>1, <4>3, <4>4, <4>5 DEF Held
      <3>2. owner[p] \in {"stack", "driver"}
        BY <1>1 DEF CInv, TypeLoose
      <3> QED BY <2>1, <2>3, <3>1, <3>2
    <2> QED BY <2>2, <2>3
  <1>4. \A i \in Slots : tx_info'[i] = Empty'
    BY DEF al_eth_down, Empty
  <1> QED BY <1>1, <1>3, <1>4 DEF RInv, InRing, AllFreed, Slots

(* al_eth_up: the queue starts empty. *)
LEMMA UpKeepsR ==
    ASSUME RInv, al_eth_up
    PROVE  RInv'
  <1>1. CInv' /\ CInv /\ ~up /\ up' /\ overrun' = overrun
    BY DownKeepsC DEF RInv, al_eth_up, history
  <1>2. \A i \in Slots : tx_info'[i].skb = None
    BY <1>1 DEF RInv, AllFreed, al_eth_up, Empty
  <1>3. /\ hw' = <<>> /\ Pend' = <<>> /\ total_done' = 0 /\ reported' = 0 /\ part' = 0
        /\ next_to_use' = 0 /\ next_to_clean' = 0
    BY <1>1 DEF al_eth_up, CInv, AtRest, PartOfFirst, device, Pend, Busy
  <1>4. ASSUME ~overrun PROVE Listed(<<>>, <<>>)'
    <2>0. \A p \in Skbs : owner'[p] # "driver"
      BY <1>1, <1>4 DEF RInv, AllFreed, al_eth_up
    <2>1. <<>> \in Seq(Entry) /\ Len(<<>>) = 0 /\ 1 .. 0 = {}
      BY EmptySeq
    <2>2. (0 + 0) % SwDescs = 0 /\ 0 <= SwDescs
      OBVIOUS
    <2>3. \A j \in 0 .. SwDescs - 1 : (0 + j) % SwDescs \in Slots
      BY DEF Slots
    <2>4. Ring(<<>>, next_to_use', next_to_clean', tx_info', owner')
      BY <1>2, <1>3, <2>0, <2>1, <2>2, <2>3 DEF Ring
    <2>5. Ring(<<>>, next_to_use, next_to_clean, tx_info, owner)'
      BY <2>4 DEF Ring, Entry
    <2>6. <<>> \o (<<>> \o <<>>) = <<>>
      BY <2>1, ConcatEmptySeq
    <2>7. Weight(EntryDescs, <<>>) = 0
      BY EntriesWeigh, WeightEmpty
    <2>8. Parts(<<>>, <<>>)'
      BY <1>3, <2>1, <2>6, <2>7 DEF Parts, EntryDescs, Entry
    <2> QED BY <2>5, <2>8 DEF Listed
  <1>5. InRing'
    BY <1>1, <1>4 DEF InRing
  <1> QED BY <1>1, <1>5 DEF RInv, AllFreed

(* Every step keeps the invariant of the ring. *)
LEMMA NextKeepsR ==
    ASSUME RInv, [Next]_vars
    PROVE  RInv'
  <1>1. CInv'
    BY NextKeepsC DEF RInv
  <1>2. ASSUME NEW p \in Skbs, XmitMapError(p) \/ XmitDropped(p) PROVE RInv'
    BY <1>2, FailedKeepsR
  <1>3. ASSUME NEW p \in Skbs, NEW n \in Sizes, XmitPrepare(p, n) PROVE RInv'
    BY <1>3, PrepareKeepsR
  <1>4. CASE XmitCheck \/ XmitStop
    <2>1. /\ UNCHANGED <<up, sw, hw, part, reported, total_done, lost, overrun>> /\ Busy /\ Busy'
          /\ xmit'.skb = xmit.skb /\ xmit'.descs = xmit.descs
      BY <1>4 DEF XmitCheck, XmitStop, device, history, Busy, RInv, CInv, TypeLoose
    <2>2. UNCHANGED Pend
      BY <2>1 DEF Pend, Prepared
    <2> QED BY <1>1, <2>1, <2>2, QuietKeepsR
  <1>5. CASE Interrupt \/ PollCheck \/ PollWake \/ PollDone \/ UNCHANGED vars
    <2>1. UNCHANGED <<up, sw, hw, part, reported, total_done, xmit, lost, overrun>>
      BY <1>5 DEF Interrupt, PollCheck, PollWake, PollDone, vars, device, history
    <2>2. UNCHANGED Pend
      BY <2>1 DEF Pend, Prepared, Busy
    <2> QED BY <1>1, <2>1, <2>2, QuietKeepsR
  <1>6. CASE PollCleaned
    BY <1>6, CleanedKeepsR
  <1>7. CASE XmitAction
    BY <1>7, ActionKeepsR
  <1>8. CASE PollGet
    BY <1>8, GetKeepsR
  <1>9. CASE PollClean
    BY <1>9, CleanKeepsR
  <1>10. CASE HwReport
    BY <1>10, ReportKeepsR
  <1>11. CASE al_eth_down
    BY <1>11, DownKeepsR
  <1>12. CASE al_eth_up
    BY <1>12, UpKeepsR
  <1> QED BY <1>2, <1>3, <1>4, <1>5, <1>6, <1>7, <1>8, <1>9, <1>10, <1>11, <1>12 DEF Next

(* The invariant of the ring holds in every reachable state. *)
LEMMA RingInvariant == Spec => []RInv
  <1>1. RInv /\ [Next]_vars => RInv'
    BY NextKeepsR
  <1> QED BY <1>1, InitRInv, PTL DEF Spec
-----------------------------------------------------------------------------
(* Outside of tx_poll's loop, and with no count dropped, the packets in    *)
(* the slots have no more descriptors than the UDMA queue.                 *)
LEMMA SlotLeftOutside ==
    ASSUME RInv, up, ~overrun, ~lost, ~Busy, poll # "clean"
    PROVE  ~SlotHeld
  <1>1. PICK L, fin : Listed(L, fin)
    BY DEF RInv, InRing
  <1>2. CInv /\ hw \in Seq(Entry) /\ total_done = 0
    BY DEF RInv, CInv, TypeLoose, AtRest
  <1>3. /\ fin \in Seq(Entry) /\ L = fin \o (hw \o <<>>)
        /\ Weight(EntryDescs, fin) + part = 0 + reported
    BY <1>1, <1>2 DEF Listed, Parts, Pend
  <1>4. L = fin \o hw /\ L \in Seq(Entry)
    BY <1>2, <1>3, ConcatEmptySeq, ConcatProperties
  <1>5. PICK f \in Nat : f = Weight(EntryDescs, fin)
    BY <1>3, EntriesWeigh, WeightType
  <1>6. PICK w \in Nat : /\ w = Weight(EntryDescs, hw) /\ used + part = w + reported + 0
                         /\ used \in Nat /\ used <= HwDescs /\ reported \in Nat /\ part \in Nat
    <2>1. Pending = 0
      BY DEF Pending
    <2> QED BY <1>2, <2>1, Counts
  <1>7. Weight(EntryDescs, L) = f + w
    BY <1>2, <1>3, <1>4, <1>5, <1>6, EntriesWeigh, WeightConcat, ZenonT(60)
  <1>8. f + part = reported
    BY <1>3, <1>5, <1>6
  <1>9. f + w < SwDescs
    BY <1>6, <1>8
  <1>10. Weight(EntryDescs, L) >= 1 * Len(L)
    BY <1>4, EntriesWeigh, WeightAtLeast
  <1>11. Len(L) \in Nat
    BY <1>4, LenProperties
  <1>12. Len(L) # SwDescs
    BY <1>7, <1>9, <1>10, <1>11
  <1> QED BY <1>1, <1>2, <1>12, HeldWhenFull DEF Listed

(* start_xmit overwrites the packet of a slot only while tx_poll has       *)
(* acknowledged the descriptors and is still in its loop, or after tx_poll *)
(* has dropped the count of a packet reported in part: for every queue     *)
(* with fewer descriptors than slots, these are the only two holes in a    *)
(* room check that looks at the UDMA queue alone.                          *)
THEOREM OverrunNeedsWindow == Spec => OverrunOnlyInWindow
  <1>1. ASSUME RInv, [Next]_vars PROVE [overrun' /\ ~overrun => poll = "clean" \/ lost]_vars
    <2> SUFFICES ASSUME ~UNCHANGED vars, overrun', ~overrun, poll # "clean", ~lost
                 PROVE  FALSE
      OBVIOUS
    <2>1. PICK p \in Skbs : XmitMapError(p) \/ XmitDropped(p) \/ \E n \in Sizes : XmitPrepare(p, n)
      BY <1>1 DEF Next, XmitCheck, XmitStop, XmitAction, Interrupt, PollGet, PollClean, PollCleaned,
                  PollCheck, PollWake, PollDone, HwReport, al_eth_down, al_eth_up, history
    <2>2. ~stopped /\ ~Busy /\ overrun' = (overrun \/ SlotHeld)
      BY <2>1 DEF XmitMapError, XmitDropped, XmitPrepare, Busy
    <2>3. up
      BY <1>1, <2>2 DEF RInv, CInv, AtRest
    <2>4. ~SlotHeld
      BY <1>1, <2>2, <2>3, SlotLeftOutside
    <2> QED BY <2>2, <2>4
  <1>2. Spec => [][Next]_vars
    BY PTL DEF Spec
  <1> QED BY <1>1, <1>2, RingInvariant, PTL DEF OverrunOnlyInWindow

(* Until a slot is overwritten, al_eth_tx_poll frees no packet the engine  *)
(* has still to read: descriptors counted by al_eth_comp_tx_get are those  *)
(* of the first packets of the software ring, whatever part of a packet is *)
(* reported and whatever count is dropped.                                 *)
THEOREM FreedAfterUse == Spec => []NoEarlyFree
  <1>1. RInv => NoEarlyFree
    <2> SUFFICES ASSUME RInv, ~overrun, NEW i \in DOMAIN hw PROVE owner[hw[i].skb] = "driver"
      BY DEF NoEarlyFree
    <2>1. up /\ hw \in Seq(Entry)
      <3>1. hw \in Seq(Entry) /\ (~up => hw = <<>>)
        BY DEF RInv, CInv, AtRest, TypeLoose
      <3>2. DOMAIN hw = 1 .. Len(hw)
        BY <3>1, LenProperties
      <3>3. CASE ~up
        <4>1. Len(hw) = 0 /\ 1 .. 0 = {}
          BY <3>1, <3>3, EmptySeq
        <4> QED BY <3>2, <4>1
      <3> QED BY <3>1, <3>3
    <2>2. PICK L, fin : Listed(L, fin)
      BY <2>1 DEF RInv, InRing
    <2>3. fin \in Seq(Entry) /\ Pend \in Seq(Entry) /\ L = fin \o (hw \o Pend)
      BY <2>2 DEF Listed, Parts
    <2>4. PICK X \in Seq(Entry) : X = hw \o Pend
      BY <2>1, <2>3, ConcatProperties
    <2>5. PICK a \in Nat, h \in Nat, p \in Nat : a = Len(fin) /\ h = Len(hw) /\ p = Len(Pend)
      BY <2>1, <2>3, LenProperties
    <2>6. i \in 1 .. h
      BY <2>1, <2>5, LenProperties
    <2>7. Len(X) = h + p /\ X[i] = hw[i]
      <3>1. /\ Len(X) = h + p
            /\ \A j \in 1 .. h + p : X[j] = IF j <= h THEN hw[j] ELSE Pend[j - h]
        BY <2>1, <2>3, <2>4, <2>5, ConcatProperties
      <3>2. i \in 1 .. h + p /\ i <= h
        BY <2>6
      <3> QED BY <3>1, <3>2
    <2>8. Len(L) = a + (h + p) /\ L[a + i] = X[i]
      <3>1. /\ Len(L) = a + (h + p)
            /\ \A j \in 1 .. a + (h + p) : L[j] = IF j <= a THEN fin[j] ELSE X[j - a]
        BY <2>3, <2>4, <2>5, <2>7, ConcatProperties
      <3>2. a + i \in 1 .. a + (h + p) /\ ~(a + i <= a) /\ (a + i) - a = i
        BY <2>6
      <3> QED BY <3>1, <3>2
    <2>9. a + i \in 1 .. Len(L)
      BY <2>6, <2>8
    <2>10. owner[L[a + i].skb] = "driver"
      BY <2>2, <2>9 DEF Listed, Ring
    <2> QED BY <2>7, <2>8, <2>10
  <1> QED BY <1>1, RingInvariant, PTL

(* Unless a slot was overwritten or a count dropped, no completion is lost *)
(* between the two counts: once the engine has reported everything and the *)
(* poll is over, or the interface is down, every packet was freed.         *)
THEOREM AllFreedInTheEnd == Spec => []NothingHeld
  <1>1. RInv => NothingHeld
    <2> SUFFICES ASSUME RInv, ~overrun, ~lost, Idle, NEW p \in Skbs PROVE owner[p] = "stack"
      BY DEF NothingHeld
    <2>1. CASE ~up
      BY <2>1 DEF RInv, AllFreed
    <2>2. CASE up
      <3>1. PICK L, fin : Listed(L, fin)
        BY <2>2 DEF RInv, InRing
      <3>2. total_done = 0 /\ reported = 0 /\ hw = <<>> /\ Pend = <<>> /\ part = 0
        BY DEF RInv, CInv, AtRest, PartOfFirst, Idle, Pend, Busy
      <3>3. /\ fin \in Seq(Entry) /\ Weight(EntryDescs, fin) + 0 = 0 + 0
            /\ L = fin \o (<<>> \o <<>>)
        BY <3>1, <3>2 DEF Listed, Parts
      <3>4. Weight(EntryDescs, fin) \in Nat
        BY <3>3, EntriesWeigh, WeightType
      <3>5. Weight(EntryDescs, fin) = 0
        BY <3>3, <3>4
      <3>6. fin = <<>>
        BY <3>3, <3>5, NoDescsNoPacket
      <3>7. <<>> \in Seq(Entry) /\ <<>> \o (<<>> \o <<>>) = <<>>
        BY ConcatEmptySeq, EmptySeq
      <3>8. Len(L) = 0 /\ 1 .. 0 = {}
        BY <3>3, <3>6, <3>7, EmptySeq
      <3>9. owner[p] # "driver"
        BY <3>1, <3>8 DEF Listed, Ring
      <3>10. owner[p] \in {"stack", "driver"}
        BY DEF RInv, CInv, TypeLoose
      <3> QED BY <3>9, <3>10
    <2> QED BY <2>1, <2>2
  <1> QED BY <1>1, RingInvariant, PTL
=============================================================================
