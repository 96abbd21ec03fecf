----------------------------- MODULE UdmaQueue -----------------------------
(***************************************************************************)
(* One hardware queue of the Annapurna Labs UDMA engine: the software      *)
(* fields of struct al_udma_q, the inline ring operations of               *)
(* al_hal_udma.h, al_udma_cdesc_packet_get, and the device that owns the   *)
(* descriptors between al_udma_desc_action_add and the completion ring.    *)
(*                                                                         *)
(* Software never sees how many completions the device has written: it     *)
(* recognises a new completion descriptor by its two-bit ring id alone.    *)
(* The upper layer serialises every call on one queue with its own lock,   *)
(* so each call is one step; only the device runs in between.              *)
(***************************************************************************)
EXTENDS Integers, Sequences

CONSTANTS
    Size,       \* q_params->size: descriptors in both rings
    Reserve,    \* slots al_udma_available_get never hands out: 1 in the
                \* al_dma and al_eth copies of the HAL,
                \* AL_UDMA_MAX_NUM_CDESC_PER_CACHE_LINE in the al_ssm copy
    MaxPkt      \* the most descriptors one packet takes

ASSUME SizeAssumption == Size \in Nat /\ Reserve \in 1 .. Size - 1
ASSUME MaxPktAssumption == MaxPkt \in 1 .. Size - Reserve

VARIABLES
    drain,           \* how the driver reads completions: "head" with
                     \* al_udma_cdesc_get_all, "poll" and "drop" with
                     \* al_udma_cdesc_packet_get; under "drop" the device may
                     \* give up a packet (al_udma_s2m_no_desc_cfg_set)
    next_desc_idx,   \* next submission descriptor to hand out
    desc_ring_id,    \* ring id of that descriptor
    next_cdesc_idx,  \* first completion descriptor not yet acknowledged
    comp_head_ptr,   \* next completion descriptor to look at, as an index
    comp_ring_id,    \* ring id that makes it a new one
    pkt_crnt_descs,  \* completions seen of a packet that is still partial
    todo,            \* descriptors the caller made sure of, not yet taken
    prepared,        \* descriptors taken, not yet added to the device
    got,             \* completions returned to the caller, not yet acked
    posted,          \* device: descriptors added and not yet completed
    crhp,            \* device: completion ring head pointer register
    hw_ring_id,      \* device: ring id it writes at crhp
    hw_len,          \* device: descriptors written of the packet under way
    desc,            \* memory: the ring id in each submission descriptor
    cring            \* memory: the completion descriptors

swvars == <<next_desc_idx, desc_ring_id, next_cdesc_idx, comp_head_ptr,
            comp_ring_id, pkt_crnt_descs, drain>>
clvars == <<todo, prepared, got>>
hwvars == <<posted, crhp, hw_ring_id, hw_len>>
vars == <<swvars, clvars, hwvars, desc, cring>>

Idx == 0 .. Size - 1
RingId == 0 .. 3                 \* DMA_RING_ID_MASK
CDesc == [ring_id : RingId, first : BOOLEAN, last : BOOLEAN, err : BOOLEAN]

(* x & size_mask, for the power-of-two sizes al_udma_q_init accepts *)
Mask(x) == x % Size
NextRingId(r) == (r + 1) % 4
PrevRingId(r) == (r + 3) % 4
-----------------------------------------------------------------------------
(* Mutant: the reserved slots are not kept back. *)
available_get_no_reserve == Mask(next_cdesc_idx - (next_desc_idx + 1)) + 1
al_udma_available_get == Mask(next_cdesc_idx - (next_desc_idx + Reserve))

al_udma_new_cdesc(c, ring_id) == c.ring_id = ring_id

(* al_cdesc_next_update: the next index, and the ring id expected there *)
NextPtr(p) == IF p = Size - 1 THEN 0 ELSE p + 1
(* Mutant: the ring id stays the same when the ring wraps. *)
NextUpdate_no_wrap(p, ring_id) == ring_id
NextUpdate(p, ring_id) == IF p = Size - 1 THEN NextRingId(ring_id) ELSE ring_id

(* The driver drains by the head pointer register, not by the ring ids. *)
HeadReg == drain = "head"

(* The device may give up a packet for want of descriptors.  Only receive  *)
(* queues can be set up so, and every driver polls those.                  *)
DropMode == drain = "drop"

(* al_udma_q_init on rings cleared by dma_alloc_coherent *)
Init ==
    /\ drain \in {"poll", "head", "drop"}
    /\ next_desc_idx = 0 /\ next_cdesc_idx = 0 /\ comp_head_ptr = 0
    /\ desc_ring_id = 1 /\ comp_ring_id = 1     \* AL_UDMA_INITIAL_RING_ID
    /\ pkt_crnt_descs = 0
    /\ todo = 0 /\ prepared = 0 /\ got = 0
    /\ posted = 0 /\ crhp = 0 /\ hw_ring_id = 1 /\ hw_len = 0
    /\ desc = [i \in Idx |-> 0]
    /\ cring = [i \in Idx |-> [ring_id |-> 0, first |-> FALSE,
                               last |-> FALSE, err |-> FALSE]]
-----------------------------------------------------------------------------
(* The caller checks that num descriptors are available before it takes    *)
(* the first of them, as al_crypto_dma_prepare, al_raid_dma_prepare and    *)
(* al_eth_tx_pkt_prepare do.                                               *)
Check(num) ==
    /\ todo = 0
    /\ al_udma_available_get >= num
    /\ todo' = num
    /\ UNCHANGED <<swvars, hwvars, desc, cring, prepared, got>>

(* al_udma_desc_get followed by al_udma_ring_id_get for the descriptor *)
al_udma_desc_get ==
    /\ todo > 0
    /\ todo' = todo - 1
    /\ prepared' = prepared + 1
    /\ desc' = [desc EXCEPT ![next_desc_idx] = desc_ring_id]
    /\ next_desc_idx' = Mask(next_desc_idx + 1)
    /\ desc_ring_id' = IF next_desc_idx' = 0 THEN NextRingId(desc_ring_id)
                                             ELSE desc_ring_id
    /\ UNCHANGED <<next_cdesc_idx, comp_head_ptr, comp_ring_id,
                   pkt_crnt_descs, drain, got, hwvars, cring>>

(* write num to drtp_inc: the device owns num more descriptors *)
al_udma_desc_action_add(num) ==
    /\ num \in 1 .. prepared
    /\ prepared' = prepared - num
    /\ posted' = posted + num
    /\ UNCHANGED <<swvars, crhp, hw_ring_id, hw_len, desc, cring, todo, got>>
-----------------------------------------------------------------------------
(* The descriptor i places after comp_head_ptr, and the ring id            *)
(* comp_ring_id has reached once al_cdesc_next_update has stepped there.   *)
Ahead(i) == Mask(comp_head_ptr + i)
RingIdAhead(i) == IF comp_head_ptr + i >= Size THEN NextRingId(comp_ring_id)
                                               ELSE comp_ring_id
IsNew(i) == al_udma_new_cdesc(cring[Ahead(i)], RingIdAhead(i))

(* A first descriptor where the packet should continue: it was trimmed.    *)
(* Mutant: the older HAL, which does not look for dropped descriptors. *)
Trimmed_never(i) == FALSE
Trimmed(i) == cring[Ahead(i)].first /\ pkt_crnt_descs + i > 0

(* The loop of al_udma_cdesc_packet_get ends at the first descriptor that  *)
(* is not new, starts another packet, or ends this one.                    *)
Stops(i) == ~IsNew(i) \/ Trimmed(i) \/ cring[Ahead(i)].last
StopAt(i) == i \in 0 .. Size - 1 /\ Stops(i) /\ \A j \in 0 .. i - 1 : ~Stops(j)

(* The packet is complete, its last descriptor being i places ahead. *)
PacketWhole(i) ==
    /\ IsNew(i) /\ ~Trimmed(i)
    /\ got' = pkt_crnt_descs + i + 1
    /\ pkt_crnt_descs' = 0
    /\ comp_head_ptr' = NextPtr(Ahead(i))
    /\ comp_ring_id' = NextUpdate(Ahead(i), RingIdAhead(i))
    /\ cring' = cring

(* Mutant: the descriptors already passed are not counted. *)
PacketPartial_uncounted(i) ==
    /\ ~IsNew(i)
    /\ i > 0
    /\ got' = 0
    /\ pkt_crnt_descs' = 0
    /\ comp_head_ptr' = Ahead(i)
    /\ comp_ring_id' = RingIdAhead(i)
    /\ cring' = cring

(* The device has not written the rest yet: remember how far we got. *)
PacketPartial(i) ==
    /\ ~IsNew(i)
    /\ i > 0
    /\ got' = 0
    /\ pkt_crnt_descs' = pkt_crnt_descs + i
    /\ comp_head_ptr' = Ahead(i)
    /\ comp_ring_id' = RingIdAhead(i)
    /\ cring' = cring

(* The packet was cut short by the device: mark the last descriptor that   *)
(* belongs to it and step from there.                                      *)
PacketTrimmed(i) ==
    LET count == pkt_crnt_descs + i
        last_desc == Mask(next_cdesc_idx + count - 1)
    IN  /\ IsNew(i) /\ Trimmed(i)
        /\ got' = count
        /\ cring' = [cring EXCEPT ![last_desc].err = TRUE, ![last_desc].last = TRUE]
        /\ pkt_crnt_descs' = 0
        /\ comp_head_ptr' = NextPtr(last_desc)
        /\ comp_ring_id' = NextUpdate(last_desc, RingIdAhead(i))

(* A call that finds no new descriptor returns 0 and changes nothing. *)
al_udma_cdesc_packet_get ==
    /\ ~HeadReg
    /\ got = 0
    /\ \E i \in 0 .. Size - 1 :
          /\ StopAt(i)
          /\ PacketWhole(i) \/ PacketPartial(i) \/ PacketTrimmed(i)
    /\ UNCHANGED <<next_desc_idx, desc_ring_id, next_cdesc_idx, drain, todo, prepared,
                   hwvars, desc>>

(* Drain by the head pointer register instead of by the ring ids. *)
al_udma_cdesc_get_all ==
    /\ HeadReg
    /\ got = 0
    /\ got' = Mask(crhp - next_cdesc_idx)
    /\ UNCHANGED <<swvars, todo, prepared, hwvars, desc, cring>>

(* Mutant: the index is not masked. *)
cdesc_ack_unmasked(num) ==
    /\ got > 0
    /\ num = got
    /\ next_cdesc_idx' = next_cdesc_idx + num
    /\ got' = 0
    /\ UNCHANGED <<next_desc_idx, desc_ring_id, comp_head_ptr, comp_ring_id,
                   pkt_crnt_descs, drain, todo, prepared, hwvars, desc, cring>>

(* Mutant: one completion too many is given back. *)
cdesc_ack_one_more(num) ==
    /\ got > 0
    /\ num = got
    /\ next_cdesc_idx' = Mask(next_cdesc_idx + num + 1)
    /\ got' = 0
    /\ UNCHANGED <<next_desc_idx, desc_ring_id, comp_head_ptr, comp_ring_id,
                   pkt_crnt_descs, drain, todo, prepared, hwvars, desc, cring>>

al_udma_cdesc_ack(num) ==
    /\ got > 0
    /\ num = got
    /\ next_cdesc_idx' = Mask(next_cdesc_idx + num)
    /\ got' = 0
    /\ UNCHANGED <<next_desc_idx, desc_ring_id, comp_head_ptr, comp_ring_id,
                   pkt_crnt_descs, drain, todo, prepared, hwvars, desc, cring>>
-----------------------------------------------------------------------------
(* The device completes its descriptors in order.  It chooses where a      *)
(* packet ends and reports an error only in the last descriptor.           *)
HwComplete(last, err) ==
    /\ posted > 0
    /\ hw_len + 1 = MaxPkt => last
    /\ err => last
    /\ cring' = [cring EXCEPT ![crhp] = [ring_id |-> hw_ring_id, first |-> hw_len = 0,
                                         last |-> last, err |-> err]]
    /\ hw_len' = IF last THEN 0 ELSE hw_len + 1
    /\ crhp' = NextPtr(crhp)
    /\ hw_ring_id' = NextUpdate(crhp, hw_ring_id)
    /\ posted' = posted - 1
    /\ UNCHANGED <<swvars, clvars, desc>>

(* In drop mode a packet that runs out of descriptors is abandoned. *)
HwDrop ==
    /\ DropMode
    /\ hw_len > 0
    /\ posted = 0
    /\ hw_len' = 0
    /\ UNCHANGED <<swvars, clvars, posted, crhp, hw_ring_id, desc, cring>>

Next ==
    \/ \E num \in 1 .. MaxPkt : Check(num)
    \/ al_udma_desc_get
    \/ \E num \in 1 .. Size : al_udma_desc_action_add(num)
    \/ al_udma_cdesc_packet_get
    \/ al_udma_cdesc_get_all
    \/ \E num \in 1 .. Size : al_udma_cdesc_ack(num)
    \/ \E last, err \in BOOLEAN : HwComplete(last, err)
    \/ HwDrop

Spec == Init /\ [][Next]_vars
-----------------------------------------------------------------------------
(* Completions the device has written and software has not returned yet *)
Unread == Mask(crhp - Mask(next_cdesc_idx + got))

(* The words of a completion descriptor apart from its ring id *)
Flags(c) == [first |-> c.first, last |-> c.last, err |-> c.err]

(* Once a packet was trimmed in the last slot of the ring, the scan waits  *)
(* at the first slot for the ring id of a lap that never comes.            *)
Stalled ==
    /\ comp_head_ptr = 0 /\ Mask(next_cdesc_idx + got) = 0 /\ pkt_crnt_descs = 0
    /\ comp_ring_id = NextRingId(hw_ring_id)

(* Every field of al_udma_q and every descriptor has its type.  The counts *)
(* stay within a ring.                                                     *)
TypeOK ==
    /\ drain \in {"poll", "head", "drop"}
    /\ next_desc_idx \in Idx /\ next_cdesc_idx \in Idx /\ comp_head_ptr \in Idx
    /\ crhp \in Idx
    /\ desc_ring_id \in RingId /\ comp_ring_id \in RingId /\ hw_ring_id \in RingId
    /\ pkt_crnt_descs \in 0 .. Size
    /\ todo \in 0 .. Size /\ prepared \in 0 .. Size /\ got \in 0 .. Size
    /\ posted \in 0 .. Size /\ hw_len \in 0 .. MaxPkt - 1
    /\ desc \in [Idx -> RingId]
    /\ cring \in [Idx -> CDesc]

(* al_udma_available_get works modulo the ring size and would report a     *)
(* nearly empty ring once more than Size - Reserve slots are taken.  The   *)
(* callers' check keeps the ring below that point: every slot is accounted *)
(* for, and Reserve slots stay between the completion the device writes    *)
(* next and the oldest one not acknowledged (al_hal_udma.h: "completion    *)
(* descriptor padding will not overrun yet not acknowleged completion      *)
(* descriptors").                                                          *)
RingAccounted ==
    /\ next_desc_idx = Mask(next_cdesc_idx + got + Unread + posted + prepared)
    /\ todo + prepared + posted + Unread + got <= Size - Reserve

(* Ring ids are all al_udma_new_cdesc has to go by, and they repeat every  *)
(* four laps.  A completion descriptor looks new exactly when the device   *)
(* has written it and al_udma_cdesc_packet_get has not passed it, so no    *)
(* completion of an earlier lap is taken twice and none is overlooked.  It *)
(* fails only where a dropped packet was trimmed in the last slot.         *)
NewExactly ==
    ~HeadReg /\ ~(DropMode /\ Stalled) =>
        \A i \in Idx : IsNew(i) <=> i < Mask(crhp - comp_head_ptr)

(* What al_udma_cdesc_packet_get returns is one packet, also when the      *)
(* device drops the middle or the end of some packets: it begins with a    *)
(* first descriptor, ends with a last one and holds neither in between, so *)
(* the drop pattern "F, M, M, F, L" is not passed on as one packet.        *)
OnePacket ==
    (~HeadReg /\ got > 0) =>
        \A k \in 1 .. got :
            LET c == cring[Mask(next_cdesc_idx + k - 1)]
            IN  (c.first <=> k = 1) /\ (c.last <=> k = got)

(* A submission descriptor is left alone from al_udma_desc_get until the   *)
(* device has completed it: filling new descriptors never reaches those    *)
(* that are prepared or posted.                                            *)
DescOwned ==
    [][\A k \in 1 .. prepared + posted :
          desc'[Mask(next_desc_idx - k)] = desc[Mask(next_desc_idx - k)]]_vars

-----------------------------------------------------------------------------
(* The inductive invariant behind RingAccounted, NewExactly and OnePacket, *)
(* in both modes.                                                          *)

(* A completion descriptor carries the device's ring id up to crhp and the *)
(* previous one beyond it.                                                 *)
RingIdsWritten ==
    \A i \in Idx : cring[i].ring_id = IF i < crhp THEN hw_ring_id
                                                  ELSE PrevRingId(hw_ring_id)

(* The scan stands right behind the returned and the partial packet, and   *)
(* expects the ring id of the lap it is in.                                *)
ScanInStep ==
    /\ comp_head_ptr = Mask(next_cdesc_idx + got + pkt_crnt_descs)
    /\ pkt_crnt_descs <= Unread
    /\ comp_ring_id = IF comp_head_ptr <= crhp THEN hw_ring_id
                                               ELSE PrevRingId(hw_ring_id)

(* Among the unread completions a packet starts where the previous one     *)
(* ended, or where the device dropped its rest; the packet the scan is in  *)
(* has not ended and no other has started in it.                           *)
UnreadDesc(k) == cring[Mask(next_cdesc_idx + got + k)]
PacketsUnread ==
    /\ Unread = 0 => hw_len = 0
    /\ Unread > 0 => (UnreadDesc(Unread - 1).last => hw_len = 0)
    /\ Unread > 0 => UnreadDesc(0).first
    /\ \A k \in 1 .. Unread - 1 : UnreadDesc(k - 1).last => UnreadDesc(k).first
    /\ \A k \in 0 .. pkt_crnt_descs - 1 : ~UnreadDesc(k).last
    /\ \A k \in 1 .. pkt_crnt_descs - 1 : ~UnreadDesc(k).first

(* Unless the device drops packets, each one is written to its end. *)
PacketsEnd ==
    /\ Unread > 0 /\ hw_len = 0 => UnreadDesc(Unread - 1).last
    /\ \A k \in 1 .. Unread - 1 : UnreadDesc(k).first => UnreadDesc(k - 1).last

ScanOK ==
    /\ ScanInStep \/ (DropMode /\ Stalled)
    /\ PacketsUnread
    /\ DropMode \/ PacketsEnd

IInv ==
    /\ TypeOK
    /\ RingAccounted
    /\ RingIdsWritten
    /\ ~HeadReg => ScanOK
-----------------------------------------------------------------------------
(* The words written and not returned, and the words returned and not      *)
(* acknowledged, oldest first.                                             *)
Chan == [k \in 1 .. Unread |-> Flags(cring[Mask(next_cdesc_idx + got + k - 1)])]
Out == [k \in 1 .. got |-> Flags(cring[Mask(next_cdesc_idx + k - 1)])]

(* The queue is a first-in first-out channel: what the device writes is    *)
(* returned once and in order, a whole packet at a time to a driver that   *)
(* polls and all that is written to one that reads the head pointer, and   *)
(* is not overwritten before al_udma_cdesc_ack.  A queue whose device      *)
(* drops packets is none, and is mapped to one that nobody uses.           *)
FifoChan == IF DropMode THEN <<>> ELSE Chan
FifoOut == IF DropMode THEN <<>> ELSE Out
Fifo == INSTANCE CompletionFifo WITH whole <- ~HeadReg, chan <- FifoChan, out <- FifoOut
FifoSpec == Fifo!Spec
=============================================================================
