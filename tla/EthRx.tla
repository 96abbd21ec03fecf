------------------------------- MODULE EthRx -------------------------------
(***************************************************************************)
(* One receive queue of the al_eth driver (al_eth_main.c): the NAPI poll   *)
(* al_eth_rx_poll, which takes packets, hands their buffers to the stack   *)
(* and refills the ring, the receive interrupt, the engine, and the        *)
(* interface going down and up.  Every allocation may fail.                *)
(*                                                                         *)
(* The driver finds a packet's buffers by its own index next_to_clean into *)
(* rx_buffer_info, and the engine by the descriptors of the UDMA queue,    *)
(* which has indices of its own.  Nothing but the code's order keeps the   *)
(* two in step.                                                            *)
(***************************************************************************)
EXTENDS Integers, Sequences, FiniteSets

CONSTANTS
    Frags,           \* page fragments for receive buffers
    None,            \* no fragment
    Descs,           \* AL_ETH_DEFAULT_RX_DESCS, the size of both rings
    Budget,          \* packets NAPI lets one poll take
    MaxDescs,        \* buffers of the longest packet
    BufLen,          \* data_size: what one buffer holds
    CopyLens         \* values of small_copy_len (sysfs)

ASSUME SizeAssumption ==
    /\ Descs \in Nat /\ Budget \in Nat \ {0} /\ BufLen \in Nat \ {0}
    /\ MaxDescs \in 1 .. Descs - 1
    /\ CopyLens \subseteq Nat /\ CopyLens # {}
ASSUME NoneAssumption == None \notin Frags

VARIABLES
    at,              \* the driver: "off", "fill" (al_eth_up), "idle", and in
                     \* al_eth_rx_poll "loop" and "refill"
    budget,          \* what is left of the poll's budget
    napi,            \* "idle"; "sched": NAPI will poll; "stuck": marked as
                     \* scheduled, and not on NAPI's list
    small_copy_len,
    next_to_use, next_to_clean,
    rx_info,         \* rx_buffer_info[].data
    next_desc_idx, next_cdesc_idx,    \* the UDMA queue
    desc,            \* the buffers in the descriptors in flight, from
                     \* next_cdesc_idx to next_desc_idx
    added,           \* descriptors filled, not yet handed to the engine
    posted,          \* descriptors the engine may write to
    comp,            \* packets completed and not taken, oldest first
    irq,             \* the queue's cause bit is set
    held,            \* fragments of the driver; the others are with the
                     \* stack, or free
    mapped,          \* fragments mapped for the device
    spoiled,         \* history: fragments kept after dma_unmap_single
    fault            \* history: what the last poll failed to allocate

rings == <<next_to_use, next_to_clean, rx_info, next_desc_idx, next_cdesc_idx, desc>>
frags == <<held, mapped, spoiled>>
vars == <<at, budget, napi, small_copy_len, rings, added, posted, comp, irq, frags, fault>>

Slots == 0 .. Descs - 1
Add(i, n) == (i + n) % Descs                 \* AL_ETH_RX_RING_IDX_ADD
al_udma_available_get == (next_cdesc_idx - (next_desc_idx + 1)) % Descs

(* len is that of the first buffer, full if there are more: only a length  *)
(* up to the largest small_copy_len or beyond it makes a difference.       *)
Packets == {p \in [descs : 1 .. MaxDescs, len : 1 .. BufLen, err : BOOLEAN] :
                p.descs > 1 \/ p.err => p.len = BufLen}

(* al_eth_up has set up empty rings and is about to fill them. *)
Init ==
    /\ at = "fill" /\ budget = 0 /\ napi = "idle"
    /\ small_copy_len \in CopyLens
    /\ next_to_use = 0 /\ next_to_clean = 0
    /\ next_desc_idx = 0 /\ next_cdesc_idx = 0
    /\ rx_info = [i \in Slots |-> None] /\ desc = <<>>
    /\ added = 0 /\ posted = 0 /\ comp = <<>> /\ irq = FALSE
    /\ held = {} /\ mapped = {} /\ spoiled = {}
    /\ fault = "none"
-----------------------------------------------------------------------------
(* al_eth_intr_msix_rx: napi_schedule; the interrupt masks itself until    *)
(* the poll unmasks it.                                                    *)
Interrupt ==
    /\ at = "idle" /\ irq /\ napi = "idle"
    /\ irq' = FALSE
    /\ napi' = "sched"
    /\ UNCHANGED <<at, budget, small_copy_len, rings, added, posted, comp, frags, fault>>

PollBegin ==
    /\ at = "idle" /\ napi = "sched"
    /\ at' = "loop"
    /\ budget' = Budget
    /\ fault' = "none"
    /\ UNCHANGED <<napi, small_copy_len, rings, added, posted, comp, irq, frags>>

(* al_eth_pkt_rx finds no packet *)
PollEmpty ==
    /\ at = "loop" /\ comp = <<>>
    /\ at' = "refill"
    /\ UNCHANGED <<budget, napi, small_copy_len, rings, added, posted, comp, irq, frags, fault>>

(* al_eth_pkt_rx takes a packet and acknowledges its descriptors at once. *)
al_eth_pkt_rx(p) ==
    /\ at = "loop" /\ comp # <<>>
    /\ p = Head(comp)
    /\ comp' = Tail(comp)
    /\ next_cdesc_idx' = Add(next_cdesc_idx, p.descs)
    /\ desc' = SubSeq(desc, p.descs + 1, Len(desc))
    /\ UNCHANGED <<napi, small_copy_len, next_to_use, next_desc_idx, added, posted, irq>>

(* The end of the loop's body, and the test of the budget *)
NextPacket ==
    /\ budget' = budget - 1
    /\ at' = IF budget = 1 THEN "refill" ELSE "loop"
    /\ UNCHANGED fault

(* No socket buffer: the packet is given up, and the loop ends. *)
GiveUp(p) ==
    /\ next_to_clean' = Add(next_to_clean, p.descs)
    /\ at' = "refill"
    /\ fault' = "skb"
    /\ UNCHANGED <<budget, rx_info, held, mapped>>

(* Mutant: the buffers of a bad packet are not passed over. *)
PollError_no_skip(p) ==
    /\ al_eth_pkt_rx(p) /\ p.err
    /\ NextPacket
    /\ UNCHANGED <<next_to_clean, rx_info, frags>>

(* Mutant: the index runs out of the ring. *)
PollError_unmasked(p) ==
    /\ al_eth_pkt_rx(p) /\ p.err
    /\ next_to_clean' = next_to_clean + p.descs
    /\ NextPacket
    /\ UNCHANGED <<rx_info, frags>>

(* The engine reports an error: the buffers stay where they are. *)
PollError(p) ==
    /\ al_eth_pkt_rx(p) /\ p.err
    /\ next_to_clean' = Add(next_to_clean, p.descs)
    /\ NextPacket
    /\ UNCHANGED <<rx_info, frags>>

(* A small packet is copied out of its first buffer, which stays mapped. *)
PollCopy(p) ==
    /\ al_eth_pkt_rx(p) /\ ~p.err /\ p.len <= small_copy_len
    /\ next_to_clean' = Add(next_to_clean, 1)
    /\ NextPacket
    /\ UNCHANGED <<rx_info, frags>>

(* netdev_alloc_skb_ip_align fails *)
PollCopyFails(p) ==
    /\ al_eth_pkt_rx(p) /\ ~p.err /\ p.len <= small_copy_len
    /\ GiveUp(p)
    /\ UNCHANGED spoiled

Of(p) == {Add(next_to_clean, k) : k \in 0 .. p.descs - 1}
FragsOf(p) == {rx_info[i] : i \in Of(p)} \ {None}

(* Mutant: the loop over the further buffers leaves their data pointers. *)
PollFrags_keeps_data(p) ==
    /\ al_eth_pkt_rx(p) /\ ~p.err /\ p.len > small_copy_len
    /\ rx_info' = [rx_info EXCEPT ![next_to_clean] = None]
    /\ held' = held \ FragsOf(p)
    /\ mapped' = mapped \ FragsOf(p)
    /\ spoiled' = spoiled \ FragsOf(p)
    /\ next_to_clean' = Add(next_to_clean, p.descs)
    /\ NextPacket

(* The buffers are unmapped and become the fragments of a socket buffer. *)
PollFrags(p) ==
    /\ al_eth_pkt_rx(p) /\ ~p.err /\ p.len > small_copy_len
    /\ rx_info' = [i \in Slots |-> IF i \in Of(p) THEN None ELSE rx_info[i]]
    /\ held' = held \ FragsOf(p)
    /\ mapped' = mapped \ FragsOf(p)
    /\ spoiled' = spoiled \ FragsOf(p)
    /\ next_to_clean' = Add(next_to_clean, p.descs)
    /\ NextPacket

(* napi_get_frags fails, after the first buffer was unmapped: the buffer   *)
(* stays in its slot.                                                      *)
PollFragsFails(p) ==
    /\ al_eth_pkt_rx(p) /\ ~p.err /\ p.len > small_copy_len
    /\ next_to_clean' = Add(next_to_clean, p.descs)
    /\ mapped' = mapped \ {rx_info[next_to_clean]}
    /\ spoiled' = spoiled \cup {rx_info[next_to_clean]}
    /\ at' = "refill"
    /\ fault' = "skb"
    /\ UNCHANGED <<budget, rx_info, held>>
-----------------------------------------------------------------------------
(* al_eth_refill_rx_bufs, called by the poll for al_udma_available_get     *)
(* buffers and by al_eth_up for all but one; both are what is available    *)
(* when the loop begins, so al_eth_rx_buffer_add does not fail and the     *)
(* loop ends when nothing is available.                                    *)
Refilling == at \in {"fill", "refill"}

(* al_eth_rx_buffer_add *)
BufferAdd(f) ==
    /\ desc' = Append(desc, f)
    /\ next_desc_idx' = Add(next_desc_idx, 1)
    /\ added' = added + 1
    /\ next_to_use' = Add(next_to_use, 1)
    /\ UNCHANGED <<at, budget, napi, small_copy_len, next_to_clean, next_cdesc_idx,
                   posted, comp, irq, spoiled, fault>>

(* al_eth_alloc_rx_frag: the previous fragment was not used *)
RefillKept ==
    /\ Refilling /\ al_udma_available_get > 0
    /\ rx_info[next_to_use] # None
    /\ BufferAdd(rx_info[next_to_use])
    /\ UNCHANGED <<rx_info, held, mapped>>

(* netdev_alloc_frag.  Which fragment it returns makes no difference. *)
NewFrag == CHOOSE f \in Frags \ held : TRUE

(* Mutant: a fragment is allocated whether or not the slot holds one. *)
RefillNew_always ==
    /\ Refilling /\ al_udma_available_get > 0 /\ held # Frags
    /\ rx_info' = [rx_info EXCEPT ![next_to_use] = NewFrag]
    /\ held' = held \cup {NewFrag}
    /\ mapped' = mapped \cup {NewFrag}
    /\ BufferAdd(NewFrag)

RefillNew ==
    /\ Refilling /\ al_udma_available_get > 0 /\ held # Frags
    /\ rx_info[next_to_use] = None
    /\ rx_info' = [rx_info EXCEPT ![next_to_use] = NewFrag]
    /\ held' = held \cup {NewFrag}
    /\ mapped' = mapped \cup {NewFrag}
    /\ BufferAdd(NewFrag)

(* al_eth_rx_buffer_action *)
Post ==
    /\ posted' = posted + added
    /\ added' = 0
    /\ at' = "idle"
    /\ UNCHANGED <<budget, small_copy_len, rings, comp, irq, frags>>

(* netdev_alloc_frag or dma_map_single fails.  al_eth_up ignores it.  The  *)
(* poll "reschedules": napi_schedule finds NAPI scheduled already, and     *)
(* NAPI polls again only if the whole budget was used.                     *)
RefillShort ==
    /\ Refilling /\ al_udma_available_get > 0
    /\ rx_info[next_to_use] = None
    /\ fault' = IF at = "refill" THEN "refill" ELSE fault
    /\ napi' = IF at = "refill" /\ budget > 0 THEN "stuck" ELSE napi
    /\ Post

(* Mutant: the interrupt is unmasked although the budget ran out. *)
RefillDone_ignores_budget ==
    /\ Refilling /\ al_udma_available_get = 0
    /\ napi' = "idle"
    /\ UNCHANGED fault
    /\ Post

(* Refilled: with budget left, napi_complete and the interrupt is unmasked *)
RefillDone ==
    /\ Refilling /\ al_udma_available_get = 0
    /\ napi' = IF at = "refill" /\ budget > 0 THEN "idle" ELSE napi
    /\ UNCHANGED fault
    /\ Post
-----------------------------------------------------------------------------
(* The engine fills the oldest buffers, each before the next, and raises   *)
(* the queue's interrupt cause.                                            *)
HwReceive(p) ==
    /\ at \notin {"off", "fill"}
    /\ p.descs <= posted
    /\ posted' = posted - p.descs
    /\ comp' = Append(comp, p)
    /\ irq' = TRUE
    /\ UNCHANGED <<at, budget, napi, small_copy_len, rings, added, frags, fault>>

al_eth_store_small_copy_len(n) ==
    /\ n # small_copy_len
    /\ small_copy_len' = n
    /\ UNCHANGED <<at, budget, napi, rings, added, posted, comp, irq, frags, fault>>

(* al_eth_down: napi_disable waits while NAPI is scheduled; the engine is  *)
(* stopped, and al_eth_free_rx_bufs frees the buffer of every slot.        *)
al_eth_down ==
    /\ at = "idle" /\ napi = "idle"
    /\ at' = "off"
    /\ held' = held \ {rx_info[i] : i \in Slots}
    /\ mapped' = mapped \ {rx_info[i] : i \in Slots}
    /\ spoiled' = spoiled \ {rx_info[i] : i \in Slots}
    /\ rx_info' = [i \in Slots |-> None]
    /\ desc' = <<>> /\ posted' = 0 /\ comp' = <<>> /\ irq' = FALSE /\ fault' = "none"
    /\ UNCHANGED <<budget, napi, small_copy_len, next_to_use, next_to_clean, next_desc_idx,
                   next_cdesc_idx, added>>

(* al_eth_up: rings and indices anew, then al_eth_refill_all_rx_bufs *)
al_eth_up ==
    /\ at = "off"
    /\ at' = "fill"
    /\ next_to_use' = 0 /\ next_to_clean' = 0
    /\ next_desc_idx' = 0 /\ next_cdesc_idx' = 0
    /\ UNCHANGED <<budget, napi, small_copy_len, rx_info, desc, added, posted, comp, irq, frags,
                   fault>>

PollPacket(p) ==
    PollError(p) \/ PollCopy(p) \/ PollCopyFails(p) \/ PollFrags(p) \/ PollFragsFails(p)
PollStep ==
    \/ PollBegin \/ PollEmpty \/ \E p \in Packets : PollPacket(p)
    \/ RefillKept \/ RefillNew
    \/ RefillShort \/ RefillDone

Next ==
    \/ Interrupt
    \/ PollBegin \/ PollEmpty
    \/ \E p \in Packets : \/ PollError(p) \/ PollCopy(p) \/ PollCopyFails(p)
                          \/ PollFrags(p) \/ PollFragsFails(p)
    \/ RefillKept \/ RefillNew
    \/ RefillShort \/ RefillDone
    \/ \E p \in Packets : HwReceive(p)
    \/ \E n \in CopyLens : al_eth_store_small_copy_len(n)
    \/ al_eth_down \/ al_eth_up

Spec == Init /\ [][Next]_vars

(* Fairness: an interrupt is delivered, NAPI polls what is on its list,    *)
(* and code that runs goes on.  Nothing makes a packet arrive, the stack   *)
(* free one or an allocation succeed.                                      *)
FairSpec == Spec /\ WF_vars(Interrupt) /\ WF_vars(PollStep)
-----------------------------------------------------------------------------
(* The type invariant of the queue. *)
TypeOK ==
    /\ at \in {"off", "fill", "idle", "loop", "refill"}
    /\ budget \in 0 .. Budget /\ napi \in {"idle", "sched", "stuck"}
    /\ small_copy_len \in CopyLens
    /\ {next_to_use, next_to_clean, next_desc_idx, next_cdesc_idx} \subseteq Slots
    /\ rx_info \in [Slots -> Frags \cup {None}] /\ desc \in Seq(Frags)
    /\ added \in Slots /\ posted \in Slots
    /\ comp \in Seq(Packets) /\ irq \in BOOLEAN
    /\ held \subseteq Frags /\ mapped \subseteq Frags /\ spoiled \subseteq Frags
    /\ fault \in {"none", "skb", "refill"}

(* The rings stay in step: the buffer the engine has in a descriptor is    *)
(* the one rx_info holds in the slot of the same place, so the buffers     *)
(* al_eth_rx_skb hands up by next_to_clean are those the packet is in,     *)
(* also after packets with errors, copied packets, packets given up and    *)
(* refills that ended early.                                               *)
BuffersMatch ==
    at # "off" =>
        /\ next_to_clean = next_cdesc_idx /\ next_to_use = next_desc_idx
        /\ Len(desc) = (next_desc_idx - next_cdesc_idx) % Descs
        /\ \A k \in DOMAIN desc : rx_info[Add(next_to_clean, k - 1)] = desc[k]

(* The engine writes only into memory of the driver that is mapped for it, *)
(* never into a packet the stack holds.  The exception is a buffer whose   *)
(* packet was given up because napi_get_frags failed: al_eth_rx_skb has    *)
(* unmapped it by then, and the refill posts it again as it is.            *)
Writable == {k \in DOMAIN desc : k \in Len(desc) - added - posted + 1 .. Len(desc) - added}
EngineWritesOwn ==
    \A k \in Writable : desc[k] \in held /\ desc[k] \in mapped \cup spoiled

(* A buffer is in one slot and mapped, or it is the stack's or free: none  *)
(* is lost or held twice, whichever allocation fails, and al_eth_down      *)
(* leaves none behind.                                                     *)
HeldOnce ==
    \A f \in Frags :
        /\ f \in held <=> Cardinality({i \in Slots : rx_info[i] = f}) = 1
        /\ f \in held <=> f \in mapped \cup spoiled

(* A completed packet is taken in the end: the interrupt, the budget and   *)
(* the unmasking at the end of a poll leave no packet waiting for the next *)
(* one to arrive.  Only a poll that failed to allocate may.                *)
Received ==
    \A i \in Slots :
        (comp # <<>> /\ next_cdesc_idx = i) ~>
            (next_cdesc_idx # i \/ at = "off" \/ fault # "none")

(* "rescheduling rx queue": a poll that could not refill the ring is       *)
(* followed by another poll, which tries again.                            *)
Rescheduled == (fault = "refill") ~> (at = "loop")
=============================================================================
