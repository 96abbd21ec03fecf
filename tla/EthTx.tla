------------------------------- MODULE EthTx -------------------------------
(***************************************************************************)
(* One transmit queue of the al_eth driver (al_eth_main.c):                *)
(* al_eth_start_xmit on one CPU, the NAPI poll al_eth_tx_poll on another,  *)
(* the transmit interrupt, the engine, and the interface going down and    *)
(* up.                                                                     *)
(*                                                                         *)
(* The driver counts twice: packets in tx_buffer_info, a software ring     *)
(* indexed by next_to_use and next_to_clean, and descriptors in the UDMA   *)
(* queue.  Room is looked up in the second only, and the second is given   *)
(* back before the first: history variables record when that goes wrong.   *)
(***************************************************************************)
EXTENDS Integers, Sequences, FiniteSets

CONSTANTS
    Skbs,            \* socket buffers the stack owns or has handed over
    None,            \* no socket buffer
    HwDescs,         \* descriptors the UDMA queue can have outstanding: as
                     \* many as there are slots, less the UDMA's reserve
    SwDescs,         \* AL_ETH_DEFAULT_TX_SW_DESCS
    MaxDescs,        \* MAX_SKB_FRAGS + 2: the most a packet takes
    WakeThresh,      \* AL_ETH_TX_WAKEUP_THRESH
    Sizes            \* descriptors of a packet: buffers, and a meta
                     \* descriptor when checksum or segmentation is offloaded

ASSUME SizeAssumption ==
    /\ HwDescs \in Nat /\ SwDescs \in Nat /\ HwDescs < SwDescs
    /\ MaxDescs \in 1 .. HwDescs /\ WakeThresh \in MaxDescs .. HwDescs - 1
    /\ Sizes \subseteq 1 .. MaxDescs
ASSUME NoneAssumption == None \notin Skbs

VARIABLES
    up, stopped,        \* adapter->up; the stack's queue is stopped
    next_to_use, next_to_clean,
    tx_info,            \* tx_buffer_info: socket buffer and descriptors
    owner,              \* who may free a socket buffer
    xmit,               \* al_eth_start_xmit: place, packet, descriptors
    poll, total_done,   \* al_eth_tx_poll: place, local count
    used,               \* descriptors taken from the queue, not acknowledged
    hw, part,           \* packets in the engine, oldest first; descriptors
                        \* of the first that are reported already
    reported,           \* descriptors reported complete, not acknowledged
    irq,                \* the queue's cause bit is set
    overrun,            \* history: start_xmit took a slot not cleaned yet
    lost                \* history, since al_eth_up: tx_poll dropped a count

sw == <<next_to_use, next_to_clean, tx_info, owner>>
device == <<used, hw, part, reported, irq>>
history == <<overrun, lost>>
vars == <<up, stopped, sw, xmit, poll, total_done, device, history>>

Slots == 0 .. SwDescs - 1
Empty == [skb |-> None, descs |-> 0]
Idling == [at |-> "idle", skb |-> None, descs |-> 0]
Succ(i) == (i + 1) % SwDescs
al_udma_available_get == HwDescs - used

Init ==
    /\ up = TRUE /\ stopped = FALSE
    /\ next_to_use = 0 /\ next_to_clean = 0
    /\ tx_info = [i \in Slots |-> Empty]
    /\ owner = [p \in Skbs |-> "stack"]
    /\ xmit = Idling
    /\ poll = "idle" /\ total_done = 0
    /\ used = 0 /\ hw = <<>> /\ part = 0 /\ reported = 0 /\ irq = FALSE
    /\ overrun = FALSE /\ lost = FALSE
-----------------------------------------------------------------------------
(* The slot at next_to_use holds a packet the driver has still to free. *)
SlotHeld ==
    LET skb == tx_info[next_to_use].skb
    IN  skb # None /\ owner[skb] = "driver"

(* Mutant: the slot is passed over although the packet was not mapped. *)
XmitMapError_takes_slot(p) ==
    /\ xmit.at = "idle" /\ ~stopped /\ owner[p] = "stack"
    /\ tx_info' = [tx_info EXCEPT ![next_to_use].skb = p]
    /\ next_to_use' = Succ(next_to_use)
    /\ overrun' = (overrun \/ SlotHeld)
    /\ UNCHANGED <<up, stopped, next_to_clean, owner, xmit, poll, total_done, device, lost>>

(* al_eth_start_xmit, called by the stack under the queue's lock while the *)
(* queue is not stopped.  dma_map_single fails: the packet is freed and    *)
(* stays in its slot.                                                      *)
XmitMapError(p) ==
    /\ xmit.at = "idle" /\ ~stopped /\ owner[p] = "stack"
    /\ tx_info' = [tx_info EXCEPT ![next_to_use].skb = p]
    /\ overrun' = (overrun \/ SlotHeld)
    /\ UNCHANGED <<up, stopped, next_to_use, next_to_clean, owner, xmit, poll, total_done,
                   device, lost>>

(* A later fragment cannot be mapped, or the MSS is invalid: what was      *)
(* mapped is unmapped, and the packet is freed.                            *)
XmitDropped(p) ==
    /\ xmit.at = "idle" /\ ~stopped /\ owner[p] = "stack"
    /\ tx_info' = [tx_info EXCEPT ![next_to_use].skb = None]
    /\ overrun' = (overrun \/ SlotHeld)
    /\ UNCHANGED <<up, stopped, next_to_use, next_to_clean, owner, xmit, poll, total_done,
                   device, lost>>

(* The packet takes a slot, and al_eth_tx_pkt_prepare takes descriptors:   *)
(* none when there are too few.                                            *)
XmitPrepare(p, n) ==
    /\ xmit.at = "idle" /\ ~stopped /\ owner[p] = "stack"
    /\ owner' = [owner EXCEPT ![p] = "driver"]
    /\ LET m == IF al_udma_available_get < n THEN 0 ELSE n
       IN  /\ tx_info' = [tx_info EXCEPT ![next_to_use] = [skb |-> p, descs |-> m]]
           /\ used' = used + m
           /\ xmit' = [at |-> "check", skb |-> p, descs |-> m]
    /\ next_to_use' = Succ(next_to_use)
    /\ overrun' = (overrun \/ SlotHeld)
    /\ UNCHANGED <<up, stopped, next_to_clean, poll, total_done, hw, part, reported, irq,
                   lost>>

(* Mutant: room for a packet without its meta descriptor is enough. *)
XmitCheck_off_by_one ==
    /\ xmit.at = "check"
    /\ xmit' = [xmit EXCEPT !.at =
                    IF al_udma_available_get < MaxDescs - 1 THEN "stop" ELSE "action"]
    /\ UNCHANGED <<up, stopped, sw, poll, total_done, device, history>>

XmitCheck ==
    /\ xmit.at = "check"
    /\ xmit' = [xmit EXCEPT !.at =
                    IF al_udma_available_get < MaxDescs THEN "stop" ELSE "action"]
    /\ UNCHANGED <<up, stopped, sw, poll, total_done, device, history>>

XmitStop ==
    /\ xmit.at = "stop"
    /\ stopped' = TRUE
    /\ xmit' = [xmit EXCEPT !.at = "action"]
    /\ UNCHANGED <<up, sw, poll, total_done, device, history>>

(* al_eth_tx_dma_action *)
XmitAction ==
    /\ xmit.at = "action"
    /\ hw' = IF xmit.descs = 0 THEN hw
             ELSE Append(hw, [skb |-> xmit.skb, descs |-> xmit.descs])
    /\ xmit' = Idling
    /\ UNCHANGED <<up, stopped, sw, poll, total_done, used, part, reported, irq, history>>
-----------------------------------------------------------------------------
(* al_eth_intr_msix_tx; the interrupt masks itself until the poll is done. *)
Interrupt ==
    /\ irq /\ poll = "idle" /\ up
    /\ irq' = FALSE
    /\ poll' = "get"
    /\ UNCHANGED <<up, stopped, sw, xmit, total_done, used, hw, part, reported, history>>

(* Mutant: counts the completions and leaves them on the queue. *)
PollGet_unacknowledged ==
    /\ poll = "get"
    /\ total_done' = reported
    /\ used' = used - reported
    /\ poll' = "clean"
    /\ UNCHANGED <<up, stopped, sw, xmit, hw, part, reported, irq, history>>

(* Mutant: takes every descriptor outstanding for a completed one. *)
PollGet_outstanding ==
    /\ poll = "get"
    /\ total_done' = used
    /\ used' = used - reported
    /\ reported' = 0
    /\ poll' = "clean"
    /\ UNCHANGED <<up, stopped, sw, xmit, hw, part, irq, history>>

(* al_eth_comp_tx_get acknowledges all that is reported. *)
PollGet ==
    /\ poll = "get"
    /\ total_done' = reported
    /\ used' = used - reported
    /\ reported' = 0
    /\ poll' = "clean"
    /\ UNCHANGED <<up, stopped, sw, xmit, hw, part, irq, history>>

Cleanable == total_done > 0 /\ tx_info[next_to_clean].descs <= total_done

(* One turn of the loop.  A slot without a packet is a NULL pointer here:  *)
(* the loop does not get past it.                                          *)
PollClean ==
    /\ poll = "clean" /\ Cleanable
    /\ tx_info[next_to_clean].skb # None
    /\ owner' = [owner EXCEPT ![tx_info[next_to_clean].skb] = "stack"]
    /\ tx_info' = [tx_info EXCEPT ![next_to_clean].skb = None]
    /\ total_done' = total_done - tx_info[next_to_clean].descs
    /\ next_to_clean' = Succ(next_to_clean)
    /\ UNCHANGED <<up, stopped, next_to_use, xmit, poll, device, history>>

(* The loop ends.  What is left of total_done, when the engine reported a  *)
(* part of a packet, is dropped.                                           *)
PollCleaned ==
    /\ poll = "clean" /\ ~Cleanable
    /\ lost' = (lost \/ total_done > 0)
    /\ total_done' = 0
    /\ poll' = "check"
    /\ UNCHANGED <<up, stopped, sw, xmit, device, overrun>>

(* Mutant: compares with the size of the ring. *)
MayWake_size == stopped /\ al_udma_available_get > HwDescs

MayWake == stopped /\ al_udma_available_get > WakeThresh

PollCheck ==
    /\ poll = "check"
    /\ poll' = IF MayWake THEN "wake" ELSE "done"
    /\ UNCHANGED <<up, stopped, sw, xmit, total_done, device, history>>

(* Under the queue's lock *)
PollWake ==
    /\ poll = "wake" /\ xmit.at = "idle"
    /\ stopped' = (stopped /\ ~MayWake)
    /\ poll' = "done"
    /\ UNCHANGED <<up, sw, xmit, total_done, device, history>>

(* napi_complete, and the interrupt is unmasked *)
PollDone ==
    /\ poll = "done"
    /\ poll' = "idle"
    /\ UNCHANGED <<up, stopped, sw, xmit, total_done, device, history>>
-----------------------------------------------------------------------------
(* The engine reports descriptors in order, one at a time, and raises the  *)
(* queue's interrupt cause.  tx_poll expects a packet to be reported in    *)
(* part: "stop if not all descriptors of the packet are completed".        *)
HwReport ==
    /\ hw # <<>> /\ up
    /\ reported' = reported + 1
    /\ IF part + 1 < Head(hw).descs
       THEN part' = part + 1 /\ hw' = hw
       ELSE part' = 0 /\ hw' = Tail(hw)
    /\ irq' = TRUE
    /\ UNCHANGED <<up, stopped, sw, xmit, poll, total_done, used, history>>

Held == {tx_info[i].skb : i \in Slots} \ {None}

(* Mutant: the packets still held are forgotten. *)
al_eth_down_no_free ==
    /\ up /\ xmit.at = "idle" /\ poll = "idle"
    /\ up' = FALSE /\ stopped' = TRUE
    /\ tx_info' = [i \in Slots |-> Empty]
    /\ hw' = <<>> /\ part' = 0 /\ reported' = 0 /\ used' = 0 /\ irq' = FALSE
    /\ lost' = FALSE
    /\ UNCHANGED <<next_to_use, next_to_clean, owner, xmit, poll, total_done, overrun>>

(* al_eth_down: the interrupt, the poll and the stack are stopped, waiting *)
(* for each; the engine is stopped; packets still in a slot are freed.     *)
al_eth_down ==
    /\ up /\ xmit.at = "idle" /\ poll = "idle"
    /\ up' = FALSE /\ stopped' = TRUE
    /\ owner' = [p \in Skbs |-> IF p \in Held THEN "stack" ELSE owner[p]]
    /\ tx_info' = [i \in Slots |-> Empty]
    /\ hw' = <<>> /\ part' = 0 /\ reported' = 0 /\ used' = 0 /\ irq' = FALSE
    /\ lost' = FALSE
    /\ UNCHANGED <<next_to_use, next_to_clean, xmit, poll, total_done, overrun>>

(* al_eth_up: resources anew, and the queue is started *)
al_eth_up ==
    /\ ~up
    /\ up' = TRUE /\ stopped' = FALSE
    /\ next_to_use' = 0 /\ next_to_clean' = 0
    /\ UNCHANGED <<tx_info, owner, xmit, poll, total_done, device, history>>

XmitStep == XmitCheck \/ XmitStop \/ XmitAction
PollStep == PollGet \/ PollClean \/ PollCleaned \/ PollCheck \/ PollWake \/ PollDone

Next ==
    \/ \E p \in Skbs : XmitMapError(p) \/ XmitDropped(p) \/ \E n \in Sizes : XmitPrepare(p, n)
    \/ XmitCheck \/ XmitStop \/ XmitAction
    \/ Interrupt
    \/ PollGet \/ PollClean \/ PollCleaned \/ PollCheck \/ PollWake \/ PollDone
    \/ HwReport
    \/ al_eth_down \/ al_eth_up

Spec == Init /\ [][Next]_vars

(* Fairness: code that runs goes on; the poll gets the queue's lock        *)
(* although the stack takes it in between (a FIFO spinlock); an interrupt  *)
(* is delivered; the engine sends.  Nothing makes the stack transmit.      *)
FairSpec ==
    /\ Spec
    /\ WF_vars(XmitStep) /\ WF_vars(Interrupt) /\ WF_vars(PollStep)
    /\ SF_vars(PollWake)
    /\ WF_vars(HwReport)
-----------------------------------------------------------------------------
(* The type invariant of the queue. *)
TypeOK ==
    /\ up \in BOOLEAN /\ stopped \in BOOLEAN /\ irq \in BOOLEAN
    /\ overrun \in BOOLEAN /\ lost \in BOOLEAN
    /\ next_to_use \in Slots /\ next_to_clean \in Slots
    /\ tx_info \in [Slots -> [skb : Skbs \cup {None}, descs : 0 .. MaxDescs]]
    /\ owner \in [Skbs -> {"stack", "driver"}]
    /\ xmit \in [at : {"idle", "check", "stop", "action"}, skb : Skbs \cup {None},
                 descs : 0 .. MaxDescs]
    /\ poll \in {"idle", "get", "clean", "check", "wake", "done"}
    /\ total_done \in 0 .. HwDescs /\ used \in 0 .. HwDescs /\ reported \in 0 .. HwDescs
    /\ hw \in Seq([skb : Skbs, descs : 1 .. MaxDescs]) /\ part \in 0 .. MaxDescs

(* al_eth_tx_pkt_prepare can fail only silently (it returns 0 and the      *)
(* packet is never sent).  It never does: while the queue is not stopped   *)
(* there is room for the largest packet, although start_xmit looks before  *)
(* it stops the queue and tx_poll wakes it in between.                     *)
PrepareFits == up /\ ~stopped /\ xmit.at = "idle" => al_udma_available_get >= MaxDescs

(* While the queue is not stopped there is a slot for the next packet: one *)
(* that tx_poll has cleaned.  start_xmit says that it will "stop the queue *)
(* when no more space available"; the space it looks at is the UDMA        *)
(* queue's, which tx_poll acknowledges before it cleans the slots.         *)
SlotFree == up /\ ~stopped /\ xmit.at = "idle" => ~SlotHeld

(* A slot is overwritten in two ways only: while tx_poll is between its    *)
(* acknowledgement and the end of its loop, or after it dropped the count  *)
(* of a packet reported in part.  At any other moment the UDMA queue, with *)
(* fewer descriptors than there are slots, bounds the packets in them.     *)
OverrunOnlyInWindow == [][overrun' /\ ~overrun => poll = "clean" \/ lost]_vars

(* Unless a slot was overwritten, a packet the engine has still to read    *)
(* belongs to the driver: tx_poll frees nothing too early, also when the   *)
(* engine reports packets in part and counts are dropped.                  *)
NoEarlyFree == ~overrun => \A i \in DOMAIN hw : owner[hw[i].skb] = "driver"

Idle == hw = <<>> /\ reported = 0 /\ xmit.at = "idle" /\ poll = "idle"

(* When the engine has reported everything and the poll is over, every     *)
(* packet was freed, unless a slot was overwritten or a count dropped: no  *)
(* completion is lost between al_eth_comp_tx_get, which counts             *)
(* descriptors, and the loop, which counts packets, and none of the        *)
(* packets in the engine at al_eth_down is forgotten.                      *)
NothingHeld == ~overrun /\ ~lost /\ Idle => \A p \in Skbs : owner[p] = "stack"

(* The queue is never left stopped: start_xmit stops it without looking    *)
(* again, but before it starts the engine, so that a poll is still to come *)
(* that will see it stopped.  After an overwritten slot the poll may meet  *)
(* a slot without a packet and go no further.                              *)
QueueRestarts == (stopped /\ up) ~> (~stopped \/ ~up \/ overrun)
=============================================================================
