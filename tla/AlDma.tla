------------------------------- MODULE AlDma -------------------------------
(***************************************************************************)
(* One channel of the al_dma dmaengine driver (al_dma_drv.c): the software *)
(* descriptor ring, the cookies, issue_pending, the cleanup tasklet, and   *)
(* the RAID queue of the HAL (al_hal_ssm_raid.c) with the engine behind    *)
(* it.                                                                     *)
(*                                                                         *)
(* An operation is a number, given at its preparation; it stands for the   *)
(* HAL descriptors that al_raid_dma_prepare writes.  Prepare, submit and   *)
(* issue_pending run under ch->lock; the tasklet takes no lock, so it may  *)
(* run between the HAL's look at the RX queue and its use of it.           *)
(***************************************************************************)
EXTENDS Integers, FiniteSets, SequencesExt, Totals

CONSTANTS
    Slots,     \* ring_size: software descriptors of a channel
    RxDescs,   \* RX descriptors the HAL can have outstanding
    TxDescs,   \* TX descriptors the HAL can have outstanding
    Dsts,      \* numbers of destination buffers: 1, and 2 for P and Q
    Srcs,      \* numbers of TX descriptors
    MaxOps     \* bound: operations prepared in a behaviour

ASSUME SizeAssumption ==
    /\ Slots \in Nat \ {0} /\ RxDescs \in Nat /\ TxDescs \in Nat /\ MaxOps \in Nat
    /\ Dsts \subseteq Nat \ {0} /\ Srcs \subseteq Nat \ {0}

VARIABLES
    sw_ring,        \* the operation last prepared in a slot, 0: none
    head, tail,
    chan_cookie,    \* the last cookie given
    allocated,      \* the rings of the channel are allocated
    enabled,        \* AL_QUEUE_ENABLED of the HAL queue
    prep,           \* a prepare inside al_raid_dma_prepare, holding ch->lock
    issuers,        \* calls of issue_pending past the unlock, tasklet not scheduled
    scheduled, running,     \* the cleanup tasklet
    op,             \* per operation: slot, descriptor counts and cookie
    posted,         \* operations the HAL prepared, not handed to the engine
    engine,         \* operations in the engine, oldest first
    unread,         \* completed operations the tasklet has not read
    rx_used, tx_used,   \* descriptors not acknowledged
    tx_comp         \* of these, TX descriptors the engine has completed

chan == <<sw_ring, head, tail>>
life == <<allocated, enabled>>
task == <<issuers, scheduled, running>>
hal == <<posted, engine, unread, rx_used, tx_used, tx_comp>>
vars == <<chan, chan_cookie, life, prep, task, op, hal>>

Nothing == [rx |-> 0, tx |-> 0, avail |-> 0]
Ops == DOMAIN op

Init ==
    /\ sw_ring = [s \in 0 .. Slots - 1 |-> 0]
    /\ head = 0 /\ tail = 0
    /\ chan_cookie = 0
    /\ allocated = FALSE /\ enabled = FALSE
    /\ prep = Nothing
    /\ issuers = 0 /\ scheduled = FALSE /\ running = FALSE
    /\ op = <<>>
    /\ posted = <<>> /\ engine = <<>> /\ unread = <<>>
    /\ rx_used = 0 /\ tx_used = 0 /\ tx_comp = 0

Unlocked == prep = Nothing
Succ(i) == (i + 1) % Slots
-----------------------------------------------------------------------------
(* al_dma_alloc_chan_resources.  al_udma_q_init refuses a queue that is    *)
(* enabled, and then all that was allocated is freed again.                *)
al_dma_alloc_chan_resources ==
    /\ ~allocated /\ ~enabled
    /\ allocated' = TRUE /\ enabled' = TRUE
    /\ sw_ring' = [s \in 0 .. Slots - 1 |-> 0]
    /\ head' = 0 /\ tail' = 0
    /\ UNCHANGED <<chan_cookie, prep, task, op, hal>>

(* al_dma_free_chan_resources: tasklet_kill waits until the tasklet has    *)
(* run and ended; the HAL queue stays as it is.  A client inside a prepare *)
(* holds the channel, so that it is not freed under it; issue_pending is   *)
(* called by dma_issue_pending_all, too, from any thread, and may be on    *)
(* its way to tasklet_schedule.                                            *)
al_dma_free_chan_resources ==
    /\ allocated /\ Unlocked
    /\ ~scheduled /\ ~running
    /\ allocated' = FALSE
    /\ UNCHANGED <<chan, chan_cookie, enabled, prep, task, op, hal>>
-----------------------------------------------------------------------------
(* al_dma_get_sw_desc finds a slot *)
al_dma_get_sw_desc == Succ(head) # tail

(* al_dma_prep_dma_memcpy, _xor and _pq differ in the number of sources    *)
(* and destinations.  First half: the slot is taken and the HAL looks at   *)
(* the RX queue.                                                           *)
PrepStart(tx, rx) ==
    /\ allocated /\ Unlocked
    /\ Len(op) < MaxOps
    /\ al_dma_get_sw_desc
    /\ head' = Succ(head)
    /\ prep' = [rx |-> rx, tx |-> tx, avail |-> RxDescs - rx_used]
    /\ UNCHANGED <<sw_ring, tail, chan_cookie, life, task, op, hal>>

TxShort(tx) == TxDescs - tx_used < tx
TxAfterCleanup(tx) == IF TxShort(tx) THEN tx_used - tx_comp ELSE tx_used
(* Mutant: only the TX queue is checked. *)
NoRoom_tx_only == TxDescs - TxAfterCleanup(prep.tx) < prep.tx

NoRoom ==
    \/ prep.avail < prep.rx
    \/ TxDescs - TxAfterCleanup(prep.tx) < prep.tx

(* Mutant: the slot is not given back. *)
PrepFails_keeps_slot ==
    /\ ~Unlocked /\ NoRoom
    /\ IF prep.avail < prep.rx
         THEN UNCHANGED <<tx_used, tx_comp>>
         ELSE tx_used' = TxAfterCleanup(prep.tx) /\ tx_comp' = 0
    /\ prep' = Nothing
    /\ UNCHANGED <<chan, chan_cookie, life, task, op, posted, engine, unread, rx_used>>

(* al_raid_dma_prepare returns -ENOSPC: the slot is given back. *)
PrepFails ==
    /\ ~Unlocked /\ NoRoom
    /\ IF prep.avail < prep.rx
         THEN UNCHANGED <<tx_used, tx_comp>>
         ELSE tx_used' = TxAfterCleanup(prep.tx) /\ tx_comp' = 0
    /\ head' = (head - 1 + Slots) % Slots
    /\ prep' = Nothing
    /\ UNCHANGED <<sw_ring, tail, chan_cookie, life, task, op, posted, engine, unread,
                   rx_used>>

(* The descriptors are written, the RX ones handed to the engine at once,  *)
(* and the software descriptor is set up.                                  *)
PrepDone ==
    /\ ~Unlocked /\ ~NoRoom
    /\ LET slot == (head - 1 + Slots) % Slots
           o == Len(op) + 1
       IN  /\ op' = Append(op, [slot |-> slot, tx |-> prep.tx, rx |-> prep.rx,
                                cookie |-> 0])
           /\ sw_ring' = [sw_ring EXCEPT ![slot] = o]
           /\ posted' = Append(posted, o)
    /\ rx_used' = rx_used + prep.rx
    /\ tx_used' = TxAfterCleanup(prep.tx) + prep.tx
    /\ tx_comp' = IF TxShort(prep.tx) THEN 0 ELSE tx_comp
    /\ prep' = Nothing
    /\ UNCHANGED <<head, tail, chan_cookie, life, task, engine, unread>>

(* al_dma_tx_submit, with dma_cookie_assign below its wrap *)
al_dma_tx_submit(o) ==
    /\ allocated /\ Unlocked
    /\ op[o].cookie = 0
    /\ chan_cookie' = chan_cookie + 1
    /\ op' = [op EXCEPT ![o].cookie = chan_cookie + 1]
    /\ UNCHANGED <<chan, life, prep, task, hal>>

(* The slots tail, tail + 1, ... up to head, and their operations *)
Issued == [i \in 1 .. (head - tail + Slots) % Slots |-> sw_ring[(tail + i - 1) % Slots]]

(* al_dma_issue_pending, under the lock: every slot between tail and head  *)
(* is handed to the engine, its client having submitted it or not, and is  *)
(* free again.  On a freed channel with slots left the code follows the    *)
(* NULL sw_ring and takes no further step.                                 *)
al_dma_issue_pending ==
    /\ allocated /\ Unlocked
    /\ Issued # <<>>
    /\ engine' = engine \o Issued
    /\ posted' = SubSeq(posted, Len(Issued) + 1, Len(posted))
    /\ tail' = head
    /\ issuers' = issuers + 1
    /\ UNCHANGED <<sw_ring, head, chan_cookie, life, prep, scheduled, running, op, unread,
                   rx_used, tx_used, tx_comp>>

(* Its tasklet_schedule, after the unlock, whatever the channel is by then *)
tasklet_schedule ==
    /\ issuers > 0
    /\ issuers' = issuers - 1
    /\ scheduled' = TRUE
    /\ UNCHANGED <<chan, chan_cookie, life, prep, running, op, hal>>
-----------------------------------------------------------------------------
(* al_dma_cleanup_tasklet: reads completions until there is none.  Their   *)
(* operations are neither completed nor called back.  A tasklet scheduled  *)
(* while it runs is left to run a second time.                             *)
TaskletStarts ==
    /\ scheduled /\ ~running
    /\ scheduled' = FALSE /\ running' = TRUE
    /\ UNCHANGED <<chan, chan_cookie, life, prep, issuers, op, hal>>

(* Mutant: a completion of two descriptors is acknowledged twice. *)
al_raid_dma_completion_twice ==
    /\ running /\ allocated /\ unread # <<>>
    /\ rx_used' = rx_used - 2 * op[Head(unread)].rx
    /\ unread' = Tail(unread)
    /\ UNCHANGED <<chan, chan_cookie, life, prep, task, op, posted, engine, tx_used, tx_comp>>

al_raid_dma_completion ==
    /\ running /\ allocated /\ unread # <<>>
    /\ rx_used' = rx_used - op[Head(unread)].rx
    /\ unread' = Tail(unread)
    /\ UNCHANGED <<chan, chan_cookie, life, prep, task, op, posted, engine, tx_used, tx_comp>>

(* A tasklet scheduled after tasklet_kill reads freed rings: it finds any  *)
(* number of completions in what the memory has become, and then none.     *)
TaskletReadsFreed ==
    /\ running /\ ~allocated
    /\ rx_used' \in 0 .. RxDescs
    /\ UNCHANGED <<chan, chan_cookie, life, prep, task, op, posted, engine, unread, tx_used,
                   tx_comp>>

TaskletEnds ==
    /\ running /\ (unread = <<>> \/ ~allocated)
    /\ running' = FALSE
    /\ UNCHANGED <<chan, chan_cookie, life, prep, issuers, scheduled, op, hal>>

(* The engine: operations complete in order. *)
HwDone ==
    /\ engine # <<>>
    /\ unread' = Append(unread, Head(engine))
    /\ tx_comp' = tx_comp + op[Head(engine)].tx
    /\ engine' = Tail(engine)
    /\ UNCHANGED <<chan, chan_cookie, life, prep, task, op, posted, rx_used, tx_used>>

Next ==
    \/ al_dma_alloc_chan_resources \/ al_dma_free_chan_resources
    \/ \E tx \in Srcs, rx \in Dsts : PrepStart(tx, rx)
    \/ PrepFails \/ PrepDone
    \/ \E o \in Ops : al_dma_tx_submit(o)
    \/ al_dma_issue_pending \/ tasklet_schedule
    \/ TaskletStarts \/ al_raid_dma_completion \/ TaskletReadsFreed \/ TaskletEnds
    \/ HwDone

Spec == Init /\ [][Next]_vars
-----------------------------------------------------------------------------
(* The type invariant of the channel. *)
TypeOK ==
    /\ sw_ring \in [0 .. Slots - 1 -> 0 .. MaxOps]
    /\ head \in 0 .. Slots - 1 /\ tail \in 0 .. Slots - 1
    /\ chan_cookie \in 0 .. MaxOps
    /\ allocated \in BOOLEAN /\ enabled \in BOOLEAN
    /\ issuers \in Nat /\ scheduled \in BOOLEAN /\ running \in BOOLEAN
    /\ prep \in [rx : Nat, tx : Nat, avail : 0 .. RxDescs]
    /\ op \in Seq([slot : 0 .. Slots - 1, tx : Srcs, rx : Dsts, cookie : 0 .. MaxOps])
    /\ posted \in Seq(1 .. MaxOps) /\ engine \in Seq(1 .. MaxOps)
    /\ unread \in Seq(1 .. MaxOps)
    /\ rx_used \in 0 .. RxDescs /\ tx_used \in 0 .. TxDescs
    /\ tx_comp \in 0 .. TxDescs

(* The software ring and the HAL queue stay in step: what issue_pending    *)
(* will hand over is exactly what the HAL has prepared, in that order,     *)
(* also after preparations that failed in the HAL and gave their slot      *)
(* back.  Otherwise it would start operations the wrong number of times.   *)
SlotsMatchHal ==
    posted = IF Unlocked THEN Issued ELSE Front(Issued)

RxOf(s) == Weight([o \in Ops |-> op[o].rx], s)
TxOf(s) == Weight([o \in Ops |-> op[o].tx], s)

(* RX descriptors are acknowledged by the tasklet, without the lock, and   *)
(* counted by a prepare that may be half way: no descriptor is lost or     *)
(* acknowledged twice as long as the rings are there, and the prepare      *)
(* never has less room than it saw.                                        *)
DescsAccounted ==
    /\ allocated => rx_used = RxOf(posted) + RxOf(engine) + RxOf(unread)
    /\ TxOf(posted) + TxOf(engine) = tx_used - tx_comp
    /\ ~Unlocked => prep.avail <= RxDescs - rx_used
=============================================================================
