# TLA+ models of the Alpine V2 drivers

The repository holds out-of-tree Linux drivers for the Annapurna Labs Alpine V2
SoC (`src/modules/`), with images, device trees and PCIe glue around them. The
models here follow the drivers' own logic: how queues, locks, work items,
interrupts and the DMA engines interact.

## 1. The system and its parts

| Part | State it keeps | Operations | What is hard |
| --- | --- | --- | --- |
| UDMA queue HAL (`al_hal_udma.h`, `al_hal_udma_main.c`, a copy in each of three drivers) | ring indices, two-bit ring ids, partial packet count, two rings in memory | take and add descriptors, scan for packets or read the head pointer, acknowledge | indices and ring ids wrap; the engine writes while software scans; in drop mode packets are cut short |
| `al_ssm` crypto driver | channel lock, pending list, in-flight and backlog counters, backlog, a delayed work item | `al_ssm_enqueue`, submit-and-poll, poll worker, backlog drain | callers and worker take each other's completions with the lock dropped in between |
| SSM crypto and RAID HAL | a pair of UDMA queues per channel | prepare, action, completion | lazy reclaim, two rings of different pace |
| `al_dma` dmaengine driver | software descriptor ring, cookies, a tasklet per channel | allocate, free, prepare (memcpy, xor, pq), submit, issue_pending, status | the tasklet takes no lock; failed preparations; reuse of descriptors |
| `al_eth` transmit path | `tx_buffer_info` with `next_to_use` and `next_to_clean`, the UDMA queue, the stack's stopped flag | `al_eth_start_xmit`, TX interrupt, `al_eth_tx_poll`, up and down | stop and wake race; two rings that advance at different moments |
| `al_eth` receive path | `rx_buffer_info` with its two indices, the UDMA queue with its own two, NAPI, the interrupt mask | `al_eth_rx_poll`, refill, RX interrupt, `small_copy_len` | two pairs of indices kept in step by hand; allocations that fail half way; a poll that ends while packets arrive |
| `al_eth` life cycle | `adapter->up`, flags, work items, rtnl | open, close, reset task, link task, suspend | work items that take rtnl and are cancelled under rtnl; `al_eth_up` that fails half way; a link task that holds no lock |
| group link manager, link manager, KR training | per-lane stage, active lane, detection state | step functions driven by a delayed work, shared by the ports of a serdes group | try-lock between ports, several ports in different stages |
| MDIO bus shared with the RTL8370MB driver | the bus lock, a global pointer to the bus | SMI sequences of four MDIO accesses, read-modify-write | interleaved users, dangling pointer on removal |
| `al_sgpo`, PCIe glue, serdes, error events, configuration | hardware registers | register writes | nothing concurrent of their own |

Interactions. The drivers call the HAL under their own locks; the engine runs on
its own and is seen only through memory it writes, a head pointer register and
interrupts. `al_eth` and the switch driver share an MDIO bus; the ports of a
serdes group share one link-manager context; `al_ssm` calls back into the
crypto API, whose users may submit again from the callback.

What makes each part correct:

* a queue hands out no slot twice, recognises every completion exactly once, and
  passes on whole packets in order;
* a crypto request gets its own result, is answered exactly once, and is
  answered at all;
* a dmaengine channel starts every prepared operation once, keeps exact counts of
  the descriptors it can hand out, and reports completion;
* a transmit queue never loses or prematurely frees a packet, and a stopped
  queue is woken;
* a receive queue hands each packet's own buffers to the stack, lets the engine
  write into nobody else's memory, loses no buffer and leaves no packet waiting;
* the life cycle keeps `adapter->up` true to what is held, frees nothing the
  engine still uses, leaves nothing behind and lets close return;
* the link manager never uses a result of an earlier call, reports a carrier that
  is true, spares working links when it resets the group, and goes on.

## 2. Modules

| Module | Models |
| --- | --- |
| `UdmaQueue` | one queue with its engine |
| `CompletionFifo` | what a completion ring promises: an abstract FIFO of packets |
| `SsmCrypto` | request path of `al_ssm_main.c` |
| `AlDma` | a channel of `al_dma_drv.c` with its RAID queue |
| `EthTx` | one transmit queue of `al_eth_main.c` |
| `EthRx` | one receive queue of `al_eth_main.c` |
| `EthLifecycle` | `al_eth_up`, `al_eth_down` and everyone who calls them |
| `LinkManager` | the step functions of one port's link manager, `al_init_eth_lm.c` (no state of its own) |
| `GroupLm` | the ports of a serdes group, `al_eth_group_lm.c`, on `LinkManager` |
| `Totals` | the sum of a list of descriptor counts, used by `AlDma` |
| `...Proofs` | theorems about the module of that name (`GroupLmProofs`: also about the step functions of `LinkManager`) |
| `ListFacts` | lemmas about lists, rings and totals that the proofs share |
| `MC...` | instances for TLC: sets of model values and symmetry |

The drivers' models use what `UdmaQueue` establishes, and count operations
or descriptors instead of ring slots: a queue has room for so many, completions
arrive whole and in order.

### UdmaQueue

Variables carry the names of `struct al_udma_q`. `drain` is the choice, made once, between
`al_udma_cdesc_packet_get` ("poll"), `al_udma_cdesc_get_all` by the head pointer ("head"), and
`al_udma_cdesc_packet_get` on a queue whose engine drops ("drop"). `todo`, `prepared` and `got`
stand for what a caller has checked for, taken and been given; `posted`, `crhp`,
`hw_ring_id`, `hw_len` belong to the engine. The drivers serialise calls on one
queue, so a call is a step; `al_udma_cdesc_packet_get`'s loop is described by
where it stops (`StopAt`), with one disjunct per way it ends: a whole packet, a
partial one, one the engine trimmed. In drop mode the FIFO is mapped to an empty one,
which makes no claim; `OnePacket` is the property about that mode. `Reserve` differs between the copies of the
HAL (1, or a cache line of descriptors).

### SsmCrypto

A thread is a caller or the worker, with a place `pc[t]`, its request and return
code. Steps end where the code drops or takes `chan->lock`, or reads shared state
without it; `lock` is a variable because the spin holds it across engine steps.
The worker reads `total_pending` and `backlog_count` in two steps. `ring` holds the
operations in the engine with the thread that submitted each, which the code
cannot see and the properties can. Each operation takes three TX descriptors and
one RX descriptor, so with at most 64 in flight in a ring of 256 only the TX
ring can run short; it is reclaimed lazily (`TxAfterCleanup`).
`al_ssm_alloc_resources` either fails and undoes itself or sets `res`. The return
codes are kept as `"ok"`, `"eio"`, `"enospc"`, `"einprogress"`; `al_crypto_dma_action`
never fails here, its queue being enabled. `EarlyReuse` decides whether a
request may be submitted again while a thread that submitted it before is still
on its way back: crypto users free and reallocate requests from their completion
callback, so the pointer may well recur.

### AlDma

Operations are numbered in the order of preparation. A preparation is two steps,
because the lockless tasklet can run between the HAL's look at the RX queue and
its use; `prep` is also the channel lock. `al_dma_issue_pending` is two steps: what it
does under the lock, and the `tasklet_schedule` after the unlock. `issuers` counts the
calls in between, which may outlive the channel: `al_dma_free_chan_resources` kills
the tasklet and frees the rings, a late `tasklet_schedule` starts it again, and what it
reads then is anything (`TaskletReadsFreed`). Cookies are bounded below their wrap;
the status call reads them and changes nothing, and is left out. `al_dma_alloc_chan_resources` fails on a queue still enabled, as
`al_udma_q_init` does, and free leaves it enabled: a channel can be used once.

### EthTx

`xmit` and `poll` are the places of the two code paths, which run on different
CPUs. The transmit path stops where another CPU can see a difference: after
preparing, after the look for room, after stopping the queue, after starting the
engine. `used` counts descriptors not acknowledged, `reported` those the engine
has completed, `hw` is what it has still to send. `al_eth_down` waits for both
paths before it frees, so it is one step. A packet's descriptors are its buffers
plus a meta descriptor, which is present for offloaded checksum and segmentation.
Packets of a single descriptor, without offload, are the common case. The engine
reports one descriptor at a time, so a poll may see a packet reported in part; the
poll acknowledges the part and drops its count.

The driver looks for room in the UDMA queue and puts the packet into a slot of
another ring, and the poll gives back the descriptors before the slots. Two history
variables say when that matters: `overrun`, that a packet not yet freed was
overwritten in its slot, and `lost`, that a count was dropped since `al_eth_up`. The
properties say what the driver guarantees whatever packets it is given: `PrepareFits` and
`QueueRestarts`; that a slot is overwritten only in the window between acknowledgement
and cleaning, or after a dropped count (`OverrunOnlyInWindow`); and that until then
nothing is freed early or kept (`NoEarlyFree`, `NothingHeld`). That the slot is always
free (`SlotFree`) is not among them: `eth_tx_slots` shows it violated.
After an overwritten slot the poll can meet a slot without a packet, where the code
follows a NULL pointer; the model's poll stops there. A packet whose first
buffer cannot be mapped is freed and left in its slot (`XmitMapError`); the next
packet takes the slot over, but `al_eth_free_tx_bufs`, when it comes first, would
free it again.

### EthRx

`at` is the place of the driver: in `al_eth_rx_poll`'s loop, in the refill, idle, or
in `al_eth_up`'s first fill. A packet is a number of buffers, whether the engine
reports an error, and the length of its first buffer as far as `small_copy_len` can
tell lengths apart. `rx_info` and `next_to_use`, `next_to_clean` are the driver's;
`next_desc_idx`, `next_cdesc_idx` and `desc`, the buffers in the descriptors, are the
UDMA queue's and the engine's. A fragment is held by the driver or not; a fragment
not held is with the stack or free, and which one `netdev_alloc_frag` returns makes
no difference. Allocation of a socket buffer, of a fragment and its mapping may
each fail at any time. `napi` is the state of NAPI: `napi_schedule` inside the poll
finds it scheduled already, and NAPI polls again by itself only when the whole
budget was used; `"stuck"` is what is left. `spoiled` and `fault` are history
variables that only the properties read. The code masks indices with the ring size
less one; the model takes them modulo the size, which is the same for the powers of
two the code uses.

### EthLifecycle

Three actors: the user (open, close, remove, under rtnl), the reset task, and the
link actor, which is the link status task on a link manager board and phylib on a
board with a PHY. `sub[a]` is the place of actor `a` in `al_eth_up` or `al_eth_down`,
so that two actors can be inside them at once; what cannot go on stays where it is
(`napi_disable` of a NAPI that is off) or dies (`napi_enable` of one that is on, a NULL
ring). The group link manager appears as the callbacks it makes, in the order
`GroupLm` has them. A detection may fail after it recorded the mode (the retimer
could not be configured): its callback is lost, and the next round sees no change, or
a change from a mode the interface was never brought up in. `spoiled` marks behaviours
in which a caller went on after a failed `al_eth_up`, a reset was queued on a board
where the link actor is active, or the link task took down an interface that is not
up: the code has no protection there, and the properties say what holds in the
others. `al_eth_up` has five steps that can fail; a failing `al_eth_setup_int_mode` is
undone by `err_setup_int`, which stops the hardware, a failing `al_eth_hw_init` is not.
Suspend and resume save and restore PCI state only. The part of an allocation that
the failing queue itself keeps is not modelled.

### LinkManager and GroupLm

`al_eth_lm_link_detection_step` and `al_eth_lm_link_establish_step` are functions from
the port's context to the set of contexts and return values the hardware can lead
to: what MAC, serdes, module EEPROM and retimer report is free, and `expired` says
whether the interval being waited for has passed. `GroupLm` runs them for each port
from the stage it stopped at: `run[l]` is set while a call of
`al_eth_group_lm_link_manage` is under way, `got[l]` is the local result a later stage of
the same call reads, "break" ends the call. `lock` is the group's try-lock; the
stages that hold it are separate steps from those that take it. The driver's
callbacks (`al_eth_lm_mode_change`, `al_eth_group_lm_pre_establish`,
`al_eth_group_lm_update_port_status`) are reduced to `up`, `carrier` and `active_speed`.
`reset` is true in the state after a group workaround initialised the serdes. A port
whose mode change finds the interface down, after a lost callback, stays in
`al_eth_down` for ever (`Stuck`); it holds no lock, and the other port goes on. Boards
with manual FEC set it from `kr_fec_enable`. The retimer modelled is the DS25.

Left out of the link manager: retimers of types BR210 and BR410 (other register
sequences), `static_values = false`, `lm_pause` and `init_cb`, which this driver leaves
unset, LEDs, the cable length, the watchdog's timestamps (whether it has expired is
free), `watchdog_wa_reset_lane_done` (it silences a message), the analogue search of KR
training and of the receive equaliser (their outcome is free), and boards with
link training and automatic FEC at once.

## 3. Runs

| Run | Shows |
| --- | --- |
| `udma_queue` | slots are accounted for, ring ids identify unread completions, the ring implements the FIFO, of packets where it is polled and of all that is written where the head pointer is read; a queue whose engine drops still returns one whole or trimmed packet at a time |
| `ssm_safety` | results go to their owner, one answer per request, counters agree, no pending request without a poller |
| `ssm_live` | operations leave the pending list, calls return, and a synchronous result is the call's own as long as requests are not reused early |
| `ssm_backlog` | **violation**: a backlogged request can wait for ever |
| `al_dma_rings` | software ring, HAL queue and tasklet stay in step |
| `eth_tx` | room for every packet; slots overwritten only in the poll's window or after a dropped count, and until then no early free and nothing held in the end; a stopped queue restarts |
| `eth_tx_slots` | **violation**: "stop the queue when no more space available" looks at descriptors, and the next packet's slot is not free |
| `eth_rx` | driver's ring and UDMA queue in step, the engine writes only into the driver's buffers, none is lost or held twice, every completed packet is taken |
| `eth_rx_resched` | **violation**: "rescheduling rx queue" is not followed by another poll |
| `eth_life` | `adapter->up` tells what is held, rings freed after the engine stopped, no carrier without an interface, nothing left after remove, close ends, all unless the interface is spoiled |
| `eth_close` | **violation**: close waits for a reset task that waits for the rtnl close holds |
| `lm` | calls of the link manager are whole, carrier is honest, established links are ready, a group reset spares settled ports, the group goes on even past a port lost in `al_eth_down` |

The findings in `PROJECT.json` quote the line each violation contradicts.

### Observations without a run

The models, or the reading they took, show more that contradicts nothing the
repository says in so many words, or that no configuration of it reaches:

* UDMA: in drop mode a packet trimmed in the last slot of the ring steps over the
  wrap twice (`al_hal_udma_main.c:1188`) and the queue stalls; `NewExactly` excepts that
  state. No driver here turns drop mode on.
* `al_ssm`: `SyncIsOwn` fails when a request is submitted again while the call that
  submitted it before is still on its way back (`EarlyReuse`): that call takes the
  completion of the second submission for its own. The error code of
  `al_ssm_init_channel` (`al_ssm_main.c:685`) is never assigned on some paths, and remove
  frees rings before the engine is stopped (`:837`).
* `al_dma`: nothing calls `dma_cookie_complete`, so no operation is ever reported
  complete, and the tasklet is not scheduled by the engine; the descriptor of an
  operation in flight is reused (`al_dma_drv.c:168`), harmless only because of that.
  Cookies wrap (`:44`). `tasklet_schedule` after the unlock (`:173`) can follow the
  `tasklet_kill` of `al_dma_free_chan_resources`, and the tasklet then reads freed rings;
  the HAL queue stays enabled when they are freed (`:295`).
* transmit: after a packet reported in two polls, whose first count is dropped
  (`al_eth_main.c:3112`), packets are cleaned late and the last ones stay in their slots until
  more are sent or the interface goes down; a packet whose mapping failed (`:5048`) stays
  in its slot and `al_eth_free_tx_bufs` (`:3000`) frees it again when the interface goes down
  first; `al_eth_free_all_tx_bufs` runs over the number of receive queues
  (`:3010`); the error path unmaps a buffer that may not have been mapped (`:5114`).
* receive: a buffer whose `napi_get_frags` failed is posted again unmapped (`:1813`); with
  `small_copy_len` at or above the buffer size (only the MTU limits it) packets of
  several buffers are taken for small ones and `BuffersMatch` fails; `small_copy_len` is read
  twice per packet (`:1780`, `:3297`); after a failed `netdev_alloc_skb` the packets
  behind wait for the next interrupt.
* life cycle: after an ignored failure of `al_eth_up` (reset task, `al_eth_adjust_link`), or
  when a reset meets the link task, or when a retimer whose configuration failed
  (`al_init_eth_lm.c:1907`) lost the callback for a recorded mode and the mode changes again
  (`al_eth_main.c:3961`), a second `al_eth_down` waits in `napi_disable` or
  follows NULL pointers; a failing `phy_connect` leaves the interface up after a failed
  open; on plain boards the carrier stays off after a reset; `al_eth_remove` stops the
  hardware before it unregisters the interface; `adapter->phydev` is never cleared.
* link manager: a port whose serdes loses its signal in `al_eth_lm_link_establish_step`
  (`al_init_eth_lm.c:2058`) with `link_state` still up has its carrier taken off and, once
  the MAC is up again, finds nothing to do and never puts it back on; the flags of a port that came up and has not
  finished its flow can still reset the group; an attempt that ends for want of a
  signal leaves the retimer's wait half way; the carrier stays on while
  module detection keeps failing; 25G, 10G and 25G again leaves FEC off with
  `auto_fec_state` enabled; without a retimer a change of mode does not renew the
  transmit parameters; in SGMII `al_eth_link_status_get` leaves the fault bits
  unassigned; on a board that is not a 25G serdes without link training,
  `al_eth_lm_fec_config` is never called (`:2175`), so that a retimer with automatic FEC
  reaches "Invalid Auto FEC state" (`:2263`) in a 25G mode and the step fails
  (`FecSettled` leaves these boards out).

### Bounds

The UDMA rings have four slots and packets of up to two, and are unbounded in time: ring
ids are modulo four, so the state space closes after four laps and every wrap is
reached. `SsmCrypto` has two callers, three requests, two operations in flight, a
backlog of one and a TX ring of two, so that every limit is met with a request to
spare; liveness runs use one caller and the worker, which already contend for the
lock and for completions. `AlDma` prepares four operations (`MaxOps`) in a ring of three
slots, more than it holds, with RX descriptors for two to four operations.
`EthTx` has five packets of one or two descriptors, three descriptors and four slots
- the code's relation, fewer descriptors than slots - so that the queue stops and
wakes repeatedly, slots wrap, and slots are overwritten in both ways that are possible.
States after an overwritten slot are checked and not continued (`BeforeOverrun`):
every property excepts them. `LowestFree` lets the stack hand over the lowest of its
interchangeable packets. `eth_tx_slots` has seven packets of one descriptor, five
descriptors and six slots, and its counterexample needs no packet reported in part. `EthRx` has a ring of three, of which two
descriptors are usable, packets of one or two of them, four fragments, a budget of
one, so that every poll can end by its budget with packets left, and
`small_copy_len` below and at the length of a small packet. `EthLifecycle` is finite as
it stands: three boards and two link modes; `eth_life` does not continue from spoiled
states in which a reset has met the link task (`BeforeResetMeetsLink`), which is sound
because `spoiled` is never reset, every safety property excepts it and it ends what
`CloseEnds` waits for. `GroupLm` has three boards: two ports of a 25G
serdes with fixed modules, which contend for the lock and the group's flags; one
port behind a retimer with speed detection and automatic FEC; and one port of an
HSSP serdes that trains direct attach cables.

Deadlock checking is off for `al_dma_rings` (the bound on operations ends a
behaviour, and a channel cannot be enabled twice), `udma_queue` (a queue in drop
mode may stall as described above), the runs of `EthLifecycle` (an actor may wait
for ever, which `CloseEnds` and `CloseReturns` are about) and `lm` (both ports may be
lost in `al_eth_down`, which `GroupProgress` excepts).

### Fairness

Code that runs continues (weak fairness per step or per actor); the engines finish
what they are given; queued work items, tasklets and interrupts are run. Strong
fairness is used for taking `chan->lock` and the transmit queue's lock, because
kernel spinlocks are FIFO, for the deadline of the inline poll, which passes
however often the loop turns, and in `GroupLm` for steps that find their
interval passed, because the clock goes on while a step is taken again and again.
The group's try-lock is not fair: `GroupProgress` is about the group, not about each
port. Nobody is obliged to submit, transmit, issue, open or close, no packet is
obliged to arrive, no allocation to succeed, and no link to come up.

## 4. Proofs

The theorems hold for every value of the constants that satisfies the named
assumptions of the models: any ring size, number of callers, packets, boards,
ports. Two kinds of property stay with TLC: liveness under fairness, which the
proof system does not handle (`PendingServed`, `CallReturns`, `QueueRestarts`, `Received`,
`CloseEnds`, `GroupProgress`), and what the violation runs show.

Each proof module has the same plan: an inductive invariant, a lemma that the
initial states satisfy it, one lemma per action that it is kept, and the theorems
as consequences. TLC checked each of these invariants on the instances of the runs
before it was proved.

| Theorem | Property | Assumes |
| --- | --- | --- |
| `UdmaQueueProofs` `TypeCorrect`, `NoOvercommit`, `RingIdsSuffice`, `OnePacketReturned`, `DescriptorsOwned`, `QueueIsFifo` | `TypeOK`, `RingAccounted`, `NewExactly`, `OnePacket`, `DescOwned`, `FifoSpec` | (in drop mode `NewExactly` excepts the stalled queue and `FifoSpec` claims nothing) |
| `SsmCryptoProofs` `TypeCorrect`, `FirstPendingCompletes`, `CountersExact`, `EveryRequestAnsweredOnce`, `PendingHasPoller` | `TypeOK`, `ResultIsOwn`, `CountsAgree`, `AnsweredOnce`, `NoLostPoll` | |
| `SsmCryptoProofs` `SyncResultIsOwn` | `SyncIsOwn` | `EarlyReuse = FALSE` |
| `AlDmaProofs` `TypeCorrect`, `SlotsInStep`, `DescriptorsAccounted` | `TypeOK`, `SlotsMatchHal`, `DescsAccounted` | |
| `EthTxProofs` `TypeCorrect`, `PrepareNeverFails`, `OverrunNeedsWindow`, `FreedAfterUse`, `AllFreedInTheEnd` | `TypeOK`, `PrepareFits`, `OverrunOnlyInWindow`, `NoEarlyFree`, `NothingHeld` | (the last two except what follows an overwritten slot, the last a dropped count) |
| `EthRxProofs` `BuffersHeldOnce` | `HeldOnce` | |
| `EthRxProofs` `TypeCorrect`, `RingsInStep`, `EngineStaysInside` | `TypeOK`, `BuffersMatch`, `EngineWritesOwn` | `Short` |
| `EthLifecycleProofs` `UpTellsTheTruth`, `NoCarrierWithoutRings`, `RemoveLeavesNothing`, `RingsFreedAfterStop` | `Balanced`, `CarrierMeansUp`, `RemovedClean`, `FreedAfterStop` | (the properties except `spoiled` behaviours) |
| `GroupLmProofs` `TypeCorrect`, `CallsWhole`, `CarrierIsHonest`, `EstablishedLinksReady`, `ResetSparesLinks` | `TypeOK`, `CallsAreWhole`, `CarrierHonest`, `EstablishedReady`, `ResetSparesSettled` | |

The assumptions beyond those on the constants are the conditions under which the
code is right, and each is sharp in the sense that a run or the reading shows
what happens without it (section 3):

* `EarlyReuse = FALSE`: otherwise a call can take the completion of a later submission;
* `Short`: `small_copy_len` is less than a receive buffer. The default satisfies it;
  the sysfs attribute does not enforce it.

### The inductive invariants

**UdmaQueue.** `RingAccounted` says that the distance from acknowledged to handed-out
slots is the sum of the parts, which needs types. `NewExactly` needs to know what ring
ids lie in memory (`RingIdsWritten`: the engine's id up to its head pointer, the
previous one beyond it) and where the scan stands (`ScanInStep`: behind what was
returned and the partial packet, with the ring id of its lap). The scan steps past a
whole packet only if packets are well formed in the unread part (`PacketsUnread`: a
packet starts where the last one ended, and the scanned part of one holds neither a
first nor a last descriptor inside). If the engine drops nothing each packet is also
written to its end (`PacketsEnd`). In drop mode the scan is in step or has stalled for
good after a packet trimmed in the last slot (`Stalled`): it expects a ring id that is
neither the one of this lap nor of the one before, so it returns nothing more, and
what it had returned is still one packet.
The lemmas are modular arithmetic of ring positions, what the availability and
newness tests compute, where a scan stops, and one lemma per action. `QueueIsFifo` is
a refinement, with nothing to show in drop mode: `FInv` adds, for a driver that reads the
head pointer too, that the last completion written tells whether the engine is in the
middle of a packet; `ChanOut` says
which words the mapping yields, and each action is a `Write`, `Take` or `Ack` of
the FIFO or leaves its words alone.

**SsmCrypto.** A request in use is in one place. `OnePlace` and `Tracked` say this with the
lists and the locals of threads, where `AnsweredOnce` counts with a cardinality;
`ThreadShape` ties locals to places in the code, `Buffers` the DMA buffers to requests in
use, and `BacklogRoom` that what the worker holds has left room in the backlog, which
keeps the limit of `CountsAgree`. `SyncIsOwn` needs three more facts: two
threads hold the same request only while one is leaving after it queued the
request (`OneCall`), a queued request is nobody's to poll (`BacklogLeft`), and an operation
of the request a thread polls for is its own (`PollsOwn`).

**AlDma.** `InStep` places the posted operations in the software ring from `tail` on, with
one more while a preparation is half way; `HalfWay` keeps what the preparation saw while
the tasklet runs, `OnlyOnce` that a channel is enabled once, so that a count spoiled by a
tasklet on freed rings is never used again, `CookiesCount` bounds the cookies.

**EthTx.** The first part, `CInv`, only counts and holds whatever happens to the slots:
descriptors used are those in the engine, reported, or of the packet being prepared
(`Counted`), only the first packet in the engine can be reported in part (`PartOfFirst`),
and a queue that is left running has room for the largest packet whatever the poll does
in between (`RoomKept`). The second, `RInv`, is claimed until a slot is overwritten: there
is a list of packets - acknowledged and not cleaned, reported, in the engine, being
prepared - which lie in consecutive slots from `next_to_clean` on, all different and
all the driver's. Outside the poll's window, with no count dropped, the packets of the
list have their descriptors in the UDMA queue, which has fewer than there are slots:
that is `OverrunOnlyInWindow`. A dropped count leaves finished packets in the list, so that
the poll frees later than it may, never earlier.

**EthRx.** `HInv` is about slots and buffers alone and holds whether or not the rings are in
step. `RInv` adds `InStep` (driver's indices equal the queue's, and the slots from
`next_to_clean` on hold the descriptors' buffers) and `Counted` (a descriptor is completed, with
the engine, or about to be handed over).

**EthLifecycle.** `Shape` says where actors can be; `Turns` who holds rtnl and which actors
can be active beside the user, by board; `Waits` which caller waits for which of
`al_eth_up` and `al_eth_down`; `Exact` what is held at every place inside them (`Holds`) and
whether the interface is up when nobody is (`Expected`; on a link manager board only that
an interface that is up has a mode, as a recorded mode may have lost its callback). All but `Shape` are claimed for
behaviours that are not spoiled.

**GroupLm.** `Prepared` is the contract between the step functions of `LinkManager`: what a
state of detection or establishment rests on was done by the states before. It is proved
for each step function, for whatever the hardware reports, and independent of the
group. `StageOK`, `PortOK`, `SpeedOK` and `FlagsOK` relate a port's context to its stage, its
interface and carrier, its speed and the group's flags; `CallOK` to the call under way.

`ListFacts` holds what the proofs share: how adding and removing changes a list, its entries
and the total of its descriptors, and distances in a ring. Totals are recursive
functions over sequences of any length; what they sum to is proved by induction in
the form of a set with no least missing number (`SetInduction`, from well-founded
minimality).

## 5. Plan

The state machines named in section 1 are modelled, apart from the last rows, and
their safety properties are proved. What is left, in this order:

1. `Smi`: the SMI sequences of the switch driver;
2. `SsmLifecycle`: probe and remove of `al_ssm`.

## 6. Not modelled

Descriptor and SA encoding, the GF tables, checksum, hash, VLAN and segmentation
fields: data. KR training and receive equalisation search analogue parameters by
what the hardware answers; the models take their outcome as free. The RTL8370MB
driver runs once, from one thread, and holds no lock whose misuse could be
checked; `al_sgpo` writes one register per operation inside a critical section.
Probe and remove of `al_ssm` and `al_dma` are straight-line set-up.
Register programming of MAC, serdes, UDMA and interrupt controllers: its effect is
defined by the hardware. Statistics, ethtool and sysfs, printing. Scripts, device
trees and images. The compiler and memory model: locks are taken to order memory,
and the barriers around doorbells to be sufficient.
