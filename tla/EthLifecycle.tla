---------------------------- MODULE EthLifecycle ----------------------------
(***************************************************************************)
(* The life cycle of one al_eth interface (al_eth_main.c): al_eth_up and   *)
(* al_eth_down, and everyone who calls them.                               *)
(*                                                                         *)
(*   user   al_eth_open and al_eth_close, under rtnl, and al_eth_remove    *)
(*   reset  al_eth_reset_task, queued by the transmit watchdog; takes rtnl *)
(*   link   the link status task, which gets its callbacks from the group  *)
(*          link manager, or phylib, which calls al_eth_adjust_link;       *)
(*          neither takes rtnl                                             *)
(*                                                                         *)
(* al_eth_up and al_eth_down are run step by step: sub[a] is the place of  *)
(* actor a in one of them, at[a] its place in the caller.                  *)
(***************************************************************************)
EXTENDS Naturals, FiniteSets

CONSTANTS
    Boards,      \* which of "plain", "lm" and "phy" are explored
    LmModes      \* link modes the link manager may detect

ASSUME BoardAssumption == Boards \subseteq {"plain", "lm", "phy"}
ASSUME LmModeAssumption == "disconnected" \notin LmModes

VARIABLES
    board,        \* "lm": use_lm; "phy": phy_exist; "plain": neither
    present,      \* "yes", "removing", or "gone" after al_eth_remove
    running,      \* netif_running
    rtnl,         \* holder of the rtnl mutex
    at, sub, ok,  \* per actor: place, place in up or down, rc of up is 0
    pending,      \* work items that are queued
    up, reset_requested,
    rings,        \* which descriptor rings are allocated
    irq,          \* the interrupts are requested
    napi,         \* "new": never added, "on": enabled, "off": disabled
    hw,           \* the queues and the MAC run
    carrier,
    lm_mode,      \* mode of the last detection
    stage,        \* where the group link manager resumes
    mac_mode, phydev,
    link_on,      \* phylib has reported the link up
    spoiled       \* al_eth_up failed and its caller went on, a reset was
                  \* queued on a board where the link actor is active too, or
                  \* the link manager took down an interface that is not up

calls == <<at, sub, ok>>
held == <<rings, irq, napi, hw, reset_requested>>
link == <<lm_mode, stage, mac_mode, phydev, link_on>>
vars == <<board, present, running, rtnl, calls, pending, up, held, carrier,
          link, spoiled>>

Actors == {"user", "reset", "link"}
AllRings == {"tx", "rx"}
Disconnected == "disconnected"

Return == "-"
Call(a, proc, then) ==
    /\ sub' = [sub EXCEPT ![a] = proc]
    /\ at' = [at EXCEPT ![a] = then]
Goto(a, place) == at' = [at EXCEPT ![a] = place] /\ UNCHANGED sub
Step(a, place) == sub' = [sub EXCEPT ![a] = place] /\ UNCHANGED at
At(a, place) == at[a] = place /\ sub[a] = Return

(* Work that is being cancelled does not start and cannot be queued. *)
Cancelling(w) == at["user"] = IF w = "link" THEN "cancel_link" ELSE "cancel_reset"

(* al_eth_probe: the hardware is stopped, nothing is allocated *)
Init ==
    /\ board \in Boards
    /\ present = "yes" /\ running = FALSE /\ rtnl = "none"
    /\ at = [a \in Actors |-> "idle"] /\ sub = [a \in Actors |-> Return]
    /\ ok = [a \in Actors |-> TRUE]
    /\ pending = {}
    /\ up = FALSE /\ reset_requested = TRUE
    /\ rings = {} /\ irq = FALSE /\ napi = "new" /\ hw = FALSE
    /\ carrier = FALSE
    /\ lm_mode = Disconnected /\ stage = "init"
    /\ mac_mode = "low" /\ phydev = FALSE /\ link_on = FALSE
    /\ spoiled = FALSE
-----------------------------------------------------------------------------
(* al_eth_up: function reset if one is due, al_eth_hw_init, and then       *)
(* al_eth_setup_int_mode.                                                  *)
UpHwInit(a) ==
    /\ sub[a] = "up"
    /\ reset_requested' = FALSE
    /\ \/ Step(a, "setup_tx") /\ UNCHANGED ok
       \/ Step(a, "err_setup_int") /\ UNCHANGED ok
       \/ Step(a, Return) /\ ok' = [ok EXCEPT ![a] = FALSE]
    /\ UNCHANGED <<board, present, running, rtnl, pending, up, rings, irq, napi, hw,
                   carrier, link, spoiled>>

(* al_eth_setup_all_tx_resources and al_eth_setup_all_rx_resources undo    *)
(* what they did when a queue fails; the part of an allocation the failing *)
(* queue itself is left with is not modelled.                              *)
UpSetupTx(a) ==
    /\ sub[a] = "setup_tx"
    /\ \/ Step(a, "setup_rx") /\ rings' = rings \union {"tx"}
       \/ Step(a, "err_setup_tx") /\ UNCHANGED rings
    /\ UNCHANGED <<board, present, running, rtnl, ok, pending, up, irq, napi, hw,
                   reset_requested, carrier, link, spoiled>>

UpSetupRx(a) ==
    /\ sub[a] = "setup_rx"
    /\ \/ Step(a, "request_irq") /\ rings' = rings \union {"rx"}
       \/ Step(a, "err_setup_rx") /\ UNCHANGED rings
    /\ UNCHANGED <<board, present, running, rtnl, ok, pending, up, irq, napi, hw,
                   reset_requested, carrier, link, spoiled>>

(* al_eth_request_irq may fail after some vectors were requested *)
UpRequestIrq(a) ==
    /\ sub[a] = "request_irq"
    /\ irq' = TRUE
    /\ Step(a, "complete") \/ Step(a, "err_req_irq")
    /\ UNCHANGED <<board, present, running, rtnl, ok, pending, up, rings, napi, hw,
                   reset_requested, carrier, link, spoiled>>

(* Mutant: the transmit rings stay allocated. *)
UpUnwind_keeps_tx(a) ==
    /\ sub[a] \in {"err_req_irq", "err_setup_rx", "err_setup_tx", "err_setup_int"}
    /\ rings' = CASE sub[a] = "err_req_irq" -> rings \ {"rx"}
                  [] OTHER -> rings
    /\ irq' = (irq /\ sub[a] = "err_setup_int")
    /\ hw' = FALSE /\ reset_requested' = TRUE
    /\ ok' = [ok EXCEPT ![a] = FALSE]
    /\ Step(a, Return)
    /\ UNCHANGED <<board, present, running, rtnl, pending, up, napi, carrier, link,
                   spoiled>>

(* The error labels: al_eth_free_irq, which err_setup_int comes after,     *)
(* al_eth_hw_stop, al_eth_function_reset                                   *)
UpUnwind(a) ==
    /\ sub[a] \in {"err_req_irq", "err_setup_rx", "err_setup_tx", "err_setup_int"}
    /\ rings' = CASE sub[a] = "err_req_irq" -> {}
                  [] sub[a] = "err_setup_rx" -> rings \ {"tx"}
                  [] OTHER -> rings
    /\ irq' = (irq /\ sub[a] = "err_setup_int")
    /\ hw' = FALSE /\ reset_requested' = TRUE
    /\ ok' = [ok EXCEPT ![a] = FALSE]
    /\ Step(a, Return)
    /\ UNCHANGED <<board, present, running, rtnl, pending, up, napi, carrier, link,
                   spoiled>>

(* al_eth_up_complete.  napi_enable on a NAPI that is enabled is a BUG: the *)
(* actor dies.                                                             *)
UpComplete(a) ==
    /\ sub[a] = "complete"
    /\ \/ napi # "on" /\ napi' = "on" /\ hw' = TRUE /\ Step(a, "set_up")
       \/ napi = "on" /\ Step(a, "dead") /\ UNCHANGED <<napi, hw>>
    /\ UNCHANGED <<board, present, running, rtnl, ok, pending, up, rings, irq,
                   reset_requested, carrier, link, spoiled>>

UpDone(a) ==
    /\ sub[a] = "set_up"
    /\ up' = TRUE
    /\ ok' = [ok EXCEPT ![a] = TRUE]
    /\ Step(a, Return)
    /\ UNCHANGED <<board, present, running, rtnl, pending, held, carrier, link, spoiled>>

al_eth_up(a) ==
    \/ UpHwInit(a) \/ UpSetupTx(a) \/ UpSetupRx(a) \/ UpRequestIrq(a)
    \/ UpUnwind(a) \/ UpComplete(a) \/ UpDone(a)
-----------------------------------------------------------------------------
(* Mutant: the carrier is left on. *)
DownBegin_keeps_carrier(a) ==
    /\ sub[a] = "down"
    /\ up' = FALSE
    /\ Step(a, "napi")
    /\ UNCHANGED <<board, present, running, rtnl, ok, pending, held, carrier, link,
                   spoiled>>

DownBegin(a) ==
    /\ sub[a] = "down"
    /\ up' = FALSE /\ carrier' = FALSE
    /\ Step(a, "napi")
    /\ UNCHANGED <<board, present, running, rtnl, ok, pending, held, link, spoiled>>

(* napi_disable waits until the NAPI can be taken: forever, once it is off *)
DownNapi(a) ==
    /\ sub[a] = "napi"
    /\ napi # "off"
    /\ napi' = "off"
    /\ Step(a, "stop")
    /\ UNCHANGED <<board, present, running, rtnl, ok, pending, up, rings, irq, hw,
                   reset_requested, carrier, link, spoiled>>

(* Mutant: the engine is left running. *)
DownStop_no_hw_stop(a) ==
    /\ sub[a] = "stop"
    /\ irq' = FALSE /\ reset_requested' = TRUE
    /\ Step(a, "free")
    /\ UNCHANGED <<board, present, running, rtnl, ok, pending, up, rings, napi, hw,
                   carrier, link, spoiled>>

(* al_eth_free_irq, al_eth_hw_stop *)
DownStop(a) ==
    /\ sub[a] = "stop"
    /\ irq' = FALSE /\ hw' = FALSE /\ reset_requested' = TRUE
    /\ Step(a, "free")
    /\ UNCHANGED <<board, present, running, rtnl, ok, pending, up, rings, napi, carrier,
                   link, spoiled>>

(* al_eth_free_all_*_bufs follow the buffer arrays, which are NULL while   *)
(* the rings are not allocated: the actor dies.                            *)
DownFree(a) ==
    /\ sub[a] = "free"
    /\ \/ rings = AllRings /\ rings' = {} /\ Step(a, Return)
       \/ rings # AllRings /\ Step(a, "dead") /\ UNCHANGED rings
    /\ UNCHANGED <<board, present, running, rtnl, ok, pending, up, irq, napi, hw,
                   reset_requested, carrier, link, spoiled>>

al_eth_down(a) == DownBegin(a) \/ DownNapi(a) \/ DownStop(a) \/ DownFree(a)
-----------------------------------------------------------------------------
(* al_eth_open: on a link manager board the port is registered and the     *)
(* link task queued, on the others the interface goes up at once.          *)
Open ==
    /\ At("user", "idle") /\ rtnl = "none" /\ present # "gone" /\ ~running
    /\ running' = TRUE /\ carrier' = FALSE
    /\ \/ /\ board = "lm"
          /\ lm_mode' = Disconnected /\ stage' = "init"
          /\ pending' = pending \union {"link"}
          /\ UNCHANGED <<at, sub, rtnl>>
       \/ /\ board # "lm"
          /\ Call("user", "up", "opened") /\ rtnl' = "user"
          /\ UNCHANGED <<lm_mode, stage, pending>>
    /\ UNCHANGED <<board, present, ok, up, held, mac_mode, phydev, link_on, spoiled>>

OpenPlain ==
    /\ At("user", "opened") /\ ok["user"] /\ board = "plain"
    /\ carrier' = TRUE /\ rtnl' = "none"
    /\ Goto("user", "idle")
    /\ UNCHANGED <<board, present, running, ok, pending, up, held, link, spoiled>>

(* al_eth_up or al_eth_mdiobus_setup failed, the latter followed by        *)
(* al_eth_down: the stack clears IFF_UP again.                             *)
OpenFails ==
    /\ \/ At("user", "opened") /\ ~ok["user"]
       \/ At("user", "open_failed")
    /\ running' = FALSE /\ rtnl' = "none"
    /\ Goto("user", "idle")
    /\ UNCHANGED <<board, present, ok, pending, up, held, carrier, link, spoiled>>

(* al_eth_mdiobus_setup and al_eth_phy_init.  A PHY that has once been     *)
(* registered is found again; a failing phy_connect returns its error with *)
(* the interface up.                                                       *)
OpenPhy ==
    /\ At("user", "opened") /\ ok["user"] /\ board = "phy"
    /\ \/ /\ ~phydev
          /\ Call("user", "down", "open_failed")
          /\ UNCHANGED <<rtnl, running, carrier, phydev, pending, spoiled>>
       \/ /\ ~phydev
          /\ carrier' = TRUE /\ rtnl' = "none"
          /\ Goto("user", "idle")
          /\ UNCHANGED <<running, phydev, pending, spoiled>>
       \/ /\ running' = FALSE /\ rtnl' = "none" /\ spoiled' = TRUE
          /\ Goto("user", "idle")
          /\ UNCHANGED <<carrier, phydev, pending>>
       \/ /\ phydev' = TRUE /\ rtnl' = "none"
          /\ pending' = pending \union {"link"}
          /\ Goto("user", "idle")
          /\ UNCHANGED <<running, carrier, spoiled>>
    /\ link_on' = FALSE
    /\ UNCHANGED <<board, present, ok, up, held, lm_mode, stage, mac_mode>>

(* al_eth_close, from the stack or from unregister_netdev *)
Close ==
    /\ rtnl = "none" /\ running
    /\ At("user", "idle") \/ At("user", "unregister")
    /\ running' = FALSE /\ rtnl' = "user"
    /\ Goto("user", "cancel_link")
    /\ UNCHANGED <<board, present, ok, pending, up, held, carrier, link, spoiled>>

(* Mutant: cancel_delayed_work, which does not wait for a running task. *)
CancelLink_no_wait ==
    /\ At("user", "cancel_link")
    /\ pending' = IF board = "lm" THEN pending \ {"link"} ELSE pending
    /\ Goto("user", "cancel_reset")
    /\ UNCHANGED <<board, present, running, rtnl, ok, up, held, carrier, link, spoiled>>

(* cancel_delayed_work_sync of the link task *)
CancelLink ==
    /\ At("user", "cancel_link")
    /\ board = "lm" => At("link", "idle")
    /\ pending' = IF board = "lm" THEN pending \ {"link"} ELSE pending
    /\ Goto("user", "cancel_reset")
    /\ UNCHANGED <<board, present, running, rtnl, ok, up, held, carrier, link, spoiled>>

(* cancel_work_sync of the reset task *)
CancelReset ==
    /\ At("user", "cancel_reset") /\ At("reset", "idle")
    /\ pending' = pending \ {"reset"}
    /\ Goto("user", "stop_phy")
    /\ UNCHANGED <<board, present, running, rtnl, ok, up, held, carrier, link, spoiled>>

(* phy_stop and phy_disconnect wait for phylib; then al_eth_down *)
CloseDown ==
    /\ At("user", "stop_phy")
    /\ phydev => At("link", "idle")
    /\ pending' = IF phydev THEN pending \ {"link"} ELSE pending
    /\ Call("user", IF up THEN "down" ELSE Return, "closed")
    /\ UNCHANGED <<board, present, running, rtnl, ok, up, held, carrier, link, spoiled>>

Closed ==
    /\ At("user", "closed")
    /\ rtnl' = "none"
    /\ present' = IF present = "removing" THEN "gone" ELSE present
    /\ Goto("user", "idle")
    /\ UNCHANGED <<board, running, ok, pending, up, held, carrier, link, spoiled>>

(* al_eth_remove stops the hardware before it unregisters the interface *)
RemoveStop ==
    /\ present = "yes"
    /\ present' = "removing"
    /\ hw' = FALSE /\ reset_requested' = TRUE
    /\ UNCHANGED <<board, running, rtnl, calls, pending, up, rings, irq, napi, carrier,
                   link, spoiled>>

(* unregister_netdev closes an interface that is running *)
Unregister ==
    /\ present = "removing" /\ At("user", "idle") /\ rtnl = "none"
    /\ \/ running /\ Goto("user", "unregister") /\ UNCHANGED present
       \/ ~running /\ present' = "gone" /\ UNCHANGED <<at, sub>>
    /\ UNCHANGED <<board, running, rtnl, ok, pending, up, held, carrier, link, spoiled>>
-----------------------------------------------------------------------------
(* The stack's watchdog calls al_eth_tx_timeout while the carrier is on. *)
TxTimeout ==
    /\ running /\ carrier
    /\ pending' = pending \union {"reset"}
    /\ spoiled' = (spoiled \/ board = "lm" \/ phydev)
    /\ UNCHANGED <<board, present, running, rtnl, calls, up, held, carrier, link>>

ResetRun ==
    /\ At("reset", "idle") /\ "reset" \in pending /\ ~Cancelling("reset")
    /\ pending' = pending \ {"reset"}
    /\ Goto("reset", "rtnl_lock")
    /\ UNCHANGED <<board, present, running, rtnl, ok, up, held, carrier, link, spoiled>>

ResetDown ==
    /\ At("reset", "rtnl_lock") /\ rtnl = "none"
    /\ rtnl' = "reset"
    /\ Call("reset", "down", "up")
    /\ UNCHANGED <<board, present, running, ok, pending, up, held, carrier, link, spoiled>>

ResetUp ==
    /\ At("reset", "up")
    /\ Call("reset", "up", "rtnl_unlock")
    /\ UNCHANGED <<board, present, running, rtnl, ok, pending, up, held, carrier, link,
                   spoiled>>

(* The result of al_eth_up is not looked at. *)
ResetEnd ==
    /\ At("reset", "rtnl_unlock")
    /\ rtnl' = "none"
    /\ spoiled' = (spoiled \/ ~ok["reset"])
    /\ Goto("reset", "idle")
    /\ UNCHANGED <<board, present, running, ok, pending, up, held, carrier, link>>
-----------------------------------------------------------------------------
(* al_eth_link_status_task: the group link manager resumes where it was *)
LinkRun ==
    /\ board = "lm" /\ At("link", "idle") /\ "link" \in pending
    /\ ~Cancelling("link")
    /\ pending' = pending \ {"link"}
    /\ Goto("link", IF stage = "establish" THEN "establish" ELSE "detect")
    /\ UNCHANGED <<board, present, running, rtnl, ok, up, held, carrier, link, spoiled>>

(* Detection, then al_eth_lm_mode_change when the mode is another one.     *)
(* Detection can fail before the mode is recorded and, at the retimer,     *)
(* after: the next round then sees no change, or a change from a mode the  *)
(* interface was never brought up in.                                      *)
LinkDetect ==
    /\ At("link", "detect")
    /\ \/ /\ lm_mode' \in LmModes \union {lm_mode}
          /\ Goto("link", "done")
          /\ UNCHANGED spoiled
       \/ \E m \in LmModes \union {Disconnected} :
             /\ lm_mode' = m
             /\ \/ m = lm_mode /\ Goto("link", IF m = Disconnected THEN "done" ELSE "pre")
                \/ m # lm_mode /\ lm_mode = Disconnected /\ Goto("link", "apply")
                \/ m # lm_mode /\ lm_mode # Disconnected /\ Call("link", "down", "apply")
             /\ spoiled' = (spoiled \/ (sub'["link"] = "down" /\ ~up))
    /\ UNCHANGED <<board, present, running, rtnl, ok, pending, up, held, carrier, stage,
                   mac_mode, phydev, link_on>>

(* al_eth_lm_mode_apply *)
LinkApply ==
    /\ At("link", "apply")
    /\ mac_mode' = IF lm_mode = Disconnected THEN mac_mode ELSE lm_mode
    /\ Goto("link", IF lm_mode = Disconnected THEN "done" ELSE "pre")
    /\ UNCHANGED <<board, present, running, rtnl, ok, pending, up, held, carrier,
                   lm_mode, stage, phydev, link_on, spoiled>>

(* Mutant: al_eth_up again at every attempt to establish the link. *)
LinkPreEstablish_always ==
    /\ At("link", "pre")
    /\ Call("link", "up", "pre_done")
    /\ UNCHANGED <<board, present, running, rtnl, ok, pending, up, held, carrier, link,
                   spoiled>>

(* al_eth_group_lm_pre_establish *)
LinkPreEstablish ==
    /\ At("link", "pre")
    /\ \/ up /\ Goto("link", "establish")
       \/ ~up /\ Call("link", "up", "pre_done")
    /\ UNCHANGED <<board, present, running, rtnl, ok, pending, up, held, carrier, link,
                   spoiled>>

LinkPreDone ==
    /\ At("link", "pre_done")
    /\ Goto("link", IF ok["link"] THEN "establish" ELSE "done")
    /\ spoiled' = (spoiled \/ ~ok["link"])
    /\ UNCHANGED <<board, present, running, rtnl, ok, pending, up, held, carrier, link>>

(* al_eth_group_lm_update_port_status once the attempt has a result *)
LinkEstablish ==
    /\ At("link", "establish")
    /\ \/ stage' = "establish" /\ UNCHANGED carrier
       \/ stage' = "init" /\ carrier' \in BOOLEAN
    /\ Goto("link", "done")
    /\ UNCHANGED <<board, present, running, rtnl, ok, pending, up, held, lm_mode,
                   mac_mode, phydev, link_on, spoiled>>

LinkDone ==
    /\ At("link", "done")
    /\ pending' = IF Cancelling("link") THEN pending ELSE pending \union {"link"}
    /\ Goto("link", "idle")
    /\ UNCHANGED <<board, present, running, rtnl, ok, up, held, carrier, link, spoiled>>
-----------------------------------------------------------------------------
(* phylib finds the link up: netif_carrier_on, al_eth_adjust_link, which   *)
(* restarts the interface when the speed calls for another MAC mode.       *)
PhyLinkUp(m) ==
    /\ board = "phy" /\ phydev /\ "link" \in pending /\ At("link", "idle") /\ ~link_on
    /\ at["user"] # "stop_phy"
    /\ link_on' = TRUE /\ carrier' = TRUE
    /\ \/ m = mac_mode /\ UNCHANGED <<at, sub, mac_mode>>
       \/ m # mac_mode /\ mac_mode' = m /\ Call("link", "down", "phy_up")
    /\ UNCHANGED <<board, present, running, rtnl, ok, pending, up, held, lm_mode, stage,
                   phydev, spoiled>>

PhyUp ==
    /\ At("link", "phy_up")
    /\ Call("link", "up", "phy_done")
    /\ UNCHANGED <<board, present, running, rtnl, ok, pending, up, held, carrier, link,
                   spoiled>>

PhyDone ==
    /\ At("link", "phy_done")
    /\ spoiled' = (spoiled \/ ~ok["link"])
    /\ Goto("link", "idle")
    /\ UNCHANGED <<board, present, running, rtnl, ok, pending, up, held, carrier, link>>

PhyLinkDown ==
    /\ board = "phy" /\ phydev /\ "link" \in pending /\ At("link", "idle") /\ link_on
    /\ at["user"] # "stop_phy"
    /\ link_on' = FALSE /\ carrier' = FALSE
    /\ UNCHANGED <<board, present, running, rtnl, calls, pending, up, held, lm_mode,
                   stage, mac_mode, phydev, spoiled>>
-----------------------------------------------------------------------------
User == \/ OpenPlain \/ OpenFails \/ OpenPhy
        \/ CancelLink \/ CancelReset \/ CloseDown \/ Closed
        \/ al_eth_up("user") \/ al_eth_down("user")
Reset == \/ ResetRun \/ ResetDown \/ ResetUp \/ ResetEnd
         \/ al_eth_up("reset") \/ al_eth_down("reset")
Link == \/ LinkRun \/ LinkDetect \/ LinkApply \/ LinkPreEstablish \/ LinkPreDone
        \/ LinkEstablish \/ LinkDone \/ PhyUp \/ PhyDone
        \/ al_eth_up("link") \/ al_eth_down("link")
Environment == \/ Open \/ Close \/ RemoveStop \/ Unregister \/ TxTimeout
               \/ PhyLinkDown \/ \E m \in {"low", "serial"} : PhyLinkUp(m)

Next == User \/ Reset \/ Link \/ Environment

Spec == Init /\ [][Next]_vars

(* Tasks and system calls that have begun go on; the rest is up to the     *)
(* user and the wire.                                                      *)
FairSpec == Spec /\ WF_vars(User) /\ WF_vars(Reset) /\ WF_vars(Link)
-----------------------------------------------------------------------------
Quiet == \A a \in Actors : sub[a] = Return

(* The type invariant of the interface's state. *)
TypeOK ==
    /\ board \in Boards /\ present \in {"yes", "removing", "gone"}
    /\ running \in BOOLEAN /\ rtnl \in {"none", "user", "reset"}
    /\ ok \in [Actors -> BOOLEAN] /\ pending \subseteq {"reset", "link"}
    /\ up \in BOOLEAN /\ reset_requested \in BOOLEAN /\ rings \subseteq AllRings
    /\ irq \in BOOLEAN /\ napi \in {"new", "on", "off"} /\ hw \in BOOLEAN
    /\ carrier \in BOOLEAN /\ lm_mode \in LmModes \union {Disconnected}
    /\ mac_mode \in LmModes \union {"low", "serial"}

(* adapter->up is the only thing al_eth_close and the link manager's       *)
(* callback look at.  While no caller has gone on after a failed al_eth_up *)
(* or called al_eth_down on an interface that is not up, and no reset      *)
(* meets a link task, the flag tells the truth whenever                    *)
(* nobody is inside al_eth_up or al_eth_down: an interface that is up      *)
(* holds its rings, its interrupts and an enabled NAPI, one that is not    *)
(* holds none of them and its engine does not run, through every failure   *)
(* of al_eth_up that al_eth_open reports.                                  *)
Balanced ==
    (Quiet /\ ~spoiled) =>
        /\ rings = IF up THEN AllRings ELSE {}
        /\ irq = up
        /\ (napi = "on") = up
        /\ hw => up

(* Descriptor rings are freed only once al_eth_hw_stop has stopped the     *)
(* engine and the interrupts are gone: nothing writes to freed memory.     *)
FreedAfterStop ==
    [][(rings' # rings /\ rings' = {} /\ ~spoiled) => (~hw' /\ ~irq')]_vars

(* Carrier is reported only for an interface that is up, or on its way     *)
(* down: the stack is not invited to transmit on rings that are gone.      *)
CarrierMeansUp == (carrier /\ ~spoiled) => (up \/ \E a \in Actors : sub[a] = "down")

(* After al_eth_remove the private structure is freed: no work is queued   *)
(* or running, no interrupt can come and nothing stays allocated.          *)
RemovedClean ==
    (present = "gone" /\ ~spoiled) =>
        /\ pending = {} /\ \A a \in Actors : At(a, "idle")
        /\ ~irq /\ ~hw /\ napi # "on" /\ rings = {}

(* al_eth_close waits for the link task, for phylib and for the reset      *)
(* task.  It ends, unless a reset task is waiting for the rtnl mutex that  *)
(* al_eth_close is called with, or actors have spoiled each other's work:  *)
(* the link task that takes down an interface that is not up, because a    *)
(* detection failed after it had recorded the mode, never comes back.      *)
CloseEnds ==
    at["user"] = "cancel_link" ~>
        (at["user"] = "idle" \/ spoiled \/ at["reset"] = "rtnl_lock")

(* al_eth_close "Returns 0, this is not allowed to fail": it returns. *)
CloseReturns ==
    (at["user"] = "cancel_link" /\ ~spoiled) ~> (at["user"] = "idle" \/ spoiled)
=============================================================================
