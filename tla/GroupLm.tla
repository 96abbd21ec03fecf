------------------------------ MODULE GroupLm ------------------------------
(***************************************************************************)
(* The group link manager (al_eth_group_lm.c): the ports that share a      *)
(* serdes group and its lock.  Each port's link task calls                 *)
(* al_eth_group_lm_link_manage, which runs as far as it can and returns    *)
(* -EINPROGRESS when the group lock is taken or the link manager is not    *)
(* done; lm_step_stage says where the next call goes on.                   *)
(*                                                                         *)
(* An action is a stage.  A critical section is two: the try_lock, and the *)
(* work with the unlock.  The locals of a call (fault, link_up, rc) are    *)
(* got[l], unassigned when a call begins.                                  *)
(***************************************************************************)
EXTENDS LinkManager

CONSTANTS
    Links,     \* the lanes of the group
    Boards     \* the boards explored

ASSUME BoardsAssumption ==
    \A b \in Boards : /\ b.links \subseteq Links
                      /\ b.auto_speed \in BOOLEAN
                      /\ b.port \in Board

MasterLane == 0     \* GROUP_LM_SERDES_25G_MASTER_LANE

VARIABLES
    board,
    lock,               \* the link that holds the group lock, if any
    serdes_mode,
    registered,
    run,                \* the link's call is under way
    lm_step_stage, got,
    lm_context, old_mode, new_mode,
    last_link_state,
    need_pll_wa, need_watchdog_wa,
    up, carrier,        \* of the port's network interface
    active_speed,       \* link_config.active_speed, and the MAC mode with it
    reset               \* the last step initialised the serdes as a workaround

group == <<board, lock, serdes_mode>>
call == <<registered, run, lm_step_stage, got>>
modes == <<lm_context, old_mode, new_mode>>
wa == <<need_pll_wa, need_watchdog_wa>>
port == <<last_link_state, up, carrier, active_speed>>
vars == <<group, call, modes, wa, port, reset>>

b == board.port
Stages == {"INIT", "TRY_LOCK_DETECTION", "DETECTION", "DETECTION_DONE",
           "TRY_LOCK_SPEED_CHANGE", "SPEED_CHANGE", "PRE_ESTABLISH",
           "TRY_LOCK_ESTABLISH", "ESTABLISH", "ESTABLISH_DONE",
           "GROUP_LM_FLOW", "FLOW"}
Sections == {"DETECTION", "SPEED_CHANGE", "ESTABLISH", "FLOW"}

At(l, stage) == run[l] /\ lm_step_stage[l] = stage
Goto(l, stage, result) ==
    /\ lm_step_stage' = [lm_step_stage EXCEPT ![l] = stage]
    /\ got' = [got EXCEPT ![l] = result]
    /\ reset' = FALSE
    /\ UNCHANGED <<registered, run>>

(* "break": the call ends, and the next one goes on at stage *)
Return(l, stage) ==
    /\ lm_step_stage' = [lm_step_stage EXCEPT ![l] = stage]
    /\ run' = [run EXCEPT ![l] = FALSE]
    /\ got' = [got EXCEPT ![l] = "?"]
    /\ reset' = FALSE
    /\ UNCHANGED registered

(* alpine_group_lm_init: al_eth_group_lm_init clears every link *)
Init ==
    /\ board \in Boards
    /\ lock = {} /\ serdes_mode = "UNKNOWN"
    /\ registered = {}
    /\ run = [l \in Links |-> FALSE]
    /\ lm_step_stage = [l \in Links |-> "INIT"]
    /\ got = [l \in Links |-> "?"]
    /\ lm_context = [l \in Links |-> al_eth_lm_init]
    /\ old_mode = [l \in Links |-> Disconnected]
    /\ new_mode = [l \in Links |-> Disconnected]
    /\ last_link_state = [l \in Links |-> "DOWN"]
    /\ need_pll_wa = {} /\ need_watchdog_wa = {}
    /\ up = [l \in Links |-> FALSE] /\ carrier = [l \in Links |-> FALSE]
    /\ active_speed = [l \in Links |-> "none"]
    /\ reset = FALSE
-----------------------------------------------------------------------------
(* al_eth_open: al_eth_lm_config, which initialises the context but not    *)
(* the hardware, and al_eth_group_lm_port_register under the lock          *)
al_eth_group_lm_port_register(l) ==
    /\ l \in board.links \ registered /\ lock = {}
    /\ registered' = registered \union {l}
    /\ lm_context' = [lm_context EXCEPT
          ![l] = [al_eth_lm_init EXCEPT !.fec = lm_context[l].fec,
                                        !.tx_params = lm_context[l].tx_params]]
    /\ lm_step_stage' = [lm_step_stage EXCEPT ![l] = "INIT"]
    /\ old_mode' = [old_mode EXCEPT ![l] = Disconnected]
    /\ new_mode' = [new_mode EXCEPT ![l] = Disconnected]
    /\ last_link_state' = [last_link_state EXCEPT ![l] = "DOWN"]
    /\ need_pll_wa' = need_pll_wa \ {l}
    /\ need_watchdog_wa' = need_watchdog_wa \ {l}
    /\ carrier' = [carrier EXCEPT ![l] = FALSE]
    /\ reset' = FALSE
    /\ UNCHANGED <<group, run, got, up, active_speed>>

(* al_eth_close: the link task has been cancelled, so no call is under     *)
(* way, whatever the stage; al_eth_down follows.                           *)
al_eth_group_lm_port_unregister(l) ==
    /\ l \in registered /\ ~run[l] /\ lock = {}
    /\ registered' = registered \ {l}
    /\ up' = [up EXCEPT ![l] = FALSE]
    /\ carrier' = [carrier EXCEPT ![l] = FALSE]
    /\ reset' = FALSE
    /\ UNCHANGED <<group, run, lm_step_stage, got, modes, wa, last_link_state,
                   active_speed>>

(* al_eth_link_status_task runs again after link_poll_interval. *)
Invoke(l) ==
    /\ l \in registered /\ ~run[l]
    /\ run' = [run EXCEPT ![l] = TRUE]
    /\ reset' = FALSE
    /\ UNCHANGED <<group, registered, lm_step_stage, got, modes, wa, port>>

(* GROUP_LM_STEP_STAGE_INIT and LINK_STATE_CHECK: al_eth_lm_link_check     *)
(* looks at the MAC without a lock.                                        *)
LinkStateCheck(l) ==
    /\ At(l, "INIT")
    /\ \/ Goto(l, "TRY_LOCK_DETECTION", "?")
       \/ lm_context[l].link_state = "UP" /\ Return(l, "GROUP_LM_FLOW")
    /\ UNCHANGED <<group, modes, wa, port>>

(* The stages that need the group lock, and the work they go on to.  The   *)
(* detection and the group flow only lock a 25G serdes.                    *)
Work(stage) == CASE stage = "TRY_LOCK_DETECTION" -> "DETECTION"
                 [] stage = "TRY_LOCK_SPEED_CHANGE" -> "SPEED_CHANGE"
                 [] stage = "TRY_LOCK_ESTABLISH" -> "ESTABLISH"
                 [] stage = "GROUP_LM_FLOW" -> "FLOW"
TryLockStages == {"TRY_LOCK_DETECTION", "TRY_LOCK_SPEED_CHANGE",
                  "TRY_LOCK_ESTABLISH", "GROUP_LM_FLOW"}
Locks(stage) == b.serdes = "25G" \/ Work(stage) \in {"SPEED_CHANGE", "ESTABLISH"}

TryLock(l) ==
    /\ run[l] /\ lm_step_stage[l] \in TryLockStages
    /\ LET stage == lm_step_stage[l]
       IN  \/ /\ ~Locks(stage) /\ Goto(l, Work(stage), "?") /\ UNCHANGED lock
           \/ /\ Locks(stage) /\ lock = {}
              /\ lock' = {l} /\ Goto(l, Work(stage), "?")
           \/ /\ Locks(stage) /\ lock # {}
              /\ Return(l, stage) /\ UNCHANGED lock
    /\ UNCHANGED <<board, serdes_mode, modes, wa, port>>
Unlock(l) == lock' = lock \ {l}
-----------------------------------------------------------------------------
(* Mutant: the lock is kept while the detection waits. *)
Detection_keeps_lock(l, expired) ==
    /\ At(l, "DETECTION")
    /\ \E r \in al_eth_lm_link_detection_step(b, lm_context[l], old_mode[l], new_mode[l],
                                              expired) :
          /\ lm_context' = [lm_context EXCEPT ![l] = r.lm]
          /\ old_mode' = [old_mode EXCEPT ![l] = r.old]
          /\ new_mode' = [new_mode EXCEPT ![l] = r.new]
          /\ \/ r.rc = "inprogress" /\ Return(l, "TRY_LOCK_DETECTION") /\ UNCHANGED lock
             \/ r.rc = "error" /\ Return(l, "GROUP_LM_FLOW") /\ Unlock(l)
             \/ r.rc = "ok" /\ Goto(l, "DETECTION_DONE", IF r.fault THEN "fault" ELSE "no_fault")
                /\ Unlock(l)
    /\ UNCHANGED <<board, serdes_mode, wa, port>>

(* GROUP_LM_STEP_STAGE_TRY_LOCK_DETECTION, the lock taken *)
Detection(l, expired) ==
    /\ At(l, "DETECTION")
    /\ \E r \in al_eth_lm_link_detection_step(b, lm_context[l], old_mode[l], new_mode[l],
                                              expired) :
          /\ lm_context' = [lm_context EXCEPT ![l] = r.lm]
          /\ old_mode' = [old_mode EXCEPT ![l] = r.old]
          /\ new_mode' = [new_mode EXCEPT ![l] = r.new]
          /\ \/ r.rc = "inprogress" /\ Return(l, "TRY_LOCK_DETECTION")
             \/ r.rc = "error" /\ Return(l, "GROUP_LM_FLOW")
             \/ r.rc = "ok" /\ Goto(l, "DETECTION_DONE", IF r.fault THEN "fault" ELSE "no_fault")
    /\ Unlock(l)
    /\ UNCHANGED <<board, serdes_mode, wa, port>>

Speed(mode) == CASE mode = "1G" -> "1G" [] mode = "25G" -> "25G" [] OTHER -> "10G"

(* al_eth_lm_mode_change: al_eth_down unless the link was disconnected,    *)
(* al_eth_lm_mode_apply.  al_eth_down does not return when the interface   *)
(* is not up, as after an al_eth_up that failed or a detection that failed *)
(* once the mode was recorded: its napi instances are disabled already.    *)
ModeChange(l) ==
    /\ IF old_mode[l] # Disconnected
       THEN /\ up[l] /\ up' = [up EXCEPT ![l] = FALSE]
            /\ carrier' = [carrier EXCEPT ![l] = FALSE]
       ELSE UNCHANGED <<up, carrier>>
    /\ active_speed' = IF new_mode[l] = Disconnected THEN active_speed
                       ELSE [active_speed EXCEPT ![l] = Speed(new_mode[l])]

(* GROUP_LM_STEP_STAGE_DETECTION_DONE *)
DetectionDone(l) ==
    /\ At(l, "DETECTION_DONE")
    /\ \/ got[l] = "no_fault" /\ Return(l, "GROUP_LM_FLOW") /\ UNCHANGED port
       \/ /\ got[l] = "fault" /\ new_mode[l] = Disconnected /\ Return(l, "GROUP_LM_FLOW")
          /\ IF old_mode[l] # Disconnected THEN ModeChange(l) /\ UNCHANGED last_link_state
                                           ELSE UNCHANGED port
       \/ /\ got[l] = "fault" /\ new_mode[l] # Disconnected
          /\ Goto(l, "TRY_LOCK_SPEED_CHANGE", "?")
          /\ IF new_mode[l] # old_mode[l] THEN ModeChange(l) /\ UNCHANGED last_link_state
                                          ELSE UNCHANGED port
    /\ UNCHANGED <<group, modes, wa>>
-----------------------------------------------------------------------------
SerdesMode(mode) ==
    CASE mode = "25G" -> "25G" [] mode = "1G" -> "SGMII"
      [] mode \in {"10G_DA", "10G_OPTIC"} -> "KR"

(* Who may change the speed of the group, and to what *)
MayChangeSpeed(l) ==
    \/ serdes_mode = "UNKNOWN"
    \/ board.auto_speed /\ (b.serdes = "25G" => l = MasterLane)
Supported == IF b.serdes = "25G" THEN {"25G", "KR"} ELSE {"KR", "SGMII"}

(* al_eth_group_lm_set_desired_speed, al_eth_group_lm_serdes_speed_change *)
SpeedChange(l) ==
    /\ At(l, "SPEED_CHANGE")
    /\ LET desired == SerdesMode(new_mode[l])
       IN  serdes_mode' = IF MayChangeSpeed(l) /\ desired \in Supported
                          THEN desired ELSE serdes_mode
    /\ Goto(l, "PRE_ESTABLISH", "?")
    /\ Unlock(l)
    /\ UNCHANGED <<board, modes, wa, port>>

(* al_eth_group_lm_pre_establish: al_eth_up, once *)
PreEstablish(l) ==
    /\ At(l, "PRE_ESTABLISH")
    /\ \/ Goto(l, "TRY_LOCK_ESTABLISH", "?") /\ up' = [up EXCEPT ![l] = TRUE]
       \/ ~up[l] /\ Return(l, "GROUP_LM_FLOW") /\ UNCHANGED up
    /\ UNCHANGED <<group, modes, wa, last_link_state, carrier, active_speed>>

(* Mutant: the call ends before its result has been looked at. *)
Establish_returns(l, expired) ==
    /\ At(l, "ESTABLISH")
    /\ \E r \in al_eth_lm_link_establish_step(b, lm_context[l], expired) :
          /\ lm_context' = [lm_context EXCEPT ![l] = r.lm]
          /\ Return(l, IF r.rc = "inprogress" THEN "TRY_LOCK_ESTABLISH" ELSE "ESTABLISH_DONE")
    /\ Unlock(l)
    /\ UNCHANGED <<board, serdes_mode, old_mode, new_mode, wa, port>>

(* GROUP_LM_STEP_STAGE_TRY_LOCK_ESTABLISH, the lock taken *)
Establish(l, expired) ==
    /\ At(l, "ESTABLISH")
    /\ \E r \in al_eth_lm_link_establish_step(b, lm_context[l], expired) :
          /\ lm_context' = [lm_context EXCEPT ![l] = r.lm]
          /\ IF r.rc = "inprogress" THEN Return(l, "TRY_LOCK_ESTABLISH")
             ELSE Goto(l, "ESTABLISH_DONE", IF r.rc # "ok" THEN r.rc
                                            ELSE IF r.link_up THEN "up" ELSE "remote_fault")
    /\ Unlock(l)
    /\ UNCHANGED <<board, serdes_mode, old_mode, new_mode, wa, port>>

(* Mutant: a remote fault after the link was up is not reported. *)
EstablishDone_quiet(l) ==
    /\ At(l, "ESTABLISH_DONE")
    /\ LET state == CASE got[l] = "up" -> "UP" [] got[l] = "remote_fault" -> "DOWN_RF"
                      [] OTHER -> "DOWN"
       IN  /\ last_link_state' = [last_link_state EXCEPT ![l] = state]
           /\ carrier' = [carrier EXCEPT ![l] =
                 IF state = "UP" THEN TRUE ELSE IF state = "DOWN" THEN FALSE ELSE @]
    /\ Goto(l, "GROUP_LM_FLOW", "?")
    /\ UNCHANGED <<group, modes, wa, up, active_speed>>

(* GROUP_LM_STEP_STAGE_ESTABLISH_DONE: update_link_status_cb says down only *)
(* when the state of the last flow was up.                                 *)
EstablishDone(l) ==
    /\ At(l, "ESTABLISH_DONE")
    /\ LET state == CASE got[l] = "up" -> "UP" [] got[l] = "remote_fault" -> "DOWN_RF"
                      [] OTHER -> "DOWN"
       IN  /\ last_link_state' = [last_link_state EXCEPT ![l] = state]
           /\ carrier' = [carrier EXCEPT ![l] =
                 IF state = "UP" THEN TRUE
                 ELSE IF last_link_state[l] = "UP" THEN FALSE ELSE @]
    /\ Goto(l, "GROUP_LM_FLOW", "?")
    /\ UNCHANGED <<group, modes, wa, up, active_speed>>
-----------------------------------------------------------------------------
(* What al_eth_group_lm_check_workarounds may find: without a retimer its  *)
(* transmit side is never locked, and whether the watchdog's interval has  *)
(* passed is free.                                                         *)
Troubled(l) == new_mode[l] # Disconnected /\ lm_context[l].link_state # "UP"

(* Mutant: the flags of a link that is up again are left as they were. *)
CheckWorkarounds_keeps(l, pll, wd) ==
    /\ pll \in IF Troubled(l) THEN (IF b.retimer THEN BOOLEAN ELSE {TRUE})
                              ELSE {l \in need_pll_wa}
    /\ wd \in IF Troubled(l) THEN BOOLEAN ELSE {l \in need_watchdog_wa}

al_eth_group_lm_check_workarounds(l, pll, wd) ==
    /\ pll \in IF Troubled(l) THEN (IF b.retimer THEN BOOLEAN ELSE {TRUE}) ELSE {FALSE}
    /\ wd \in IF Troubled(l) THEN BOOLEAN ELSE {FALSE}

With(set, l, flag) == IF flag THEN set \union {l} ELSE set \ {l}
Connected == {l \in registered : new_mode[l] # Disconnected}

(* al_eth_group_lm_group_flow: the workaround is for all links or none.    *)
(* watchdog_wa_reset_lane_done only silences a message.                    *)
al_eth_group_lm_group_flow(pll, wd) ==
    LET reinit == Connected # {} /\ (Connected \subseteq pll \/ Connected \subseteq wd)
    IN  /\ need_pll_wa' = pll
        /\ need_watchdog_wa' = IF reinit THEN wd \ registered ELSE wd
        /\ serdes_mode' = IF reinit /\ serdes_mode \notin {"25G", "KR"}
                          THEN "25G" ELSE serdes_mode
        /\ reset' = reinit

(* GROUP_LM_STEP_STAGE_GROUP_LM_FLOW, the lock taken: the flow is over *)
Flow(l) ==
    /\ At(l, "FLOW")
    /\ \/ /\ b.serdes = "25G"
          /\ \E pll, wd \in BOOLEAN :
                /\ al_eth_group_lm_check_workarounds(l, pll, wd)
                /\ al_eth_group_lm_group_flow(With(need_pll_wa, l, pll),
                                              With(need_watchdog_wa, l, wd))
       \/ b.serdes = "HSSP" /\ reset' = FALSE /\ UNCHANGED <<wa, serdes_mode>>
    /\ lm_step_stage' = [lm_step_stage EXCEPT ![l] = "INIT"]
    /\ run' = [run EXCEPT ![l] = FALSE]
    /\ Unlock(l)
    /\ UNCHANGED <<board, registered, got, modes, port>>
-----------------------------------------------------------------------------
al_eth_group_lm_link_manage(l) ==
    \/ Invoke(l) \/ LinkStateCheck(l) \/ TryLock(l)
    \/ \E expired \in BOOLEAN : Detection(l, expired) \/ Establish(l, expired)
    \/ DetectionDone(l) \/ SpeedChange(l) \/ PreEstablish(l)
    \/ EstablishDone(l) \/ Flow(l)

Next ==
    \E l \in Links : \/ al_eth_group_lm_port_register(l)
                     \/ al_eth_group_lm_port_unregister(l)
                     \/ al_eth_group_lm_link_manage(l)

Spec == Init /\ [][Next]_vars

(* The link task is rescheduled as long as the port is open and a call     *)
(* runs to its end; the clock goes on, so that a step which is taken again *)
(* and again finds its interval passed.  The try_lock is not fair.         *)
FairSpec ==
    /\ Spec
    /\ \A l \in Links : /\ WF_vars(al_eth_group_lm_link_manage(l))
                        /\ SF_vars(Detection(l, TRUE))
                        /\ SF_vars(Establish(l, TRUE))
-----------------------------------------------------------------------------
(* The type invariant of the group and its ports. *)
TypeOK ==
    /\ board \in Boards
    /\ lock \subseteq board.links
    /\ serdes_mode \in {"UNKNOWN", "25G", "KR", "SGMII"}
    /\ registered \subseteq board.links
    /\ run \in [Links -> BOOLEAN]
    /\ lm_step_stage \in [Links -> Stages]
    /\ got \in [Links -> {"?", "fault", "no_fault", "up", "remote_fault", "error",
                          "invalid_fec_state"}]
    /\ lm_context \in [Links -> LmContext]
    /\ old_mode \in [Links -> LmModes \union {Disconnected}]
    /\ new_mode \in [Links -> LmModes \union {Disconnected}]
    /\ last_link_state \in [Links -> {"UP", "DOWN", "DOWN_RF"}]
    /\ need_pll_wa \subseteq board.links /\ need_watchdog_wa \subseteq board.links
    /\ up \in [Links -> BOOLEAN] /\ carrier \in [Links -> BOOLEAN]
    /\ active_speed \in [Links -> {"none", "1G", "10G", "25G"}]
    /\ reset \in BOOLEAN

(* Between two calls no port holds the lock or stands at a stage that      *)
(* reads a local of the call before: fault, link_up and rc are read only   *)
(* in the call that assigned them (al_eth_group_lm_link_manage).           *)
CallsAreWhole ==
    \A l \in Links :
       /\ ~run[l] => l \notin lock /\ lm_step_stage[l] \notin
                        Sections \union {"DETECTION_DONE", "ESTABLISH_DONE"}
       /\ At(l, "DETECTION_DONE") => got[l] \in {"fault", "no_fault"}
       /\ At(l, "ESTABLISH_DONE") => got[l] # "?"

(* The carrier of a port is on only while its interface is up and the last *)
(* flow that had a result ended with the link up; a port whose last flow   *)
(* ended with the link up, and which is up now, has its carrier on; and,   *)
(* unless a retimer can fail on the way (al_eth_lm_link_detection_step),   *)
(* its MAC was set to the speed of the mode the link is up in.             *)
CarrierHonest ==
    \A l \in registered :
       /\ carrier[l] => up[l] /\ last_link_state[l] = "UP"
       /\ carrier[l] /\ ~b.retimer /\ lm_context[l].link_state = "UP"
             => active_speed[l] = Speed(lm_context[l].mode)
       /\ lm_step_stage[l] = "INIT" /\ last_link_state[l] = "UP"
             /\ lm_context[l].link_state = "UP" => carrier[l]

(* Automatic FEC on a board whose establish step configures it, a 25G      *)
(* serdes without link training: the toggle never meets the state it calls *)
(* invalid, and a 25G link that is up behind a retimer has left the        *)
(* initial cycle.                                                          *)
FecSettled(l) ==
    b.serdes = "25G" /\ ~b.link_training =>
       /\ got[l] # "invalid_fec_state"
       /\ b.retimer /\ b.auto_fec /\ lm_context[l].mode = "25G"
             /\ lm_context[l].link_state = "UP"
          => lm_context[l].auto_fec_state \in {"ENABLED", "DISABLED"}

(* What an established link rests on (al_eth_lm_link_establish_step): the  *)
(* FEC state is settled; the transmit gearbox was reset for the speed that *)
(* was detected last; and, without a retimer, the serdes has static        *)
(* transmit parameters, or trained ones that are marked to be replaced.    *)
EstablishedReady ==
    \A l \in registered :
       LET lm == lm_context[l]
       IN  /\ FecSettled(l)
           /\ lm.link_state = "UP" => ~lm.speed_change
           /\ lm.link_state = "UP" /\ ~b.retimer
              => lm.tx_params # "none" /\ (lm.tx_param_dirty <=> lm.tx_params = "trained")

(* The PLL and watchdog workarounds never initialise the serdes under a    *)
(* port that is up and has finished its flow (al_eth_group_lm_group_flow   *)
(* works on flags that the other ports left there earlier).                *)
ResetSparesSettled ==
    reset => \A l \in registered :
                lm_step_stage[l] = "INIT" /\ new_mode[l] # Disconnected
                => lm_context[l].link_state # "UP"

(* The ports whose al_eth_lm_mode_change waits in al_eth_down for good *)
Stuck == {l \in registered : /\ At(l, "DETECTION_DONE") /\ got[l] = "fault"
                             /\ old_mode[l] \notin {Disconnected, new_mode[l]} /\ ~up[l]}

(* The group does not block: as long as a port is registered that is not   *)
(* lost in al_eth_down, some port reaches the end of its flow again and    *)
(* again, whoever wins the try_lock.  A port that is lost holds no lock.   *)
GroupProgress ==
    []<>(registered \subseteq Stuck \/ \E l \in registered : lm_step_stage[l] = "INIT")
=============================================================================
