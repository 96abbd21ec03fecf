---------------------------- MODULE LinkManager ----------------------------
(***************************************************************************)
(* The link manager of one port (al_init_eth_lm.c) as step functions on    *)
(* its context, struct al_eth_lm_context: al_eth_lm_link_detection_step    *)
(* and al_eth_lm_link_establish_step are called again and again and return *)
(* -EINPROGRESS until they are done.                                       *)
(*                                                                         *)
(* b is the board (the fields of al_eth_lm_init_params that decide what is *)
(* run), lm the context.  Each step function yields the set of results the *)
(* hardware can lead to: what the MAC, the serdes, the module's EEPROM and *)
(* the retimer report is free.  expired says whether the interval the step *)
(* is waiting for has passed.                                              *)
(***************************************************************************)
EXTENDS Naturals, FiniteSets

Disconnected == "DISCONNECTED"
LmModes == {"1G", "10G_OPTIC", "10G_DA", "25G"}

Board == [serdes : {"25G", "HSSP"}, retimer : BOOLEAN, speed_detection : BOOLEAN,
          auto_fec : BOOLEAN, kr_fec_enable : BOOLEAN, link_training : BOOLEAN,
          rx_equal : BOOLEAN, sfp_detection : BOOLEAN, force_mode : BOOLEAN,
          gpio_present : BOOLEAN,
          max_speed : {"1G", "10G", "25G", "MAX"}, default_mode : LmModes]

LmContext ==
    [mode : LmModes \union {Disconnected},
     link_state : {"UP", "DOWN", "DOWN_RF"},
     detection : {"INIT", "RX_ADAPT_WAIT", "FINAL"},
     establish : {"INIT", "SIGNAL_LOCK_CHECK", "RX_ADAPT_WAIT", "STATUS_DELAY", "FINAL"},
     rx_adap : {"RETIMER_LOCK_TO", "SERDES_LOCK_DELAY"},
     slc : {"INIT", "IN_PROGRESS"},   \* slc_state, and wfl_state with it
     auto_fec_state : {"INIT", "INIT_ENABLED", "ENABLED", "DISABLED"},
     link_prev_up : BOOLEAN,
     fec : BOOLEAN,                   \* forward error correction in the MAC
     speed_change : BOOLEAN,
     last_detected_mode : LmModes \union {Disconnected},
     tx_param_dirty : BOOLEAN,
     tx_params : {"none", "da", "optic", "trained"}]  \* in the serdes

(* al_eth_lm_init, with what the hardware starts from *)
al_eth_lm_init ==
    [mode |-> Disconnected, link_state |-> "DOWN",
     detection |-> "INIT", establish |-> "INIT",
     rx_adap |-> "RETIMER_LOCK_TO", slc |-> "INIT",
     auto_fec_state |-> "INIT", link_prev_up |-> FALSE, fec |-> FALSE,
     speed_change |-> FALSE, last_detected_mode |-> Disconnected,
     tx_param_dirty |-> TRUE, tx_params |-> "none"]

(* What al_eth_link_status_get reports: link up, local or remote fault *)
MacStatus == {"up", "local_fault", "remote_fault"}
StateOf(status) ==
    CASE status = "up" -> "UP" [] status = "local_fault" -> "DOWN"
      [] status = "remote_fault" -> "DOWN_RF"
-----------------------------------------------------------------------------
(* al_eth_sfp_detect and al_eth_qsfp_detect: the mode the EEPROM stands    *)
(* for.  A direct attach cable goes by its signal rate and max_speed, an   *)
(* unknown module by default_mode; force_mode overrides them all.          *)
SfpModes(b) ==
    IF b.force_mode THEN {b.default_mode}
    ELSE {"10G_OPTIC", "1G", b.default_mode}
         \union (IF b.max_speed \in {"25G", "MAX"} THEN {"25G"} ELSE {})
         \union (IF b.max_speed \in {"10G", "MAX"} THEN {"10G_DA"} ELSE {})
QsfpModes(b) == {"10G_DA", "10G_OPTIC", b.default_mode}

(* al_eth_module_detect: the modes it may return.  With a presence pin a   *)
(* bounce keeps the mode and a module is trusted to be there.              *)
al_eth_module_detect(b, lm) ==
    {Disconnected}
    \union (IF b.gpio_present THEN {lm.mode, b.default_mode} ELSE {})
    \union (IF b.gpio_present /\ b.force_mode THEN {} ELSE SfpModes(b) \union QsfpModes(b))

(* It fails when an i2c transfer does, for another reason than a timeout. *)
ModuleDetectFails(b) == ~(b.gpio_present /\ b.force_mode)

StaticTxParams(b, mode) == IF ~b.retimer /\ mode = "10G_DA" THEN "da" ELSE "optic"

(* al_eth_serdes_static_tx_params_set *)
al_eth_serdes_static_tx_params_set(b, lm) ==
    IF lm.tx_param_dirty
    THEN [lm EXCEPT !.tx_param_dirty = FALSE, !.tx_params = StaticTxParams(b, lm.mode)]
    ELSE lm
-----------------------------------------------------------------------------
(* al_eth_lm_retimer_signal_lock_check_step and the wait it starts after a *)
(* reset of the channel, al_eth_lm_wait_for_lock_step.                     *)
SignalLockCheckStep(lm, expired) ==
    IF lm.slc = "INIT"
    THEN {[lm |-> lm, rc |-> "ok", lock |-> lock] : lock \in BOOLEAN}
         \union {[lm |-> [lm EXCEPT !.slc = "IN_PROGRESS"], rc |-> "inprogress",
                  lock |-> FALSE]}
    ELSE {[lm |-> [lm EXCEPT !.slc = "INIT"], rc |-> "ok", lock |-> TRUE]}
         \union (IF expired
                 THEN {[lm |-> [lm EXCEPT !.slc = "INIT"], rc |-> "ok", lock |-> FALSE]}
                 ELSE {[lm |-> lm, rc |-> "inprogress", lock |-> FALSE]})

(* al_eth_lm_retimer_25g_rx_adaptation_step *)
RxAdaptationStep(lm, expired) ==
    IF lm.rx_adap = "RETIMER_LOCK_TO"
    THEN {[lm |-> IF s.rc = "ok" /\ s.lock
                  THEN [s.lm EXCEPT !.rx_adap = "SERDES_LOCK_DELAY"] ELSE s.lm,
           rc |-> IF s.rc = "ok" /\ ~s.lock THEN "error" ELSE "inprogress"] :
          s \in SignalLockCheckStep(lm, expired)}
    ELSE IF expired THEN {[lm |-> [lm EXCEPT !.rx_adap = "RETIMER_LOCK_TO"], rc |-> "ok"]}
                    ELSE {[lm |-> lm, rc |-> "inprogress"]}
-----------------------------------------------------------------------------
Detected(lm, old, new, fault, rc) ==
    [lm |-> lm, old |-> old, new |-> new, fault |-> fault, rc |-> rc]

(* al_eth_lm_link_state_check_for_detection: what is known of the link     *)
(* before the module is looked at.  done: detection has nothing to do.     *)
StateCheckForDetection(lm) ==
    CASE lm.link_state = "UP" ->
            {[state |-> StateOf(s), done |-> s = "up", fault |-> s # "up"] : s \in MacStatus}
      [] lm.link_state = "DOWN_RF" ->
            {[state |-> StateOf(s), done |-> s # "local_fault", fault |-> TRUE] :
                s \in MacStatus}
      [] lm.link_state = "DOWN" -> {[state |-> "DOWN", done |-> FALSE, fault |-> TRUE]}

(* The module has been read, and m is the mode it asks for. *)
ModuleSeen(b, lm, m) ==
    IF m = Disconnected /\ b.sfp_detection /\ b.auto_fec
    THEN [lm EXCEPT !.mode = m, !.auto_fec_state = "INIT", !.link_prev_up = FALSE]
    ELSE [lm EXCEPT !.mode = m]

(* A new mode on a board with a retimer: serdes parameters, retimer        *)
(* configuration, which may fail on i2c after the mode has been recorded.  *)
RetimerConfigured(b, lm) ==
    al_eth_serdes_static_tx_params_set(b, [lm EXCEPT !.tx_param_dirty = TRUE])

(* LM_STEP_DETECTION_INIT, once the link is known to be down *)
DetectModule(b, lm) ==
    LET old == lm.mode
        modes == IF b.sfp_detection THEN al_eth_module_detect(b, lm) ELSE {b.default_mode}
        Seen(m) == ModuleSeen(b, lm, m)
        Ready(m) == IF b.retimer /\ m # Disconnected /\ m # old
                    THEN RetimerConfigured(b, Seen(m)) ELSE Seen(m)
        Then(m) == IF b.retimer /\ m # Disconnected /\ b.speed_detection
                   THEN "RX_ADAPT_WAIT" ELSE "FINAL"
    IN  {Detected([Ready(m) EXCEPT !.detection = Then(m)], old, m, TRUE, "inprogress") :
            m \in modes}
        \union {Detected(Ready(m), old, m, TRUE, "error") :
                   m \in {x \in modes : b.retimer /\ x # Disconnected /\ x # old}}
        \union (IF b.sfp_detection /\ ModuleDetectFails(b)
                THEN {Detected(lm, old, old, TRUE, "error")} ELSE {})

(* LM_STEP_DETECTION_INIT *)
DetectionInit(b, lm) ==
    UNION {LET known == [lm EXCEPT !.link_state = c.state]
           IN  IF c.done THEN {Detected(known, lm.mode, lm.mode, c.fault, "ok")}
               ELSE IF c.state = "DOWN" THEN DetectModule(b, known)
               ELSE {Detected([known EXCEPT !.detection = "FINAL"], lm.mode, lm.mode, TRUE,
                              "inprogress")} :
           c \in StateCheckForDetection(lm)}

(* The speed the retimer has locked to decides between 10G and 25G. *)
SpeedDetected(lm, m) ==
    [lm EXCEPT !.mode = m,
               !.speed_change = @ \/ ((m = "25G") # (lm.last_detected_mode = "25G")),
               !.last_detected_mode = m, !.detection = "INIT"]

(* LM_STEP_DETECTION_RETIMER_RX_ADAPT_WAIT, ..._POST and FINAL *)
DetectionAdapt(lm, old, new, expired) ==
    UNION {CASE r.rc = "inprogress" -> {Detected(r.lm, old, new, TRUE, "inprogress")}
             [] r.rc = "error" ->
                   {Detected([r.lm EXCEPT !.detection = "INIT",
                                          !.last_detected_mode = lm.mode],
                             old, new, TRUE, "ok")}
             [] r.rc = "ok" -> {Detected(SpeedDetected(r.lm, m), old, m, TRUE, "ok") :
                                   m \in {"10G_DA", "25G"}} :
           r \in RxAdaptationStep(lm, expired)}

al_eth_lm_link_detection_step(b, lm, old, new, expired) ==
    CASE lm.detection = "INIT" -> DetectionInit(b, lm)
      [] lm.detection = "RX_ADAPT_WAIT" -> DetectionAdapt(lm, old, new, expired)
      [] lm.detection = "FINAL" ->
            {Detected([lm EXCEPT !.detection = "INIT"], old, new, TRUE, "ok")}
-----------------------------------------------------------------------------
Established(lm, link_up, rc) == [lm |-> lm, link_up |-> link_up, rc |-> rc]
Again(lm, state) == {Established([lm EXCEPT !.establish = state], FALSE, "inprogress")}
Failed(lm) == {Established([lm EXCEPT !.establish = "INIT"], FALSE, "error")}

(* al_eth_lm_check_for_link ends an attempt: up, remote fault or failed. *)
CheckForLink(lm) ==
    {Established([lm EXCEPT !.link_state = StateOf(s), !.establish = "INIT"], s = "up",
                 IF s = "local_fault" THEN "error" ELSE "ok") : s \in MacStatus}

(* Mutant: al_eth_lm_auto_fec_init only after the module was replaced. *)
FecConfig_only_new(b, lm) ==
    IF lm.mode = "25G" /\ b.auto_fec
    THEN IF lm.auto_fec_state = "INIT" /\ lm.link_prev_up
         THEN [lm EXCEPT !.auto_fec_state = "INIT_ENABLED", !.fec = TRUE] ELSE lm
    ELSE [lm EXCEPT !.fec = lm.mode = "25G" /\ b.kr_fec_enable]

(* al_eth_lm_fec_config: without automatic FEC a 25G link goes by the      *)
(* kr_fec_enable of the board, kept as local_adv.fec_capability            *)
FecConfig(b, lm) ==
    IF lm.mode = "25G" /\ b.auto_fec
    THEN IF lm.auto_fec_state = "INIT"
         THEN [lm EXCEPT !.auto_fec_state = "INIT_ENABLED", !.fec = TRUE] ELSE lm
    ELSE [lm EXCEPT !.fec = lm.mode = "25G" /\ b.kr_fec_enable]

(* Automatic FEC after an attempt with a retimer: a link that came up ends *)
(* the initial cycle; one that has just gone down keeps its state; one     *)
(* that stays down is toggled when its time has come.                      *)
AutoFec(r, toggle) ==
    LET st == r.lm.auto_fec_state
    IN  IF r.rc = "ok"
        THEN [r EXCEPT !.lm.auto_fec_state = IF st = "INIT_ENABLED" THEN "ENABLED" ELSE st,
                       !.lm.link_prev_up = TRUE]
        ELSE IF r.lm.link_prev_up THEN [r EXCEPT !.lm.link_prev_up = FALSE]
        ELSE IF ~toggle THEN r
        ELSE CASE st \in {"INIT_ENABLED", "ENABLED"} ->
                    [r EXCEPT !.lm.auto_fec_state = "DISABLED", !.lm.fec = FALSE]
               [] st = "DISABLED" ->
                    [r EXCEPT !.lm.auto_fec_state = "ENABLED", !.lm.fec = TRUE]
               [] st = "INIT" -> [r EXCEPT !.rc = "invalid_fec_state"]

(* LM_STEP_ESTABLISH_RETIMER_EXISTS_LINK_STATUS_DELAY *)
EstablishStatus(b, lm) ==
    {IF lm.mode = "25G" /\ b.auto_fec THEN AutoFec(r, toggle) ELSE r :
        r \in CheckForLink(lm), toggle \in BOOLEAN}

(* LM_STEP_ESTABLISH_RETIMER_SIGNAL_LOCK_CHECK, with the gearbox reset     *)
(* that a change of speed calls for                                        *)
EstablishLockCheck(lm, expired) ==
    UNION {IF s.rc = "inprogress" THEN Again(s.lm, "SIGNAL_LOCK_CHECK")
           ELSE IF ~s.lock THEN Failed(s.lm)
           ELSE Again([s.lm EXCEPT !.speed_change = FALSE], "RX_ADAPT_WAIT") :
           s \in SignalLockCheckStep(lm, expired)}

(* LM_STEP_ESTABLISH_RETIMER_RX_ADAPT_WAIT and MIDDLE *)
EstablishAdapt(b, lm, expired) ==
    UNION {CASE r.rc = "inprogress" -> Again(r.lm, "RX_ADAPT_WAIT")
             [] r.rc = "error" -> Failed(r.lm)
             [] r.rc = "ok" ->
                   Failed(r.lm) \union
                   Again(IF b.serdes = "25G" /\ ~b.link_training THEN FecConfig(b, r.lm)
                                                                ELSE r.lm, "STATUS_DELAY") :
           r \in RxAdaptationStep(lm, expired)}

(* LM_STEP_ESTABLISH_FINAL, without a retimer: link training, receive      *)
(* equalisation, static values, each followed by a look at the link.       *)
EstablishFinal(b, lm) ==
    LET training == b.link_training /\ lm.mode = "10G_DA"
        trained == [lm EXCEPT !.tx_param_dirty = TRUE, !.tx_params = "trained"]
        static == al_eth_serdes_static_tx_params_set(b, IF training THEN trained ELSE lm)
    IN  CheckForLink(static)
        \union (IF training THEN {r \in CheckForLink(trained) : r.rc = "ok"} ELSE {})

al_eth_lm_link_establish_step(b, lm, expired) ==
    Failed(lm)                            \* the serdes has no signal
    \union
    (CASE lm.establish = "INIT" ->
            IF lm.link_state = "DOWN"
            THEN Again(lm, IF b.retimer THEN "SIGNAL_LOCK_CHECK" ELSE "FINAL")
            ELSE {Established(lm, lm.link_state = "UP", "ok")}
      [] lm.establish = "SIGNAL_LOCK_CHECK" -> EstablishLockCheck(lm, expired)
      [] lm.establish = "RX_ADAPT_WAIT" -> EstablishAdapt(b, lm, expired)
      [] lm.establish = "STATUS_DELAY" ->
            IF expired THEN EstablishStatus(b, lm) ELSE Again(lm, "STATUS_DELAY")
      [] lm.establish = "FINAL" -> EstablishFinal(b, lm))
=============================================================================
