---------------------------- MODULE GroupLmProofs ----------------------------
(***************************************************************************)
(* Proofs about GroupLm and LinkManager for every set of lanes and every   *)
(* board.                                                                  *)
(***************************************************************************)
EXTENDS GroupLm, TLAPS

Modes == LmModes \union {Disconnected}

(* The establish step configures the FEC. *)
FecManaged(x) == x.serdes = "25G" /\ ~x.link_training

(* What a link that is up, or up but for a remote fault, rests on *)
Rests(x, lm) ==
    /\ lm.mode # Disconnected /\ ~lm.speed_change
    /\ FecManaged(x) /\ x.retimer /\ x.auto_fec /\ lm.mode = "25G"
          => lm.auto_fec_state \in {"ENABLED", "DISABLED"}
    /\ ~x.retimer => /\ lm.tx_params # "none"
                     /\ lm.tx_param_dirty <=> lm.tx_params = "trained"

(* What the step functions leave for each other in the context: a link is  *)
(* detected or established only while it is down, and what the last step   *)
(* rests on was done by the steps before.                                  *)
Prepared(x, lm, old, new) ==
    /\ lm.link_state # "DOWN" => Rests(x, lm)
    /\ lm.mode = new
    /\ ~x.retimer => ~lm.speed_change /\ lm.detection # "RX_ADAPT_WAIT"
    /\ ~lm.tx_param_dirty => lm.tx_params \in {"da", "optic"}
    /\ lm.detection = "RX_ADAPT_WAIT" => lm.link_state = "DOWN"
    /\ lm.detection = "FINAL" => lm.link_state # "UP" /\ (lm.link_state = "DOWN" \/ old = new)
    /\ lm.establish # "INIT" => lm.link_state = "DOWN"
    /\ lm.establish \in {"SIGNAL_LOCK_CHECK", "RX_ADAPT_WAIT", "STATUS_DELAY"} => x.retimer
    /\ lm.establish \in {"RX_ADAPT_WAIT", "STATUS_DELAY"} => ~lm.speed_change
    /\ lm.establish = "STATUS_DELAY" /\ FecManaged(x) /\ x.auto_fec /\ lm.mode = "25G"
          => lm.auto_fec_state # "INIT"
    /\ lm.establish = "FINAL" => ~x.retimer
-----------------------------------------------------------------------------
(* A step that only waits for the retimer changes nothing else. *)
Waits(lm2, lm) ==
    /\ lm2 \in LmContext
    /\ lm2.mode = lm.mode /\ lm2.link_state = lm.link_state
    /\ lm2.detection = lm.detection /\ lm2.establish = lm.establish
    /\ lm2.auto_fec_state = lm.auto_fec_state /\ lm2.speed_change = lm.speed_change
    /\ lm2.tx_param_dirty = lm.tx_param_dirty /\ lm2.tx_params = lm.tx_params

(* al_eth_lm_retimer_signal_lock_check_step *)
LEMMA LockCheckWaits ==
    ASSUME NEW lm \in LmContext, NEW expired \in BOOLEAN,
           NEW s \in SignalLockCheckStep(lm, expired)
    PROVE  Waits(s.lm, lm) /\ s.rc \in {"ok", "inprogress"} /\ s.lock \in BOOLEAN
  <1> DEFINE idle == [lm EXCEPT !.slc = "INIT"]
             busy == [lm EXCEPT !.slc = "IN_PROGRESS"]
  <1>1. Waits(lm, lm) /\ Waits(idle, lm) /\ Waits(busy, lm)
    BY DEF Waits, LmContext
  <1>2. \E m \in {lm, idle, busy}, e \in {"ok", "inprogress"}, k \in BOOLEAN :
           s = [lm |-> m, rc |-> e, lock |-> k]
    BY DEF SignalLockCheckStep
  <1> HIDE DEF idle, busy
  <1> QED BY <1>1, <1>2

(* al_eth_lm_retimer_25g_rx_adaptation_step *)
LEMMA AdaptationWaits ==
    ASSUME NEW lm \in LmContext, NEW expired \in BOOLEAN,
           NEW r \in RxAdaptationStep(lm, expired)
    PROVE  Waits(r.lm, lm) /\ r.rc \in {"ok", "inprogress", "error"}
  <1>1. CASE lm.rx_adap = "RETIMER_LOCK_TO"
    <2>1. PICK s \in SignalLockCheckStep(lm, expired) :
             r = [lm |-> IF s.rc = "ok" /\ s.lock
                         THEN [s.lm EXCEPT !.rx_adap = "SERDES_LOCK_DELAY"] ELSE s.lm,
                  rc |-> IF s.rc = "ok" /\ ~s.lock THEN "error" ELSE "inprogress"]
      BY <1>1 DEF RxAdaptationStep
    <2>2. Waits(s.lm, lm)
      BY LockCheckWaits
    <2>3. Waits([s.lm EXCEPT !.rx_adap = "SERDES_LOCK_DELAY"], lm)
      BY <2>2 DEF Waits, LmContext
    <2>4. /\ r.lm \in {s.lm, [s.lm EXCEPT !.rx_adap = "SERDES_LOCK_DELAY"]}
          /\ r.rc \in {"inprogress", "error"}
      BY <2>1
    <2> QED BY <2>2, <2>3, <2>4
  <1>2. CASE lm.rx_adap # "RETIMER_LOCK_TO"
    <2>1. /\ r.lm \in {lm, [lm EXCEPT !.rx_adap = "RETIMER_LOCK_TO"]}
          /\ r.rc \in {"ok", "inprogress"}
      BY <1>2 DEF RxAdaptationStep
    <2>2. Waits(lm, lm) /\ Waits([lm EXCEPT !.rx_adap = "RETIMER_LOCK_TO"], lm)
      BY DEF Waits, LmContext
    <2> QED BY <2>1, <2>2
  <1> QED BY <1>1, <1>2
-----------------------------------------------------------------------------
(* What an establish step leaves *)
EstablishResult(x, lm, old, new, r) ==
    /\ r.lm \in LmContext /\ r.link_up \in BOOLEAN
    /\ r.rc \in {"ok", "inprogress", "error", "invalid_fec_state"}
    /\ Prepared(x, r.lm, old, new)
    /\ r.lm.detection = "INIT"
    /\ r.rc # "inprogress" => r.lm.establish = "INIT"
    /\ r.rc = "inprogress" => r.lm.link_state = lm.link_state
    /\ FecManaged(x) => r.rc # "invalid_fec_state"

(* The attempt goes on at a state, ... *)
LEMMA AgainResult ==
    ASSUME NEW x \in Board, NEW lm \in LmContext, NEW old, NEW new, Prepared(x, lm, old, new),
           lm.detection = "INIT", lm.link_state = "DOWN",
           NEW st \in {"SIGNAL_LOCK_CHECK", "RX_ADAPT_WAIT", "STATUS_DELAY", "FINAL"},
           (st = "FINAL") <=> ~x.retimer,
           st \in {"RX_ADAPT_WAIT", "STATUS_DELAY"} => ~lm.speed_change,
           st = "STATUS_DELAY" /\ FecManaged(x) /\ x.auto_fec /\ lm.mode = "25G"
              => lm.auto_fec_state # "INIT",
           NEW r \in Again(lm, st)
    PROVE  EstablishResult(x, lm, old, new, r)
  <1> DEFINE q == [lm EXCEPT !.establish = st]
  <1>1. r = [lm |-> q, link_up |-> FALSE, rc |-> "inprogress"]
    BY DEF Again, Established
  <1>2. /\ q \in LmContext
        /\ q.mode = lm.mode /\ q.link_state = lm.link_state
        /\ q.detection = lm.detection /\ q.establish = st
        /\ q.auto_fec_state = lm.auto_fec_state /\ q.speed_change = lm.speed_change
        /\ q.tx_param_dirty = lm.tx_param_dirty /\ q.tx_params = lm.tx_params
    BY DEF LmContext
  <1> HIDE DEF q
  <1>3. r.lm = q /\ r.rc = "inprogress" /\ r.link_up = FALSE
    BY <1>1
  <1>4. Prepared(x, q, old, new)
    BY <1>2 DEF Prepared
  <1> QED BY <1>2, <1>3, <1>4 DEF EstablishResult

(* ... or it has failed ... *)
LEMMA FailedResult ==
    ASSUME NEW x \in Board, NEW lm \in LmContext, NEW old, NEW new, Prepared(x, lm, old, new),
           lm.detection = "INIT", NEW r \in Failed(lm)
    PROVE  EstablishResult(x, lm, old, new, r)
  <1> DEFINE q == [lm EXCEPT !.establish = "INIT"]
  <1>1. r = [lm |-> q, link_up |-> FALSE, rc |-> "error"]
    BY DEF Failed, Established
  <1>2. /\ q \in LmContext
        /\ q.mode = lm.mode /\ q.link_state = lm.link_state
        /\ q.detection = lm.detection /\ q.establish = "INIT"
        /\ q.auto_fec_state = lm.auto_fec_state /\ q.speed_change = lm.speed_change
        /\ q.tx_param_dirty = lm.tx_param_dirty /\ q.tx_params = lm.tx_params
    BY DEF LmContext
  <1> HIDE DEF q
  <1>3. r.lm = q /\ r.rc = "error" /\ r.link_up = FALSE
    BY <1>1
  <1>4. Prepared(x, q, old, new)
    BY <1>2 DEF Prepared, Rests
  <1> QED BY <1>2, <1>3, <1>4 DEF EstablishResult

(* ... or the link is looked at. *)
LEMMA LinkSeen ==
    ASSUME NEW lm \in LmContext, NEW r \in CheckForLink(lm)
    PROVE  \E q, s, e, u : /\ r = [lm |-> q, link_up |-> u, rc |-> e]
                           /\ u \in BOOLEAN /\ e \in {"ok", "error"}
                           /\ q \in LmContext
                           /\ q.mode = lm.mode /\ q.link_state = s
                           /\ q.detection = lm.detection /\ q.establish = "INIT"
                           /\ q.auto_fec_state = lm.auto_fec_state
                           /\ q.speed_change = lm.speed_change
                           /\ q.tx_param_dirty = lm.tx_param_dirty
                           /\ q.tx_params = lm.tx_params
                           /\ s \in {"UP", "DOWN", "DOWN_RF"}
                           /\ e = "ok" <=> s # "DOWN"
  <1>1. PICK t \in MacStatus :
           r = Established([lm EXCEPT !.link_state = StateOf(t), !.establish = "INIT"], t = "up",
                           IF t = "local_fault" THEN "error" ELSE "ok")
    BY DEF CheckForLink
  <1>2. PICK s \in {"UP", "DOWN", "DOWN_RF"} : s = StateOf(t) /\ (t = "local_fault" <=> s = "DOWN")
    BY DEF MacStatus, StateOf
  <1> DEFINE q == [lm EXCEPT !.link_state = s, !.establish = "INIT"]
             e == IF t = "local_fault" THEN "error" ELSE "ok"
             u == t = "up"
  <1>3. /\ q \in LmContext
        /\ q.mode = lm.mode /\ q.link_state = s
        /\ q.detection = lm.detection /\ q.establish = "INIT"
        /\ q.auto_fec_state = lm.auto_fec_state /\ q.speed_change = lm.speed_change
        /\ q.tx_param_dirty = lm.tx_param_dirty /\ q.tx_params = lm.tx_params
    BY DEF LmContext
  <1>4. r = [lm |-> q, link_up |-> u, rc |-> e]
    BY <1>1, <1>2 DEF Established
  <1>5. u \in BOOLEAN /\ e \in {"ok", "error"} /\ (e = "ok" <=> s # "DOWN")
    BY <1>2
  <1> HIDE DEF q, e, u
  <1> QED BY <1>3, <1>4, <1>5

(* q differs from m in the FEC only, and f is its automatic state. *)
FecOnly(q, m, f) ==
    /\ q \in LmContext
    /\ q.mode = m.mode /\ q.link_state = m.link_state
    /\ q.detection = m.detection /\ q.establish = m.establish
    /\ q.speed_change = m.speed_change
    /\ q.tx_param_dirty = m.tx_param_dirty /\ q.tx_params = m.tx_params
    /\ q.auto_fec_state = f

(* Steps of the automatic FEC *)
LEMMA FecChanges ==
    ASSUME NEW m \in LmContext, NEW g \in BOOLEAN,
           NEW f \in {"INIT", "INIT_ENABLED", "ENABLED", "DISABLED"}
    PROVE  /\ FecOnly([m EXCEPT !.auto_fec_state = f, !.fec = g], m, f)
           /\ FecOnly([m EXCEPT !.auto_fec_state = f, !.link_prev_up = g], m, f)
           /\ FecOnly([m EXCEPT !.link_prev_up = g], m, m.auto_fec_state)
           /\ FecOnly([m EXCEPT !.fec = g], m, m.auto_fec_state)
  <1>1. FecOnly([m EXCEPT !.auto_fec_state = f, !.fec = g], m, f)
    BY ZenonT(60) DEF FecOnly, LmContext
  <1>2. FecOnly([m EXCEPT !.auto_fec_state = f, !.link_prev_up = g], m, f)
    BY ZenonT(60) DEF FecOnly, LmContext
  <1>3. FecOnly([m EXCEPT !.link_prev_up = g], m, m.auto_fec_state)
    BY DEF FecOnly, LmContext
  <1>4. FecOnly([m EXCEPT !.fec = g], m, m.auto_fec_state)
    BY DEF FecOnly, LmContext
  <1> QED BY <1>1, <1>2, <1>3, <1>4

(* LM_STEP_ESTABLISH_FINAL: training and the static parameters *)
LEMMA FinalResult ==
    ASSUME NEW x \in Board, NEW lm \in LmContext, NEW old, NEW new, Prepared(x, lm, old, new),
           lm.detection = "INIT", lm.establish = "FINAL", lm.mode # Disconnected,
           NEW r \in EstablishFinal(x, lm)
    PROVE  EstablishResult(x, lm, old, new, r)
  <1> DEFINE trained == [lm EXCEPT !.tx_param_dirty = TRUE, !.tx_params = "trained"]
             set(m) == [m EXCEPT !.tx_param_dirty = FALSE,
                                 !.tx_params = StaticTxParams(x, m.mode)]
             Sound(m) == /\ m \in LmContext /\ m.mode = lm.mode /\ m.detection = "INIT"
                         /\ m.speed_change = lm.speed_change
                         /\ m.auto_fec_state = lm.auto_fec_state
                         /\ m.tx_params # "none"
                         /\ m.tx_param_dirty \in BOOLEAN
                         /\ m.tx_param_dirty <=> m.tx_params = "trained"
  <1>0. lm.mode \in LmModes /\ lm.tx_param_dirty \in BOOLEAN
    BY DEF LmContext
  <1>1. StaticTxParams(x, lm.mode) \in {"da", "optic"}
    BY DEF StaticTxParams
  <1>2. Sound(trained) /\ trained.mode = lm.mode /\ trained.tx_param_dirty
    BY DEF LmContext
  <1>3. Sound(set(lm))
    BY <1>1, ZenonT(60) DEF LmContext
  <1>4. Sound(set(trained))
    BY <1>1, ZenonT(60) DEF LmContext
  <1>5. ~lm.tx_param_dirty => Sound(lm)
    BY DEF Prepared, LmContext
  <1>6. \E m : Sound(m) /\ r \in CheckForLink(m)
    <2>1. al_eth_serdes_static_tx_params_set(x, lm) = IF lm.tx_param_dirty THEN set(lm) ELSE lm
      BY DEF al_eth_serdes_static_tx_params_set
    <2>2. al_eth_serdes_static_tx_params_set(x, trained) = set(trained)
      BY <1>2 DEF al_eth_serdes_static_tx_params_set
    <2>3. \/ r \in CheckForLink(trained)
          \/ r \in CheckForLink(al_eth_serdes_static_tx_params_set(x, trained))
          \/ r \in CheckForLink(al_eth_serdes_static_tx_params_set(x, lm))
      BY DEF EstablishFinal
    <2> HIDE DEF trained, set, Sound
    <2> QED BY <1>2, <1>3, <1>4, <1>5, <2>1, <2>2, <2>3
  <1>7. PICK m : Sound(m) /\ r \in CheckForLink(m)
    BY <1>6
  <1>8. PICK q, s, e, u : /\ r = [lm |-> q, link_up |-> u, rc |-> e]
                          /\ u \in BOOLEAN /\ e \in {"ok", "error"}
                          /\ q \in LmContext
                          /\ q.mode = m.mode /\ q.link_state = s
                          /\ q.detection = m.detection /\ q.establish = "INIT"
                          /\ q.auto_fec_state = m.auto_fec_state
                          /\ q.speed_change = m.speed_change
                          /\ q.tx_param_dirty = m.tx_param_dirty
                          /\ q.tx_params = m.tx_params
                          /\ s \in {"UP", "DOWN", "DOWN_RF"}
                          /\ (e = "ok" <=> s # "DOWN")
    BY <1>7, LinkSeen
  <1>9. /\ ~x.retimer /\ ~lm.speed_change /\ lm.mode = new
        /\ lm.auto_fec_state \in {"INIT", "INIT_ENABLED", "ENABLED", "DISABLED"}
    BY DEF Prepared, LmContext
  <1>10. Rests(x, q)
    BY <1>7, <1>8, <1>9 DEF Rests
  <1>11. m.tx_params \in {"none", "da", "optic", "trained"}
    BY <1>7 DEF LmContext
  <1>12. Prepared(x, q, old, new)
    BY <1>7, <1>8, <1>9, <1>10, <1>11 DEF Prepared
  <1>13. r.lm = q /\ r.rc = e /\ r.link_up = u
    BY <1>8
  <1> QED BY <1>7, <1>8, <1>12, <1>13 DEF EstablishResult

(* LM_STEP_ESTABLISH_RETIMER_EXISTS_LINK_STATUS_DELAY: the FEC was         *)
(* configured on the way here.                                             *)
LEMMA StatusResult ==
    ASSUME NEW x \in Board, NEW lm \in LmContext, NEW old, NEW new, Prepared(x, lm, old, new),
           lm.detection = "INIT", lm.establish = "STATUS_DELAY", lm.mode # Disconnected,
           NEW r \in EstablishStatus(x, lm)
    PROVE  EstablishResult(x, lm, old, new, r)
  <1>1. PICK c \in CheckForLink(lm), toggle \in BOOLEAN :
           r = IF lm.mode = "25G" /\ x.auto_fec THEN AutoFec(c, toggle) ELSE c
    BY DEF EstablishStatus
  <1>2. PICK q, s, e, u : /\ c = [lm |-> q, link_up |-> u, rc |-> e]
                          /\ u \in BOOLEAN /\ e \in {"ok", "error"}
                          /\ q \in LmContext
                          /\ q.mode = lm.mode /\ q.link_state = s
                          /\ q.detection = lm.detection /\ q.establish = "INIT"
                          /\ q.auto_fec_state = lm.auto_fec_state
                          /\ q.speed_change = lm.speed_change
                          /\ q.tx_param_dirty = lm.tx_param_dirty
                          /\ q.tx_params = lm.tx_params
                          /\ s \in {"UP", "DOWN", "DOWN_RF"}
                          /\ (e = "ok" <=> s # "DOWN")
    BY LinkSeen
  <1>3. /\ x.retimer /\ ~lm.speed_change /\ lm.mode = new
        /\ (FecManaged(x) /\ x.auto_fec /\ lm.mode = "25G" => lm.auto_fec_state # "INIT")
        /\ (~lm.tx_param_dirty => lm.tx_params \in {"da", "optic"})
        /\ lm.auto_fec_state \in {"INIT", "INIT_ENABLED", "ENABLED", "DISABLED"}
    BY DEF Prepared, LmContext
  <1> DEFINE st == lm.auto_fec_state
             Fec(f) == f \in {"INIT", "INIT_ENABLED", "ENABLED", "DISABLED"}
             Of(f) == /\ r.lm \in LmContext
                      /\ r.lm.mode = lm.mode /\ r.lm.link_state = s
                      /\ r.lm.detection = lm.detection /\ r.lm.establish = "INIT"
                      /\ r.lm.auto_fec_state = f
                      /\ r.lm.speed_change = lm.speed_change
                      /\ r.lm.tx_param_dirty = lm.tx_param_dirty
                      /\ r.lm.tx_params = lm.tx_params
                      /\ r.link_up \in BOOLEAN
  <1>4. /\ Of(r.lm.auto_fec_state)
        /\ r.rc \in {"ok", "error", "invalid_fec_state"}
        /\ r.rc = "ok" <=> s # "DOWN"
        /\ r.rc = "invalid_fec_state" => st = "INIT" /\ lm.mode = "25G" /\ x.auto_fec
        /\ s # "DOWN" /\ lm.mode = "25G" /\ x.auto_fec
              => r.lm.auto_fec_state = IF st = "INIT_ENABLED" THEN "ENABLED" ELSE st
    <2>1. CASE ~(lm.mode = "25G" /\ x.auto_fec)
      BY <1>1, <1>2, <2>1
    <2>2. CASE lm.mode = "25G" /\ x.auto_fec
      <3>1. r = AutoFec(c, toggle)
        BY <1>1, <2>2
      <3>2. c.lm = q /\ c.rc = e /\ c.link_up = u
        BY <1>2
      <3>3. CASE e = "ok"
        <4> DEFINE f == IF st = "INIT_ENABLED" THEN "ENABLED" ELSE st
        <4>1. r = [c EXCEPT !.lm.auto_fec_state = f, !.lm.link_prev_up = TRUE]
          BY <1>2, <3>1, <3>2, <3>3, ZenonT(60) DEF AutoFec
        <4>2. /\ r.rc = e /\ r.link_up = u
              /\ r.lm = [q EXCEPT !.auto_fec_state = f, !.link_prev_up = TRUE]
          BY <1>2, <4>1
        <4>3. f \in {"INIT", "INIT_ENABLED", "ENABLED", "DISABLED"}
          BY <1>3
        <4> HIDE DEF f
        <4>4. FecOnly(r.lm, q, f)
          BY <1>2, <4>2, <4>3, FecChanges, ZenonT(60)
        <4>5. Of(f)
          BY <1>2, <4>2, <4>4 DEF FecOnly
        <4> QED BY <1>2, <3>3, <4>2, <4>5 DEF f
      <3>4. CASE e = "error" /\ q.link_prev_up
        <4>1. r = [c EXCEPT !.lm.link_prev_up = FALSE]
          BY <3>1, <3>2, <3>4 DEF AutoFec
        <4>2. /\ r.rc = e /\ r.link_up = u
              /\ r.lm = [q EXCEPT !.link_prev_up = FALSE]
          BY <1>2, <4>1
        <4>3. FecOnly(r.lm, q, st)
          BY <1>2, <1>3, <4>2, FecChanges
        <4>4. Of(st)
          BY <1>2, <4>2, <4>3 DEF FecOnly
        <4> QED BY <1>2, <3>4, <4>2, <4>4
      <3>5. CASE e = "error" /\ ~q.link_prev_up /\ ~toggle
        <4>1. r = c
          BY <3>1, <3>2, <3>5 DEF AutoFec
        <4> QED BY <1>2, <3>5, <4>1
      <3>6. CASE e = "error" /\ ~q.link_prev_up /\ toggle /\ st # "INIT"
        <4>1. PICK f \in {"ENABLED", "DISABLED"}, g \in BOOLEAN :
                 r = [c EXCEPT !.lm.auto_fec_state = f, !.lm.fec = g]
          BY <1>2, <1>3, <3>1, <3>2, <3>6 DEF AutoFec
        <4>2. /\ r.rc = e /\ r.link_up = u
              /\ r.lm = [q EXCEPT !.auto_fec_state = f, !.fec = g]
          BY <1>2, <4>1
        <4>3. FecOnly(r.lm, q, f)
          <5>1. f \in {"INIT", "INIT_ENABLED", "ENABLED", "DISABLED"}
            OBVIOUS
          <5>2. q \in LmContext
            BY <1>2
          <5>3. FecOnly([q EXCEPT !.auto_fec_state = f, !.fec = g], q, f)
            BY <5>1, <5>2, FecChanges
          <5> QED BY <4>2, <5>3
        <4>4. Of(f)
          BY <1>2, <4>2, <4>3 DEF FecOnly
        <4> QED BY <1>2, <3>6, <4>2, <4>4
      <3>7. CASE e = "error" /\ ~q.link_prev_up /\ toggle /\ st = "INIT"
        <4>1. r = [c EXCEPT !.rc = "invalid_fec_state"]
          BY <1>2, <3>1, <3>2, <3>7 DEF AutoFec
        <4>2. r.rc = "invalid_fec_state" /\ r.link_up = u /\ r.lm = q
          BY <1>2, <4>1
        <4>3. Of(st)
          BY <1>2, <4>2
        <4> QED BY <1>2, <2>2, <3>7, <4>2, <4>3
      <3> QED BY <1>2, <3>3, <3>4, <3>5, <3>6, <3>7
    <2> QED BY <2>1, <2>2
  <1>5. s # "DOWN" => Rests(x, r.lm)
    BY <1>3, <1>4 DEF Rests
  <1>6. Prepared(x, r.lm, old, new)
    BY <1>2, <1>3, <1>4, <1>5 DEF Prepared
  <1> QED BY <1>3, <1>4, <1>6 DEF EstablishResult

(* al_eth_lm_link_establish_step *)
LEMMA EstablishStep ==
    ASSUME NEW x \in Board, NEW lm \in LmContext, NEW old, NEW new, Prepared(x, lm, old, new),
           lm.detection = "INIT", lm.mode # Disconnected, NEW expired \in BOOLEAN,
           NEW r \in al_eth_lm_link_establish_step(x, lm, expired)
    PROVE  EstablishResult(x, lm, old, new, r)
  <1>0. /\ lm.establish \in {"INIT", "SIGNAL_LOCK_CHECK", "RX_ADAPT_WAIT", "STATUS_DELAY", "FINAL"}
        /\ lm.link_state \in {"UP", "DOWN", "DOWN_RF"} /\ x.retimer \in BOOLEAN
    BY DEF LmContext, Board
  <1>1. ASSUME r \in Failed(lm) PROVE EstablishResult(x, lm, old, new, r)
    BY <1>1, FailedResult
  <1>2. CASE lm.establish = "INIT"
    <2>1. CASE lm.link_state = "DOWN"
      <3>1. \/ r \in Failed(lm)
            \/ r \in Again(lm, IF x.retimer THEN "SIGNAL_LOCK_CHECK" ELSE "FINAL")
        BY <1>2, <2>1 DEF al_eth_lm_link_establish_step
      <3>2. CASE x.retimer
        BY <1>1, <2>1, <3>1, <3>2, AgainResult
      <3>3. CASE ~x.retimer
        BY <1>1, <2>1, <3>1, <3>3, AgainResult
      <3> QED BY <3>2, <3>3
    <2>2. CASE lm.link_state # "DOWN"
      <3>1. r \in Failed(lm) \/ r = Established(lm, lm.link_state = "UP", "ok")
        BY <1>2, <2>2 DEF al_eth_lm_link_establish_step
      <3>2. ASSUME r = Established(lm, lm.link_state = "UP", "ok")
            PROVE  EstablishResult(x, lm, old, new, r)
        BY <1>2, <3>2 DEF EstablishResult, Established
      <3> QED BY <1>1, <3>1, <3>2
    <2> QED BY <2>1, <2>2
  <1>3. CASE lm.establish = "SIGNAL_LOCK_CHECK"
    <2>0. lm.link_state = "DOWN" /\ x.retimer
      BY <1>3 DEF Prepared
    <2>1. r \in Failed(lm) \/ r \in EstablishLockCheck(lm, expired)
      BY <1>3 DEF al_eth_lm_link_establish_step
    <2>2. ASSUME r \in EstablishLockCheck(lm, expired)
          PROVE  EstablishResult(x, lm, old, new, r)
      <3>1. PICK s \in SignalLockCheckStep(lm, expired) :
               \/ r \in Again(s.lm, "SIGNAL_LOCK_CHECK")
               \/ r \in Failed(s.lm)
               \/ r \in Again([s.lm EXCEPT !.speed_change = FALSE], "RX_ADAPT_WAIT")
        BY <2>2 DEF EstablishLockCheck
      <3> DEFINE m == s.lm
                 n == [m EXCEPT !.speed_change = FALSE]
      <3>2. Waits(m, lm)
        BY LockCheckWaits
      <3>3. Waits([n EXCEPT !.speed_change = lm.speed_change], lm)
            /\ n.speed_change = FALSE /\ n \in LmContext
            /\ n.mode = lm.mode /\ n.link_state = lm.link_state
            /\ n.detection = lm.detection /\ n.establish = lm.establish
            /\ n.auto_fec_state = lm.auto_fec_state
            /\ n.tx_param_dirty = lm.tx_param_dirty /\ n.tx_params = lm.tx_params
        BY <3>2 DEF Waits, LmContext
      <3> HIDE DEF m, n
      <3>4. m \in LmContext /\ Prepared(x, m, old, new)
        BY <3>2 DEF Waits, Prepared, Rests
      <3>5. Prepared(x, n, old, new)
        BY <2>0, <3>3 DEF Prepared
      <3>6. CASE r \in Again(m, "SIGNAL_LOCK_CHECK")
        <4>1. EstablishResult(x, m, old, new, r)
          BY <2>0, <3>2, <3>4, <3>6, AgainResult DEF Waits
        <4> QED BY <3>2, <4>1 DEF Waits, EstablishResult
      <3>7. CASE r \in Failed(m)
        <4>1. EstablishResult(x, m, old, new, r)
          BY <3>2, <3>4, <3>7, FailedResult DEF Waits
        <4> QED BY <3>2, <4>1 DEF Waits, EstablishResult
      <3>8. CASE r \in Again(n, "RX_ADAPT_WAIT")
        <4>1. EstablishResult(x, n, old, new, r)
          BY <2>0, <3>3, <3>5, <3>8, AgainResult
        <4> QED BY <3>3, <4>1 DEF EstablishResult
      <3> QED BY <3>1, <3>6, <3>7, <3>8 DEF m, n
    <2> QED BY <1>1, <2>1, <2>2
  <1>4. CASE lm.establish = "RX_ADAPT_WAIT"
    <2>0. lm.link_state = "DOWN" /\ x.retimer /\ ~lm.speed_change
      BY <1>4 DEF Prepared
    <2>1. r \in Failed(lm) \/ r \in EstablishAdapt(x, lm, expired)
      BY <1>4 DEF al_eth_lm_link_establish_step
    <2>2. ASSUME r \in EstablishAdapt(x, lm, expired)
          PROVE  EstablishResult(x, lm, old, new, r)
      <3>1. PICK a \in RxAdaptationStep(lm, expired) :
               r \in CASE a.rc = "inprogress" -> Again(a.lm, "RX_ADAPT_WAIT")
                       [] a.rc = "error" -> Failed(a.lm)
                       [] a.rc = "ok" ->
                             Failed(a.lm) \union
                             Again(IF x.serdes = "25G" /\ ~x.link_training
                                   THEN FecConfig(x, a.lm) ELSE a.lm, "STATUS_DELAY")
        BY <2>2 DEF EstablishAdapt
      <3> DEFINE m == a.lm
                 n == IF x.serdes = "25G" /\ ~x.link_training THEN FecConfig(x, m) ELSE m
      <3>2. Waits(m, lm) /\ a.rc \in {"ok", "inprogress", "error"}
        BY AdaptationWaits
      <3>3. \/ r \in Again(m, "RX_ADAPT_WAIT")
            \/ r \in Failed(m)
            \/ r \in Again(n, "STATUS_DELAY")
        BY <3>1, <3>2
      <3>4. /\ n \in LmContext
            /\ n.mode = m.mode /\ n.link_state = m.link_state
            /\ n.detection = m.detection /\ n.establish = m.establish
            /\ n.speed_change = m.speed_change
            /\ n.tx_param_dirty = m.tx_param_dirty /\ n.tx_params = m.tx_params
            /\ FecManaged(x) /\ x.auto_fec /\ n.mode = "25G" => n.auto_fec_state # "INIT"
        <4> DEFINE on == [m EXCEPT !.auto_fec_state = "INIT_ENABLED", !.fec = TRUE]
                   off == [m EXCEPT !.fec = m.mode = "25G" /\ x.kr_fec_enable]
        <4>0. m \in LmContext
          BY <3>2 DEF Waits
        <4> HIDE DEF m
        <4>1. FecOnly(on, m, "INIT_ENABLED") /\ FecOnly(off, m, m.auto_fec_state)
          BY <4>0, FecChanges
        <4>2. n = IF ~FecManaged(x) THEN m
                  ELSE IF m.mode = "25G" /\ x.auto_fec
                       THEN IF m.auto_fec_state = "INIT" THEN on ELSE m
                       ELSE off
          BY DEF FecConfig, FecManaged
        <4> HIDE DEF on, off, n
        <4> QED BY <4>0, <4>1, <4>2 DEF FecOnly
      <3> HIDE DEF m, n
      <3>5. m \in LmContext /\ Prepared(x, m, old, new)
        BY <3>2 DEF Waits, Prepared, Rests
      <3>6. Prepared(x, n, old, new)
        BY <1>4, <2>0, <3>2, <3>4, <3>5 DEF Prepared, Waits
      <3>7. CASE r \in Again(m, "RX_ADAPT_WAIT")
        <4>1. EstablishResult(x, m, old, new, r)
          BY <2>0, <3>2, <3>5, <3>7, AgainResult DEF Waits
        <4> QED BY <3>2, <4>1 DEF Waits, EstablishResult
      <3>8. CASE r \in Failed(m)
        <4>1. EstablishResult(x, m, old, new, r)
          BY <3>2, <3>5, <3>8, FailedResult DEF Waits
        <4> QED BY <3>2, <4>1 DEF Waits, EstablishResult
      <3>9. CASE r \in Again(n, "STATUS_DELAY")
        <4>1. n.detection = "INIT" /\ n.link_state = "DOWN" /\ ~n.speed_change
          BY <2>0, <3>2, <3>4 DEF Waits
        <4>2. EstablishResult(x, n, old, new, r)
          BY <2>0, <3>4, <3>6, <3>9, <4>1, AgainResult
        <4> QED BY <2>0, <4>1, <4>2 DEF EstablishResult
      <3> QED BY <3>3, <3>7, <3>8, <3>9
    <2> QED BY <1>1, <2>1, <2>2
  <1>5. CASE lm.establish = "STATUS_DELAY"
    <2>1. /\ lm.link_state = "DOWN" /\ x.retimer /\ ~lm.speed_change
          /\ (FecManaged(x) /\ x.auto_fec /\ lm.mode = "25G" => lm.auto_fec_state # "INIT")
      BY <1>5 DEF Prepared
    <2>2. r \in Failed(lm) \/ r \in EstablishStatus(x, lm) \/ r \in Again(lm, "STATUS_DELAY")
      BY <1>5 DEF al_eth_lm_link_establish_step
    <2>3. ASSUME r \in Again(lm, "STATUS_DELAY") PROVE EstablishResult(x, lm, old, new, r)
      BY <2>1, <2>3, AgainResult
    <2> QED BY <1>1, <1>5, <2>2, <2>3, StatusResult
  <1>6. CASE lm.establish = "FINAL"
    <2>1. r \in Failed(lm) \/ r \in EstablishFinal(x, lm)
      BY <1>6 DEF al_eth_lm_link_establish_step
    <2> QED BY <1>1, <1>6, <2>1, FinalResult
  <1> QED BY <1>0, <1>2, <1>3, <1>4, <1>5, <1>6
-----------------------------------------------------------------------------
(* What a detection step leaves *)
DetectionResult(x, lm, old, new, r) ==
    /\ r.lm \in LmContext /\ r.old \in Modes /\ r.new \in Modes /\ r.fault \in BOOLEAN
    /\ r.rc \in {"ok", "inprogress", "error"}
    /\ Prepared(x, r.lm, r.old, r.new)
    /\ r.lm.establish = "INIT"
    /\ r.rc # "inprogress" => r.lm.detection = "INIT"
    /\ r.lm.link_state # "DOWN" => lm.link_state # "DOWN" /\ r.old = r.new
    /\ ~r.fault => r.lm.link_state = "UP"
    /\ ~x.retimer /\ lm.detection = "INIT" =>
          /\ r.old = lm.mode
          /\ r.rc = "inprogress" => r.lm.detection = "FINAL"
          /\ r.rc = "error" => r.new = lm.mode
    /\ ~x.retimer /\ lm.detection = "FINAL" => r.old = old /\ r.new = new /\ r.rc = "ok"

(* The context while the link is down and not being established *)
Down(x, q, m) ==
    /\ q \in LmContext /\ q.mode = m
    /\ q.link_state = "DOWN" /\ q.establish = "INIT"
    /\ ~x.retimer => ~q.speed_change
    /\ ~q.tx_param_dirty => q.tx_params \in {"da", "optic"}

(* A link that is down has nothing to rest on yet. *)
LEMMA DownPrepared ==
    ASSUME NEW x \in Board, NEW q, NEW m, NEW old, Down(x, q, m),
           ~x.retimer => q.detection # "RX_ADAPT_WAIT"
    PROVE  Prepared(x, q, old, m)
  BY DEF Down, Prepared

(* The modes a module may ask for *)
LEMMA ModesFound ==
    ASSUME NEW x \in Board, NEW lm \in LmContext
    PROVE  al_eth_module_detect(x, lm) \subseteq Modes /\ x.default_mode \in Modes
  <1>1. x.default_mode \in LmModes /\ lm.mode \in Modes
    BY DEF Board, LmContext, Modes
  <1>2. SfpModes(x) \subseteq Modes /\ QsfpModes(x) \subseteq Modes
    BY <1>1 DEF SfpModes, QsfpModes, Modes, LmModes
  <1> QED BY <1>1, <1>2 DEF al_eth_module_detect, Modes

(* u differs from d in the static transmit parameters, which are a. *)
TxOnly(u, d, a) ==
    /\ u \in LmContext
    /\ u.mode = d.mode /\ u.link_state = d.link_state
    /\ u.detection = d.detection /\ u.establish = d.establish
    /\ u.speed_change = d.speed_change
    /\ u.tx_params = a

(* The transmit parameters and their mark are set, nothing else. *)
LEMMA TxChanges ==
    ASSUME NEW d \in LmContext, NEW g \in BOOLEAN, NEW a \in {"none", "da", "optic", "trained"}
    PROVE  TxOnly([d EXCEPT !.tx_param_dirty = g, !.tx_params = a], d, a)
  <1> DEFINE u == [d EXCEPT !.tx_param_dirty = g, !.tx_params = a]
  <1>1. u \in LmContext
    <2> DEFINE e == [d EXCEPT !.tx_param_dirty = g]
               v == [e EXCEPT !.tx_params = a]
    <2>1. e \in LmContext
      BY DEF LmContext
    <2> HIDE DEF e
    <2>2. v \in LmContext
      BY <2>1 DEF LmContext
    <2> QED BY <2>2 DEF e
  <1>2. /\ u.mode = d.mode /\ u.link_state = d.link_state
        /\ u.detection = d.detection /\ u.establish = d.establish
        /\ u.speed_change = d.speed_change
        /\ u.tx_params = a
    BY DEF LmContext
  <1> QED BY <1>1, <1>2 DEF TxOnly

(* Reading the module, and configuring the retimer for a new mode *)
LEMMA ModuleRead ==
    ASSUME NEW x \in Board, NEW lm \in LmContext, Down(x, lm, lm.mode), NEW m \in Modes
    PROVE  /\ Down(x, ModuleSeen(x, lm, m), m)
           /\ ModuleSeen(x, lm, m).detection = lm.detection
           /\ Down(x, RetimerConfigured(x, ModuleSeen(x, lm, m)), m)
           /\ RetimerConfigured(x, ModuleSeen(x, lm, m)).detection = lm.detection
  <1> DEFINE q == ModuleSeen(x, lm, m)
  <1>1. Down(x, q, m) /\ q.detection = lm.detection
    <2>1. CASE q = [lm EXCEPT !.mode = m]
      BY <2>1 DEF Down, LmContext, Modes
    <2>2. CASE q = [lm EXCEPT !.mode = m, !.auto_fec_state = "INIT", !.link_prev_up = FALSE]
      BY <2>2, ZenonT(60) DEF Down, LmContext, Modes
    <2> QED BY <2>1, <2>2 DEF ModuleSeen
  <1> HIDE DEF q
  <1> DEFINE d == [q EXCEPT !.tx_param_dirty = TRUE]
  <1>2. /\ d \in LmContext /\ d.mode = m /\ d.link_state = "DOWN" /\ d.establish = "INIT"
        /\ d.speed_change = q.speed_change /\ d.tx_param_dirty /\ d.detection = lm.detection
    BY <1>1 DEF Down, LmContext
  <1> HIDE DEF d
  <1> DEFINE t == [d EXCEPT !.tx_param_dirty = FALSE, !.tx_params = StaticTxParams(x, d.mode)]
  <1>3. StaticTxParams(x, d.mode) \in {"da", "optic"}
    BY DEF StaticTxParams
  <1>4. Down(x, t, m) /\ t.detection = lm.detection
    <2>1. PICK a \in {"da", "optic"} : a = StaticTxParams(x, d.mode)
      BY <1>3
    <2> DEFINE u == [d EXCEPT !.tx_param_dirty = FALSE, !.tx_params = a]
    <2>2. /\ u \in LmContext /\ u.mode = d.mode /\ u.link_state = d.link_state
          /\ u.establish = d.establish /\ u.speed_change = d.speed_change
          /\ u.tx_params = a /\ u.detection = d.detection
      <3>1. d \in LmContext /\ FALSE \in BOOLEAN /\ a \in {"none", "da", "optic", "trained"}
        BY <1>2
      <3>2. TxOnly(u, d, a)
        BY <3>1, TxChanges
      <3> HIDE DEF u
      <3> QED BY <3>2 DEF TxOnly
    <2>3. t = u
      BY <2>1
    <2> HIDE DEF t, u
    <2> QED BY <1>1, <1>2, <2>2, <2>3 DEF Down
  <1>5. RetimerConfigured(x, q) = t
    BY <1>2 DEF RetimerConfigured, al_eth_serdes_static_tx_params_set, d
  <1> HIDE DEF t
  <1> QED BY <1>1, <1>4, <1>5 DEF q

(* LM_STEP_DETECTION_INIT, the link being down *)
LEMMA DetectResult ==
    ASSUME NEW x \in Board, NEW lm \in LmContext, Down(x, lm, lm.mode), lm.detection = "INIT",
           NEW r \in DetectModule(x, lm)
    PROVE  /\ r.lm \in LmContext /\ r.old = lm.mode /\ r.new \in Modes /\ r.fault = TRUE
           /\ r.rc \in {"inprogress", "error"}
           /\ Down(x, r.lm, r.new) /\ Prepared(x, r.lm, r.old, r.new)
           /\ r.rc = "error" => r.lm.detection = "INIT"
           /\ ~x.retimer /\ r.rc = "inprogress" => r.lm.detection = "FINAL"
           /\ ~x.retimer /\ r.rc = "error" => r.new = lm.mode
  <1> DEFINE old == lm.mode
             found == IF x.sfp_detection THEN al_eth_module_detect(x, lm) ELSE {x.default_mode}
             Ready(m) == IF x.retimer /\ m # Disconnected /\ m # old
                         THEN RetimerConfigured(x, ModuleSeen(x, lm, m))
                         ELSE ModuleSeen(x, lm, m)
             Then(m) == IF x.retimer /\ m # Disconnected /\ x.speed_detection
                        THEN "RX_ADAPT_WAIT" ELSE "FINAL"
  <1>1. found \subseteq Modes /\ lm.mode \in Modes
    BY ModesFound DEF LmContext, Modes
  <1>2. \A m \in Modes : Down(x, Ready(m), m) /\ Ready(m).detection = "INIT"
    BY ModuleRead
  <1>3. \/ \E m \in found : r = Detected([Ready(m) EXCEPT !.detection = Then(m)], old, m, TRUE,
                                         "inprogress")
        \/ \E m \in found : r = Detected(Ready(m), old, m, TRUE, "error") /\ x.retimer
        \/ r = Detected(lm, old, old, TRUE, "error")
    BY DEF DetectModule
  <1> HIDE DEF found
  <1>4. ASSUME NEW m \in found,
               r = Detected([Ready(m) EXCEPT !.detection = Then(m)], old, m, TRUE, "inprogress")
        PROVE  /\ r.new = m /\ r.rc = "inprogress" /\ r.old = lm.mode /\ r.fault = TRUE
               /\ Down(x, r.lm, m) /\ (~x.retimer => r.lm.detection = "FINAL")
    <2>1. PICK q : q = Ready(m) /\ Down(x, q, m) /\ q.detection = "INIT"
      BY <1>1, <1>2
    <2>2. PICK st \in {"RX_ADAPT_WAIT", "FINAL"} : st = Then(m) /\ (~x.retimer => st = "FINAL")
      OBVIOUS
    <2>3. r = Detected([q EXCEPT !.detection = st], old, m, TRUE, "inprogress")
      BY <1>4, <2>1, <2>2
    <2> HIDE DEF Ready, Then
    <2> DEFINE u == [q EXCEPT !.detection = st]
    <2>4. /\ u \in LmContext /\ u.mode = q.mode /\ u.link_state = q.link_state
          /\ u.establish = q.establish /\ u.speed_change = q.speed_change
          /\ u.tx_param_dirty = q.tx_param_dirty /\ u.tx_params = q.tx_params
          /\ u.detection = st
      BY <2>1 DEF Down, LmContext
    <2>5. r = Detected(u, old, m, TRUE, "inprogress")
      BY <2>3
    <2> HIDE DEF u
    <2>6. r.lm = u /\ r.new = m /\ r.rc = "inprogress" /\ r.old = lm.mode /\ r.fault = TRUE
      BY <2>5 DEF Detected
    <2>7. Down(x, u, m)
      BY <2>1, <2>4 DEF Down
    <2> QED BY <2>2, <2>4, <2>6, <2>7
  <1>5. ASSUME NEW m \in found, r = Detected(Ready(m), old, m, TRUE, "error"), x.retimer
        PROVE  /\ r.new = m /\ r.rc = "error" /\ r.old = lm.mode /\ r.fault = TRUE
               /\ Down(x, r.lm, m) /\ r.lm.detection = "INIT"
    <2>1. r.lm = Ready(m) /\ r.new = m /\ r.rc = "error" /\ r.old = lm.mode /\ r.fault = TRUE
      BY <1>5 DEF Detected
    <2> HIDE DEF Ready
    <2> QED BY <1>1, <1>2, <2>1
  <1>6. ASSUME r = Detected(lm, old, old, TRUE, "error")
        PROVE  /\ r.new = lm.mode /\ r.rc = "error" /\ r.old = lm.mode /\ r.fault = TRUE
               /\ Down(x, r.lm, lm.mode) /\ r.lm.detection = "INIT"
    BY <1>6 DEF Detected
  <1>7. PICK m \in Modes :
           /\ r.new = m /\ r.old = lm.mode /\ r.fault = TRUE /\ Down(x, r.lm, m)
           /\ r.rc \in {"inprogress", "error"}
           /\ (r.rc = "error" => r.lm.detection = "INIT")
           /\ (~x.retimer /\ r.rc = "inprogress" => r.lm.detection = "FINAL")
           /\ (~x.retimer /\ r.rc = "error" => r.new = lm.mode)
    <2> HIDE DEF Ready, Then
    <2> QED BY <1>1, <1>3, <1>4, <1>5, <1>6
  <1>8. ~x.retimer => r.lm.detection # "RX_ADAPT_WAIT"
    BY <1>7
  <1>9. Prepared(x, r.lm, r.old, r.new)
    BY <1>7, <1>8, DownPrepared
  <1> QED BY <1>7, <1>9 DEF Down

(* LM_STEP_DETECTION_INIT: what is known of the link comes first. *)
LEMMA DetectionInitResult ==
    ASSUME NEW x \in Board, NEW lm \in LmContext, NEW old, NEW new, Prepared(x, lm, old, new),
           lm.establish = "INIT", lm.detection = "INIT",
           NEW r \in DetectionInit(x, lm)
    PROVE  DetectionResult(x, lm, old, new, r)
  <1>0. lm.link_state \in {"UP", "DOWN", "DOWN_RF"} /\ lm.mode \in Modes
    BY DEF LmContext, Modes
  <1>1. PICK c \in StateCheckForDetection(lm) :
           LET known == [lm EXCEPT !.link_state = c.state]
           IN  r \in IF c.done THEN {Detected(known, lm.mode, lm.mode, c.fault, "ok")}
                     ELSE IF c.state = "DOWN" THEN DetectModule(x, known)
                     ELSE {Detected([known EXCEPT !.detection = "FINAL"], lm.mode, lm.mode, TRUE,
                                    "inprogress")}
    BY DEF DetectionInit
  <1>2. /\ c.state \in {"UP", "DOWN", "DOWN_RF"} /\ c.done \in BOOLEAN /\ c.fault \in BOOLEAN
        /\ c.state # "DOWN" => lm.link_state # "DOWN"
        /\ c.done => c.state # "DOWN"
        /\ c.done /\ ~c.fault => c.state = "UP"
        /\ ~c.done => c.state # "UP"
    <2>1. CASE lm.link_state = "UP"
      <3>1. PICK s \in MacStatus : c = [state |-> StateOf(s), done |-> s = "up", fault |-> s # "up"]
        BY <2>1 DEF StateCheckForDetection
      <3> QED BY <2>1, <3>1 DEF MacStatus, StateOf
    <2>2. CASE lm.link_state = "DOWN_RF"
      <3>1. PICK s \in MacStatus : c = [state |-> StateOf(s), done |-> s # "local_fault",
                                        fault |-> TRUE]
        BY <2>2 DEF StateCheckForDetection
      <3> QED BY <2>2, <3>1 DEF MacStatus, StateOf
    <2>3. CASE lm.link_state = "DOWN"
      <3>1. c = [state |-> "DOWN", done |-> FALSE, fault |-> TRUE]
        BY <2>3 DEF StateCheckForDetection
      <3> QED BY <2>3, <3>1
    <2> QED BY <1>0, <2>1, <2>2, <2>3
  <1> DEFINE known == [lm EXCEPT !.link_state = c.state]
             final == [known EXCEPT !.detection = "FINAL"]
             Like(q) == /\ q \in LmContext /\ q.mode = lm.mode /\ q.link_state = c.state
                        /\ q.establish = "INIT"
                        /\ q.auto_fec_state = lm.auto_fec_state /\ q.speed_change = lm.speed_change
                        /\ q.tx_param_dirty = lm.tx_param_dirty /\ q.tx_params = lm.tx_params
  <1>3. Like(known) /\ known.detection = "INIT"
    BY <1>2 DEF LmContext
  <1>4. Like(final) /\ final.detection = "FINAL"
    <2> HIDE DEF known
    <2> QED BY <1>3 DEF LmContext
  <1>5. \/ c.done /\ r = Detected(known, lm.mode, lm.mode, c.fault, "ok")
        \/ c.state = "DOWN" /\ r \in DetectModule(x, known)
        \/ ~c.done /\ c.state # "DOWN" /\ r = Detected(final, lm.mode, lm.mode, TRUE, "inprogress")
    BY <1>1
  <1> HIDE DEF known, final
  <1>6. lm.mode = new
    BY DEF Prepared
  <1>7. ASSUME NEW q, Like(q), c.state # "DOWN"
        PROVE  Rests(x, q)
    <2>1. Rests(x, lm)
      BY <1>2, <1>7 DEF Prepared
    <2> QED BY <1>7, <2>1 DEF Rests
  <1>8. CASE c.done /\ r = Detected(known, lm.mode, lm.mode, c.fault, "ok")
    <2>1. /\ r.lm = known /\ r.old = lm.mode /\ r.new = lm.mode /\ r.fault = c.fault
          /\ r.rc = "ok"
      BY <1>8 DEF Detected
    <2>2. Rests(x, known)
      BY <1>2, <1>3, <1>7, <1>8
    <2>3. Prepared(x, known, lm.mode, lm.mode)
      BY <1>3, <2>2 DEF Prepared
    <2> QED BY <1>0, <1>2, <1>3, <1>8, <2>1, <2>3 DEF DetectionResult
  <1>9. CASE ~c.done /\ c.state # "DOWN" /\ r = Detected(final, lm.mode, lm.mode, TRUE, "inprogress")
    <2>1. /\ r.lm = final /\ r.old = lm.mode /\ r.new = lm.mode /\ r.fault = TRUE
          /\ r.rc = "inprogress"
      BY <1>9 DEF Detected
    <2>2. Rests(x, final)
      BY <1>4, <1>7, <1>9
    <2>3. Prepared(x, final, lm.mode, lm.mode)
      BY <1>2, <1>4, <1>9, <2>2 DEF Prepared
    <2> QED BY <1>0, <1>2, <1>4, <1>9, <2>1, <2>3 DEF DetectionResult
  <1>10. CASE c.state = "DOWN" /\ r \in DetectModule(x, known)
    <2>1. Down(x, known, known.mode)
      BY <1>3, <1>10 DEF Down, Prepared
    <2>2. /\ r.lm \in LmContext /\ r.old = known.mode /\ r.new \in Modes /\ r.fault = TRUE
          /\ r.rc \in {"inprogress", "error"}
          /\ Down(x, r.lm, r.new) /\ Prepared(x, r.lm, r.old, r.new)
          /\ (r.rc = "error" => r.lm.detection = "INIT")
          /\ (~x.retimer /\ r.rc = "inprogress" => r.lm.detection = "FINAL")
          /\ (~x.retimer /\ r.rc = "error" => r.new = known.mode)
      BY <1>3, <1>10, <2>1, DetectResult
    <2>3. r.lm.link_state = "DOWN" /\ r.lm.establish = "INIT"
      BY <2>2 DEF Down
    <2> QED BY <1>0, <1>3, <2>2, <2>3 DEF DetectionResult
  <1> QED BY <1>5, <1>8, <1>9, <1>10

(* LM_STEP_DETECTION_RETIMER_RX_ADAPT_WAIT: the speed is detected. *)
LEMMA DetectionAdaptResult ==
    ASSUME NEW x \in Board, NEW lm \in LmContext, NEW old \in Modes, NEW new \in Modes,
           Prepared(x, lm, old, new), lm.establish = "INIT", lm.detection = "RX_ADAPT_WAIT",
           NEW expired \in BOOLEAN, NEW r \in DetectionAdapt(lm, old, new, expired)
    PROVE  DetectionResult(x, lm, old, new, r)
  <1>1. lm.link_state = "DOWN" /\ x.retimer /\ lm.mode = new
    BY DEF Prepared, Board
  <1>2. PICK a \in RxAdaptationStep(lm, expired) :
           r \in CASE a.rc = "inprogress" -> {Detected(a.lm, old, new, TRUE, "inprogress")}
                   [] a.rc = "error" ->
                         {Detected([a.lm EXCEPT !.detection = "INIT",
                                                !.last_detected_mode = lm.mode],
                                   old, new, TRUE, "ok")}
                   [] a.rc = "ok" -> {Detected(SpeedDetected(a.lm, m), old, m, TRUE, "ok") :
                                         m \in {"10G_DA", "25G"}}
    BY DEF DetectionAdapt
  <1>3. Waits(a.lm, lm) /\ a.rc \in {"ok", "inprogress", "error"}
    BY AdaptationWaits
  <1> DEFINE w == a.lm
             stop == [w EXCEPT !.detection = "INIT", !.last_detected_mode = lm.mode]
  <1>4. \/ r = Detected(w, old, new, TRUE, "inprogress")
        \/ r = Detected(stop, old, new, TRUE, "ok")
        \/ \E m \in {"10G_DA", "25G"} : r = Detected(SpeedDetected(w, m), old, m, TRUE, "ok")
    BY <1>2, <1>3
  <1> HIDE DEF w
  <1>5. w \in LmContext /\ Down(x, w, new)
    BY <1>1, <1>3 DEF Waits, Down, Prepared, w
  <1>6. ASSUME NEW q, NEW m \in Modes, NEW e \in {"ok", "inprogress"}, Down(x, q, m),
               r = Detected(q, old, m, TRUE, e), e = "ok" => q.detection = "INIT"
        PROVE  DetectionResult(x, lm, old, new, r)
    <2>1. r.lm = q /\ r.old = old /\ r.new = m /\ r.fault = TRUE /\ r.rc = e
      BY <1>6 DEF Detected
    <2>2. Prepared(x, q, old, m)
      BY <1>1, <1>6, DownPrepared
    <2>3. q \in LmContext /\ q.link_state = "DOWN" /\ q.establish = "INIT"
      BY <1>6 DEF Down
    <2> QED BY <1>1, <1>6, <2>1, <2>2, <2>3 DEF DetectionResult
  <1>7. CASE r = Detected(w, old, new, TRUE, "inprogress")
    BY <1>5, <1>6, <1>7
  <1>8. CASE r = Detected(stop, old, new, TRUE, "ok")
    <2>1. lm.mode \in LmModes \union {Disconnected}
      BY DEF LmContext
    <2>2. /\ stop \in LmContext /\ stop.mode = w.mode /\ stop.link_state = w.link_state
          /\ stop.establish = w.establish /\ stop.tx_param_dirty = w.tx_param_dirty
          /\ stop.tx_params = w.tx_params /\ stop.detection = "INIT"
      BY <1>5, <2>1 DEF LmContext
    <2> HIDE DEF stop
    <2>3. Down(x, stop, new)
      BY <1>1, <1>5, <2>2 DEF Down
    <2> QED BY <1>6, <1>8, <2>2, <2>3
  <1>9. ASSUME NEW m \in {"10G_DA", "25G"}, r = Detected(SpeedDetected(w, m), old, m, TRUE, "ok")
        PROVE  DetectionResult(x, lm, old, new, r)
    <2>1. m \in LmModes \union {Disconnected} /\ m \in Modes
      BY DEF LmModes, Modes
    <2> DEFINE ch == w.speed_change \/ ((m = "25G") # (w.last_detected_mode = "25G"))
               q == [w EXCEPT !.mode = m, !.speed_change = ch, !.last_detected_mode = m,
                              !.detection = "INIT"]
    <2>2. SpeedDetected(w, m) = q
      BY <1>5 DEF SpeedDetected, LmContext
    <2>3. ch \in BOOLEAN
      OBVIOUS
    <2> HIDE DEF ch
    <2>4. /\ q \in LmContext /\ q.mode = m /\ q.link_state = w.link_state
          /\ q.establish = w.establish /\ q.tx_param_dirty = w.tx_param_dirty
          /\ q.tx_params = w.tx_params /\ q.detection = "INIT"
      BY <1>5, <2>1, <2>3 DEF LmContext
    <2> HIDE DEF q
    <2>5. Down(x, q, m)
      BY <1>1, <1>5, <2>4 DEF Down
    <2> QED BY <1>6, <1>9, <2>1, <2>2, <2>4, <2>5
  <1> QED BY <1>4, <1>7, <1>8, <1>9

(* al_eth_lm_link_detection_step *)
LEMMA DetectionStep ==
    ASSUME NEW x \in Board, NEW lm \in LmContext, NEW old \in Modes, NEW new \in Modes,
           Prepared(x, lm, old, new), lm.establish = "INIT", NEW expired \in BOOLEAN,
           NEW r \in al_eth_lm_link_detection_step(x, lm, old, new, expired)
    PROVE  DetectionResult(x, lm, old, new, r)
  <1>0. lm.detection \in {"INIT", "RX_ADAPT_WAIT", "FINAL"}
    BY DEF LmContext
  <1>1. CASE lm.detection = "INIT"
    <2>1. r \in DetectionInit(x, lm)
      BY <1>1 DEF al_eth_lm_link_detection_step
    <2> QED BY <1>1, <2>1, DetectionInitResult
  <1>2. CASE lm.detection = "RX_ADAPT_WAIT"
    <2>1. r \in DetectionAdapt(lm, old, new, expired)
      BY <1>2 DEF al_eth_lm_link_detection_step
    <2> QED BY <1>2, <2>1, DetectionAdaptResult
  <1>3. CASE lm.detection = "FINAL"
    <2> DEFINE q == [lm EXCEPT !.detection = "INIT"]
    <2>1. r = Detected(q, old, new, TRUE, "ok")
      BY <1>3 DEF al_eth_lm_link_detection_step
    <2>2. /\ q \in LmContext /\ q.mode = lm.mode /\ q.link_state = lm.link_state
          /\ q.detection = "INIT" /\ q.establish = lm.establish
          /\ q.auto_fec_state = lm.auto_fec_state /\ q.speed_change = lm.speed_change
          /\ q.tx_param_dirty = lm.tx_param_dirty /\ q.tx_params = lm.tx_params
      BY DEF LmContext
    <2> HIDE DEF q
    <2>3. r.lm = q /\ r.old = old /\ r.new = new /\ r.fault = TRUE /\ r.rc = "ok"
      BY <2>1 DEF Detected
    <2>4. Prepared(x, q, old, new)
      BY <2>2 DEF Prepared, Rests
    <2>5. q.link_state # "DOWN" => lm.link_state # "DOWN" /\ old = new
      BY <1>3, <2>2 DEF Prepared
    <2> QED BY <1>3, <2>2, <2>3, <2>4, <2>5 DEF DetectionResult
  <1> QED BY <1>0, <1>1, <1>2, <1>3
-----------------------------------------------------------------------------
(* The inductive invariant of the group.  A call: the lock is held only    *)
(* within a critical section of a call under way, and a stage that reads   *)
(* the result of a step is reached in the call that took the step.         *)
CallOK(l) ==
    /\ l \in lock => run[l] /\ lm_step_stage[l] \in Sections
    /\ ~run[l] => lm_step_stage[l] \notin Sections \union {"DETECTION_DONE", "ESTABLISH_DONE"}
    /\ run[l] => l \in registered
    /\ lm_step_stage[l] = "DETECTION_DONE" => got[l] \in {"fault", "no_fault"}
    /\ lm_step_stage[l] = "ESTABLISH_DONE" => got[l] # "?"
    /\ FecManaged(b) => got[l] # "invalid_fec_state"

(* Which stages a step of the link manager may be left half done in, and   *)
(* what a stage finds.                                                     *)
StageOK(lm, old, new, stage, g) ==
    /\ lm.detection # "INIT" => stage \in {"TRY_LOCK_DETECTION", "DETECTION"}
    /\ lm.establish # "INIT" => stage \in {"TRY_LOCK_ESTABLISH", "ESTABLISH"}
    /\ stage \in {"TRY_LOCK_SPEED_CHANGE", "SPEED_CHANGE", "PRE_ESTABLISH",
                  "TRY_LOCK_ESTABLISH", "ESTABLISH"} => new # Disconnected
    /\ stage = "DETECTION_DONE" => /\ lm.link_state # "DOWN" => old = new
                                   /\ g = "no_fault" => lm.link_state = "UP"

(* The network interface, its carrier and the last state reported *)
PortOK(lm, stage, u, c, last) ==
    /\ lm.link_state # "DOWN" => u
    /\ stage \in {"TRY_LOCK_ESTABLISH", "ESTABLISH", "ESTABLISH_DONE"} => u
    /\ c => u /\ last = "UP"
    /\ last = "UP" /\ lm.link_state # "DOWN" /\ ~c => stage = "ESTABLISH_DONE"

(* The MAC has the speed of the mode, or of the one before while a change  *)
(* is being detected.                                                      *)
SpeedOK(x, lm, old, new, stage, speed) ==
    ~x.retimer =>
       /\ stage = "DETECTION_DONE" \/ lm.detection = "FINAL"
             => (old # Disconnected => speed = Speed(old))
       /\ stage # "DETECTION_DONE" /\ lm.detection # "FINAL"
             => (new # Disconnected => speed = Speed(new))

(* Only a 25G serdes sets flags, and a port that has finished its flow with *)
(* the link up left none.                                                  *)
FlagsOK(x, lm, stage, flag) ==
    flag => x.serdes = "25G" /\ (stage = "INIT" => lm.link_state # "UP")

Flagged == need_pll_wa \union need_watchdog_wa
LinkOK(l) ==
    /\ Prepared(b, lm_context[l], old_mode[l], new_mode[l])
    /\ StageOK(lm_context[l], old_mode[l], new_mode[l], lm_step_stage[l], got[l])
    /\ PortOK(lm_context[l], lm_step_stage[l], up[l], carrier[l], last_link_state[l])
    /\ SpeedOK(b, lm_context[l], old_mode[l], new_mode[l], lm_step_stage[l], active_speed[l])
    /\ FlagsOK(b, lm_context[l], lm_step_stage[l], l \in Flagged)

PortsOK == \A l \in Links : CallOK(l) /\ (l \in registered => LinkOK(l))
IInv == TypeOK /\ PortsOK /\ ResetSparesSettled

(* The new values satisfy the link's part of the invariant. *)
LEMMA Assemble ==
    ASSUME NEW l \in Links, board' = board,
           Prepared(b, lm_context'[l], old_mode'[l], new_mode'[l]),
           StageOK(lm_context'[l], old_mode'[l], new_mode'[l], lm_step_stage'[l], got'[l]),
           PortOK(lm_context'[l], lm_step_stage'[l], up'[l], carrier'[l], last_link_state'[l]),
           SpeedOK(b, lm_context'[l], old_mode'[l], new_mode'[l], lm_step_stage'[l],
                   active_speed'[l]),
           FlagsOK(b, lm_context'[l], lm_step_stage'[l], l \in Flagged')
    PROVE  LinkOK(l)'
  <1>1. b' = b
    BY DEF b
  <1>2. Prepared(b, lm_context[l], old_mode[l], new_mode[l])'
    BY <1>1 DEF Prepared, Rests, FecManaged
  <1>3. StageOK(lm_context[l], old_mode[l], new_mode[l], lm_step_stage[l], got[l])'
    BY DEF StageOK
  <1>4. PortOK(lm_context[l], lm_step_stage[l], up[l], carrier[l], last_link_state[l])'
    BY DEF PortOK
  <1>5. SpeedOK(b, lm_context[l], old_mode[l], new_mode[l], lm_step_stage[l], active_speed[l])'
    BY <1>1 DEF SpeedOK, Speed
  <1>6. FlagsOK(b, lm_context[l], lm_step_stage[l], l \in Flagged)'
    BY <1>1 DEF FlagsOK
  <1> QED BY <1>2, <1>3, <1>4, <1>5, <1>6 DEF LinkOK

(* A step of one port leaves the others alone. *)
Same(k) ==
    /\ run'[k] = run[k] /\ lm_step_stage'[k] = lm_step_stage[k] /\ got'[k] = got[k]
    /\ lm_context'[k] = lm_context[k] /\ old_mode'[k] = old_mode[k]
    /\ new_mode'[k] = new_mode[k]
    /\ last_link_state'[k] = last_link_state[k] /\ up'[k] = up[k]
    /\ carrier'[k] = carrier[k] /\ active_speed'[k] = active_speed[k]
    /\ k \in lock' => k \in lock
    /\ k \in registered' <=> k \in registered
    /\ k \in Flagged' => k \in Flagged
Alone(l) == board' = board /\ \A k \in Links : k # l => Same(k)

(* What is to be shown of a step of port l *)
Kept(l) ==
    /\ Alone(l) /\ CallOK(l)' /\ TypeOK'
    /\ l \in registered' => LinkOK(l)'

(* The ports a step leaves alone keep their part of the invariant. *)
LEMMA OthersKept ==
    ASSUME NEW k \in Links, Same(k), board' = board,
           CallOK(k), k \in registered => LinkOK(k)
    PROVE  CallOK(k)' /\ (k \in registered' => LinkOK(k)')
  <1>1. b' = b
    BY DEF b
  <1>2. CallOK(k)'
    BY <1>1 DEF CallOK, Same, FecManaged
  <1>3. ASSUME k \in registered' PROVE LinkOK(k)'
    <2>1. LinkOK(k)
      BY <1>3 DEF Same
    <2>2. Prepared(b, lm_context'[k], old_mode'[k], new_mode'[k])
      BY <2>1 DEF Same, LinkOK
    <2>3. StageOK(lm_context'[k], old_mode'[k], new_mode'[k], lm_step_stage'[k], got'[k])
      BY <2>1 DEF Same, LinkOK
    <2>4. PortOK(lm_context'[k], lm_step_stage'[k], up'[k], carrier'[k], last_link_state'[k])
      BY <2>1 DEF Same, LinkOK
    <2>5. SpeedOK(b, lm_context'[k], old_mode'[k], new_mode'[k], lm_step_stage'[k],
                  active_speed'[k])
      BY <2>1 DEF Same, LinkOK
    <2>6. FlagsOK(b, lm_context'[k], lm_step_stage'[k], k \in Flagged')
      BY <2>1 DEF Same, LinkOK, FlagsOK
    <2> QED BY <2>2, <2>3, <2>4, <2>5, <2>6, Assemble
  <1> QED BY <1>2, <1>3

(* The parts of all ports together *)
LEMMA Combine ==
    ASSUME IInv, NEW l \in Links, Kept(l), ResetSparesSettled'
    PROVE  IInv'
  <1>1. ASSUME NEW k \in Links
        PROVE  CallOK(k)' /\ (k \in registered' => LinkOK(k)')
    <2>1. CASE k = l
      BY <2>1 DEF Kept
    <2>2. CASE k # l
      BY <2>2, OthersKept DEF Kept, Alone, IInv, PortsOK
    <2> QED BY <2>1, <2>2
  <1>2. PortsOK'
    BY <1>1 DEF PortsOK
  <1> QED BY <1>2 DEF Kept, IInv

(* The numbers of a port *)
LEMMA PortTypes ==
    ASSUME TypeOK, NEW l \in Links
    PROVE  /\ b \in Board /\ board.links \subseteq Links
           /\ lm_context[l] \in LmContext /\ old_mode[l] \in Modes /\ new_mode[l] \in Modes
           /\ run[l] \in BOOLEAN /\ lm_step_stage[l] \in Stages
           /\ up[l] \in BOOLEAN /\ carrier[l] \in BOOLEAN
           /\ last_link_state[l] \in {"UP", "DOWN", "DOWN_RF"}
           /\ active_speed[l] \in {"none", "1G", "10G", "25G"}
           /\ got[l] \in {"?", "fault", "no_fault", "up", "remote_fault", "error",
                          "invalid_fec_state"}
  <1>1. b \in Board /\ board.links \subseteq Links
    BY BoardsAssumption DEF TypeOK, b
  <1> QED BY <1>1 DEF TypeOK, Modes

(* No port, no link, no lock *)
LEMMA InitIInv == Init => IInv
  <1> SUFFICES ASSUME Init PROVE IInv
    OBVIOUS
  <1> USE DEF Init
  <1>1. al_eth_lm_init \in LmContext
    BY DEF al_eth_lm_init, LmContext
  <1>2. TypeOK
    BY <1>1 DEF TypeOK, Stages
  <1>3. PortsOK
    BY DEF PortsOK, CallOK, Sections, FecManaged
  <1>4. ResetSparesSettled
    BY DEF ResetSparesSettled
  <1> QED BY <1>2, <1>3, <1>4 DEF IInv
-----------------------------------------------------------------------------
(* al_eth_open: a fresh link manager *)
LEMMA RegisterKeeps ==
    ASSUME IInv, NEW l \in Links, al_eth_group_lm_port_register(l)
    PROVE  Kept(l) /\ ~reset'
  <1> USE DEF al_eth_group_lm_port_register, group
  <1>0. /\ TypeOK /\ CallOK(l) /\ ~run[l] /\ lock = {}
        /\ l \notin lock /\ l \notin registered /\ l \in board.links
    BY PortTypes DEF IInv, PortsOK, CallOK
  <1> DEFINE lm == [al_eth_lm_init EXCEPT !.fec = lm_context[l].fec,
                                          !.tx_params = lm_context[l].tx_params]
  <1>1. /\ lm \in LmContext
        /\ lm.mode = Disconnected /\ lm.link_state = "DOWN" /\ lm.detection = "INIT"
        /\ lm.establish = "INIT" /\ lm.speed_change = FALSE /\ lm.tx_param_dirty
    <2>1. /\ lm_context[l].fec \in BOOLEAN
          /\ lm_context[l].tx_params \in {"none", "da", "optic", "trained"}
      BY <1>0, PortTypes DEF LmContext
    <2>2. PICK f \in BOOLEAN, t \in {"none", "da", "optic", "trained"} :
             f = lm_context[l].fec /\ t = lm_context[l].tx_params
      BY <2>1
    <2>3. lm = [al_eth_lm_init EXCEPT !.fec = f, !.tx_params = t]
      BY <2>2
    <2> HIDE DEF lm
    <2> QED BY <2>3 DEF al_eth_lm_init, LmContext
  <1>2. lm_context' = [lm_context EXCEPT ![l] = lm]
    OBVIOUS
  <1> HIDE DEF lm
  <1>3. /\ lm_context'[l] = lm /\ old_mode'[l] = Disconnected /\ new_mode'[l] = Disconnected
        /\ lm_step_stage'[l] = "INIT" /\ carrier'[l] = FALSE /\ last_link_state'[l] = "DOWN"
        /\ l \notin Flagged'
    BY <1>0, <1>2 DEF TypeOK, Flagged
  <1>4. TypeOK'
    <2>1. /\ board' = board /\ lock' = lock /\ serdes_mode' = serdes_mode /\ run' = run
          /\ got' = got /\ up' = up /\ active_speed' = active_speed /\ reset' = FALSE
      OBVIOUS
    <2>2. registered' \subseteq board.links
      BY <1>0 DEF TypeOK
    <2>3. need_pll_wa' \subseteq board.links /\ need_watchdog_wa' \subseteq board.links
      BY <1>0 DEF TypeOK
    <2>4. lm_context' \in [Links -> LmContext] /\ lm_step_stage' \in [Links -> Stages]
      BY <1>0, <1>1, <1>2 DEF TypeOK, Stages
    <2>5. /\ old_mode' \in [Links -> LmModes \union {Disconnected}]
          /\ new_mode' \in [Links -> LmModes \union {Disconnected}]
      BY <1>0 DEF TypeOK
    <2>6. /\ last_link_state' \in [Links -> {"UP", "DOWN", "DOWN_RF"}]
          /\ carrier' \in [Links -> BOOLEAN]
      BY <1>0 DEF TypeOK
    <2> HIDE DEF al_eth_group_lm_port_register, group
    <2> QED BY <1>0, <2>1, <2>2, <2>3, <2>4, <2>5, <2>6 DEF TypeOK
  <1>5. Alone(l)
    <2> SUFFICES ASSUME NEW k \in Links, k # l PROVE Same(k)
      BY DEF Alone
    <2> QED BY <1>0, <1>2 DEF Same, TypeOK, Flagged
  <1>6. CallOK(l)'
    BY <1>0, <1>3 DEF CallOK, Sections, FecManaged, b
  <1>7. LinkOK(l)'
    <2>1. Prepared(b, lm_context'[l], old_mode'[l], new_mode'[l])
      BY <1>1, <1>3 DEF Prepared
    <2>2. StageOK(lm_context'[l], old_mode'[l], new_mode'[l], lm_step_stage'[l], got'[l])
      BY <1>1, <1>3 DEF StageOK
    <2>3. PortOK(lm_context'[l], lm_step_stage'[l], up'[l], carrier'[l], last_link_state'[l])
      BY <1>1, <1>3 DEF PortOK
    <2>4. SpeedOK(b, lm_context'[l], old_mode'[l], new_mode'[l], lm_step_stage'[l],
                  active_speed'[l])
      BY <1>1, <1>3 DEF SpeedOK
    <2>5. FlagsOK(b, lm_context'[l], lm_step_stage'[l], l \in Flagged')
      BY <1>3 DEF FlagsOK
    <2> QED BY <2>1, <2>2, <2>3, <2>4, <2>5, Assemble
  <1> QED BY <1>4, <1>5, <1>6, <1>7 DEF Kept

(* al_eth_close *)
LEMMA UnregisterKeeps ==
    ASSUME IInv, NEW l \in Links, al_eth_group_lm_port_unregister(l)
    PROVE  Kept(l) /\ ~reset'
  <1> USE DEF al_eth_group_lm_port_unregister, group, modes, wa
  <1>0. TypeOK /\ CallOK(l)
    BY DEF IInv, PortsOK
  <1>1. TypeOK'
    <2>1. registered' \subseteq board.links
      BY <1>0 DEF TypeOK
    <2>2. up' \in [Links -> BOOLEAN] /\ carrier' \in [Links -> BOOLEAN]
      BY <1>0 DEF TypeOK
    <2> QED BY <1>0, <2>1, <2>2 DEF TypeOK
  <1>2. Alone(l)
    <2> SUFFICES ASSUME NEW k \in Links, k # l PROVE Same(k)
      BY DEF Alone
    <2> QED BY <1>0 DEF Same, TypeOK, Flagged
  <1>3. CallOK(l)'
    BY <1>0 DEF CallOK, Sections, FecManaged, b
  <1>4. l \notin registered'
    OBVIOUS
  <1> QED BY <1>1, <1>2, <1>3, <1>4 DEF Kept

(* A step that only moves the call from one stage to another: the part of  *)
(* the invariant about the link *)
LEMMA MoveKeepsLink ==
    ASSUME IInv, NEW l \in registered, l \in Links,
           UNCHANGED <<board, modes, wa, port>>,
           StageOK(lm_context[l], old_mode[l], new_mode[l], lm_step_stage'[l], got'[l]),
           PortOK(lm_context[l], lm_step_stage'[l], up[l], carrier[l], last_link_state[l]),
           SpeedOK(b, lm_context[l], old_mode[l], new_mode[l], lm_step_stage'[l],
                   active_speed[l]),
           lm_step_stage'[l] = "INIT" => lm_step_stage[l] = "INIT"
    PROVE  LinkOK(l)'
  <1> USE DEF modes, wa, port
  <1>1. LinkOK(l) /\ Flagged' = Flagged
    BY DEF IInv, PortsOK, Flagged
  <1>2. Prepared(b, lm_context'[l], old_mode'[l], new_mode'[l])
    BY <1>1 DEF LinkOK
  <1>3. FlagsOK(b, lm_context'[l], lm_step_stage'[l], l \in Flagged')
    BY <1>1 DEF LinkOK, FlagsOK
  <1>4. StageOK(lm_context'[l], old_mode'[l], new_mode'[l], lm_step_stage'[l], got'[l])
    OBVIOUS
  <1>5. PortOK(lm_context'[l], lm_step_stage'[l], up'[l], carrier'[l], last_link_state'[l])
    OBVIOUS
  <1>6. SpeedOK(b, lm_context'[l], old_mode'[l], new_mode'[l], lm_step_stage'[l],
                active_speed'[l])
    OBVIOUS
  <1> QED BY <1>2, <1>3, <1>4, <1>5, <1>6, Assemble

(* The call begins. *)
LEMMA InvokeKeeps ==
    ASSUME IInv, NEW l \in Links, Invoke(l)
    PROVE  Kept(l) /\ ~reset'
  <1> USE DEF Invoke
  <1>0. TypeOK /\ CallOK(l) /\ LinkOK(l) /\ l \in registered
    BY DEF IInv, PortsOK
  <1>1. TypeOK'
    BY <1>0 DEF TypeOK, group, modes, wa, port
  <1>2. Alone(l)
    <2> SUFFICES ASSUME NEW k \in Links, k # l PROVE Same(k)
      BY DEF Alone, group
    <2> QED BY <1>0 DEF Same, TypeOK, Flagged, group, modes, wa, port
  <1>3. CallOK(l)'
    <2>1. run'[l] = TRUE
      BY <1>0 DEF TypeOK
    <2> QED BY <1>0, <2>1 DEF CallOK, FecManaged, b, group
  <1>4. LinkOK(l)'
    <2>1. lm_step_stage'[l] = lm_step_stage[l] /\ got'[l] = got[l]
      OBVIOUS
    <2>2. UNCHANGED <<board, modes, wa, port>>
      BY DEF group
    <2> QED BY <1>0, <2>1, <2>2, MoveKeepsLink DEF LinkOK
  <1> QED BY <1>1, <1>2, <1>3, <1>4 DEF Kept

(* The call of port l goes on (r) or ends at a stage, with a result. *)
Results == {"?", "fault", "no_fault", "up", "remote_fault", "error", "invalid_fec_state"}
Moved(l, to, r, g) ==
    /\ run' \in [Links -> BOOLEAN] /\ lm_step_stage' \in [Links -> Stages]
    /\ got' \in [Links -> Results]
    /\ registered' = registered /\ reset' = FALSE
    /\ run'[l] = r /\ lm_step_stage'[l] = to /\ got'[l] = g
    /\ \A k \in Links : k # l => /\ run'[k] = run[k] /\ got'[k] = got[k]
                                 /\ lm_step_stage'[k] = lm_step_stage[k]

(* "goto" the next stage of the call *)
LEMMA GotoMoves ==
    ASSUME TypeOK, NEW l \in Links, NEW to \in Stages, NEW g \in Results, run[l],
           Goto(l, to, g)
    PROVE  Moved(l, to, TRUE, g)
  <1>1. /\ run \in [Links -> BOOLEAN] /\ lm_step_stage \in [Links -> Stages]
        /\ got \in [Links -> Results]
    BY DEF TypeOK, Results
  <1>2. /\ run' = run /\ lm_step_stage' = [lm_step_stage EXCEPT ![l] = to]
        /\ got' = [got EXCEPT ![l] = g] /\ registered' = registered /\ reset' = FALSE
    BY DEF Goto
  <1>3. lm_step_stage' \in [Links -> Stages] /\ got' \in [Links -> Results]
    BY <1>1, <1>2
  <1>4. run'[l] = TRUE /\ lm_step_stage'[l] = to /\ got'[l] = g
    BY <1>1, <1>2
  <1>5. \A k \in Links : k # l => /\ run'[k] = run[k] /\ got'[k] = got[k]
                                  /\ lm_step_stage'[k] = lm_step_stage[k]
    BY <1>1, <1>2
  <1> QED BY <1>1, <1>2, <1>3, <1>4, <1>5 DEF Moved

(* "break": the call ends *)
LEMMA ReturnMoves ==
    ASSUME TypeOK, NEW l \in Links, NEW to \in Stages, Return(l, to)
    PROVE  Moved(l, to, FALSE, "?")
  <1>1. /\ run \in [Links -> BOOLEAN] /\ lm_step_stage \in [Links -> Stages]
        /\ got \in [Links -> Results]
    BY DEF TypeOK, Results
  <1>2. /\ run' = [run EXCEPT ![l] = FALSE]
        /\ lm_step_stage' = [lm_step_stage EXCEPT ![l] = to]
        /\ got' = [got EXCEPT ![l] = "?"] /\ registered' = registered /\ reset' = FALSE
    BY DEF Return
  <1>3. /\ run' \in [Links -> BOOLEAN] /\ lm_step_stage' \in [Links -> Stages]
        /\ got' \in [Links -> Results]
    BY <1>1, <1>2 DEF Results
  <1>4. run'[l] = FALSE /\ lm_step_stage'[l] = to /\ got'[l] = "?"
    BY <1>1, <1>2
  <1>5. \A k \in Links : k # l => /\ run'[k] = run[k] /\ got'[k] = got[k]
                                  /\ lm_step_stage'[k] = lm_step_stage[k]
    BY <1>1, <1>2
  <1> QED BY <1>2, <1>3, <1>4, <1>5 DEF Moved

(* The new context and modes of port l *)
ModesMoved(l, lm, old, new) ==
    /\ lm_context' \in [Links -> LmContext]
    /\ old_mode' \in [Links -> Modes] /\ new_mode' \in [Links -> Modes]
    /\ lm_context'[l] = lm /\ old_mode'[l] = old /\ new_mode'[l] = new
    /\ \A k \in Links : k # l => /\ lm_context'[k] = lm_context[k]
                                 /\ old_mode'[k] = old_mode[k] /\ new_mode'[k] = new_mode[k]

(* The context and the modes stay, ... *)
LEMMA ModesStay ==
    ASSUME TypeOK, NEW l \in Links, UNCHANGED modes
    PROVE  ModesMoved(l, lm_context[l], old_mode[l], new_mode[l])
  BY DEF ModesMoved, TypeOK, Modes, modes

(* The new state of the network interface of port l *)
PortMoved(l, u, c, last, speed) ==
    /\ up' \in [Links -> BOOLEAN] /\ carrier' \in [Links -> BOOLEAN]
    /\ last_link_state' \in [Links -> {"UP", "DOWN", "DOWN_RF"}]
    /\ active_speed' \in [Links -> {"none", "1G", "10G", "25G"}]
    /\ up'[l] = u /\ carrier'[l] = c /\ last_link_state'[l] = last /\ active_speed'[l] = speed
    /\ \A k \in Links : k # l => /\ up'[k] = up[k] /\ carrier'[k] = carrier[k]
                                 /\ last_link_state'[k] = last_link_state[k]
                                 /\ active_speed'[k] = active_speed[k]

(* ... and so does the interface. *)
LEMMA PortStays ==
    ASSUME TypeOK, NEW l \in Links, UNCHANGED port
    PROVE  PortMoved(l, up[l], carrier[l], last_link_state[l], active_speed[l])
  BY DEF PortMoved, TypeOK, port

(* The lock and the serdes: port l holds the lock within a section only. *)
LockMoved(l, holds) ==
    /\ board' = board /\ serdes_mode' \in {"UNKNOWN", "25G", "KR", "SGMII"}
    /\ lock' \subseteq board.links
    /\ l \in lock' => holds
    /\ \A k \in Links : k # l /\ k \in lock' => k \in lock

(* What a stage asks of the call *)
CallFits(x, to, r, g) ==
    /\ ~r => to \notin Sections \union {"DETECTION_DONE", "ESTABLISH_DONE"}
    /\ to = "DETECTION_DONE" => g \in {"fault", "no_fault"}
    /\ to = "ESTABLISH_DONE" => g # "?"
    /\ FecManaged(x) => g # "invalid_fec_state"

(* A stage of a call that is not the end of the flow *)
LEMMA StepKeeps ==
    ASSUME IInv, NEW l \in Links, run[l], NEW to \in Stages \ {"INIT"}, NEW r \in BOOLEAN,
           NEW g \in Results, Moved(l, to, r, g),
           NEW lm, NEW old, NEW new, ModesMoved(l, lm, old, new),
           NEW u, NEW c, NEW last, NEW speed, PortMoved(l, u, c, last, speed),
           UNCHANGED wa, LockMoved(l, r /\ to \in Sections), CallFits(b, to, r, g),
           Prepared(b, lm, old, new), StageOK(lm, old, new, to, g),
           PortOK(lm, to, u, c, last), SpeedOK(b, lm, old, new, to, speed)
    PROVE  Kept(l) /\ ~reset'
  <1>1. TypeOK /\ CallOK(l) /\ l \in registered
    BY DEF IInv, PortsOK, CallOK
  <1>2. board' = board /\ b' = b /\ Flagged' = Flagged /\ registered' = registered
    BY DEF LockMoved, Moved, b, Flagged, wa
  <1>3. TypeOK'
    <2>1. board' \in Boards /\ lock' \subseteq board'.links /\ registered' \subseteq board'.links
      BY <1>1, <1>2 DEF TypeOK, LockMoved
    <2>2. need_pll_wa' \subseteq board'.links /\ need_watchdog_wa' \subseteq board'.links
      BY <1>1, <1>2 DEF TypeOK, wa
    <2>3. /\ run' \in [Links -> BOOLEAN] /\ lm_step_stage' \in [Links -> Stages]
          /\ got' \in [Links -> {"?", "fault", "no_fault", "up", "remote_fault", "error",
                                 "invalid_fec_state"}]
          /\ reset' \in BOOLEAN
      BY DEF Moved, Results
    <2>4. /\ lm_context' \in [Links -> LmContext]
          /\ old_mode' \in [Links -> LmModes \union {Disconnected}]
          /\ new_mode' \in [Links -> LmModes \union {Disconnected}]
      BY DEF ModesMoved, Modes
    <2>5. serdes_mode' \in {"UNKNOWN", "25G", "KR", "SGMII"}
      BY DEF LockMoved
    <2> QED BY <2>1, <2>2, <2>3, <2>4, <2>5 DEF TypeOK, PortMoved
  <1>4. Alone(l)
    <2> SUFFICES ASSUME NEW k \in Links, k # l PROVE Same(k)
      BY <1>2 DEF Alone
    <2> QED BY <1>2 DEF Same, Moved, ModesMoved, PortMoved, LockMoved
  <1>5. CallOK(l)'
    <2>1. run'[l] = r /\ lm_step_stage'[l] = to /\ got'[l] = g
      BY DEF Moved
    <2>2. l \in lock' => r /\ to \in Sections
      BY DEF LockMoved
    <2>3. FecManaged(b)' <=> FecManaged(b)
      BY <1>2 DEF FecManaged
    <2> QED BY <1>1, <1>2, <2>1, <2>2, <2>3 DEF CallOK, CallFits
  <1>6. LinkOK(l)'
    <2>1. /\ lm_step_stage'[l] = to /\ got'[l] = g
          /\ lm_context'[l] = lm /\ old_mode'[l] = old /\ new_mode'[l] = new
          /\ up'[l] = u /\ carrier'[l] = c /\ last_link_state'[l] = last
          /\ active_speed'[l] = speed
      BY DEF Moved, ModesMoved, PortMoved
    <2>2. LinkOK(l)
      BY <1>1 DEF IInv, PortsOK
    <2>3. FlagsOK(b, lm_context'[l], lm_step_stage'[l], l \in Flagged')
      BY <1>2, <2>1, <2>2 DEF FlagsOK, LinkOK
    <2> QED BY <1>2, <2>1, <2>3, Assemble
  <1>7. ~reset'
    BY DEF Moved
  <1> QED BY <1>3, <1>4, <1>5, <1>6, <1>7 DEF Kept
-----------------------------------------------------------------------------
(* A call under way: what is known of its port *)
LEMMA UnderWay ==
    ASSUME IInv, NEW l \in Links, run[l]
    PROVE  /\ TypeOK /\ CallOK(l) /\ LinkOK(l) /\ l \in registered /\ b \in Board
           /\ Prepared(b, lm_context[l], old_mode[l], new_mode[l])
           /\ StageOK(lm_context[l], old_mode[l], new_mode[l], lm_step_stage[l], got[l])
           /\ PortOK(lm_context[l], lm_step_stage[l], up[l], carrier[l], last_link_state[l])
           /\ SpeedOK(b, lm_context[l], old_mode[l], new_mode[l], lm_step_stage[l],
                      active_speed[l])
  <1>1. TypeOK /\ CallOK(l) /\ l \in registered
    BY DEF IInv, PortsOK, CallOK
  <1>2. LinkOK(l) /\ b \in Board
    BY <1>1, PortTypes DEF IInv, PortsOK
  <1> QED BY <1>1, <1>2 DEF LinkOK

(* The link is looked at, without a lock. *)
LEMMA LinkStateCheckKeeps ==
    ASSUME IInv, NEW l \in Links, LinkStateCheck(l)
    PROVE  Kept(l) /\ ~reset'
  <1>1. /\ run[l] /\ lm_step_stage[l] = "INIT"
        /\ UNCHANGED modes /\ UNCHANGED port /\ UNCHANGED wa /\ UNCHANGED group
        /\ Goto(l, "TRY_LOCK_DETECTION", "?") \/ Return(l, "GROUP_LM_FLOW")
    BY DEF LinkStateCheck, At
  <1>2. /\ TypeOK /\ CallOK(l)
        /\ Prepared(b, lm_context[l], old_mode[l], new_mode[l])
        /\ StageOK(lm_context[l], old_mode[l], new_mode[l], "INIT", got[l])
        /\ PortOK(lm_context[l], "INIT", up[l], carrier[l], last_link_state[l])
        /\ SpeedOK(b, lm_context[l], old_mode[l], new_mode[l], "INIT", active_speed[l])
    BY <1>1, UnderWay
  <1>3. PICK to \in {"TRY_LOCK_DETECTION", "GROUP_LM_FLOW"}, r \in BOOLEAN : Moved(l, to, r, "?")
    BY <1>1, <1>2, GotoMoves, ReturnMoves DEF Stages, Results
  <1>4. to \in Stages \ {"INIT"} /\ "?" \in Results
    BY DEF Stages, Results
  <1>5. LockMoved(l, r /\ to \in Sections)
    BY <1>1, <1>2 DEF LockMoved, group, TypeOK, CallOK, Sections
  <1>6. CallFits(b, to, r, "?")
    BY DEF CallFits, Sections
  <1>7. StageOK(lm_context[l], old_mode[l], new_mode[l], to, "?")
    BY <1>2 DEF StageOK
  <1>8. PortOK(lm_context[l], to, up[l], carrier[l], last_link_state[l])
    BY <1>2 DEF PortOK
  <1>9. SpeedOK(b, lm_context[l], old_mode[l], new_mode[l], to, active_speed[l])
    BY <1>2 DEF SpeedOK
  <1>10. /\ ModesMoved(l, lm_context[l], old_mode[l], new_mode[l])
         /\ PortMoved(l, up[l], carrier[l], last_link_state[l], active_speed[l])
    BY <1>1, <1>2, ModesStay, PortStays
  <1> QED BY <1>1, <1>2, <1>3, <1>4, <1>5, <1>6, <1>7, <1>8, <1>9, <1>10, StepKeeps

(* try_lock: the stage is entered, or the call ends before it. *)
LEMMA TryLockKeeps ==
    ASSUME IInv, NEW l \in Links, TryLock(l)
    PROVE  Kept(l) /\ ~reset'
  <1> DEFINE from == lm_step_stage[l]
  <1>1. /\ run[l] /\ from \in TryLockStages
        /\ UNCHANGED modes /\ UNCHANGED port /\ UNCHANGED wa
        /\ board' = board /\ serdes_mode' = serdes_mode
        /\ \/ Goto(l, Work(from), "?") /\ (lock' = lock \/ lock' = {l})
           \/ Return(l, from) /\ lock' = lock
    BY DEF TryLock
  <1>2. /\ TypeOK /\ CallOK(l) /\ l \in registered
        /\ Prepared(b, lm_context[l], old_mode[l], new_mode[l])
        /\ StageOK(lm_context[l], old_mode[l], new_mode[l], from, got[l])
        /\ PortOK(lm_context[l], from, up[l], carrier[l], last_link_state[l])
        /\ SpeedOK(b, lm_context[l], old_mode[l], new_mode[l], from, active_speed[l])
    BY <1>1, UnderWay
  <1>3. /\ Work(from) \in Sections /\ Work(from) \in Stages \ {"INIT"}
        /\ from \in Stages \ {"INIT"} /\ from \notin Sections /\ "?" \in Results
        /\ from \notin {"DETECTION_DONE", "ESTABLISH_DONE"}
    BY <1>1 DEF Work, Sections, Stages, TryLockStages, Results
  <1>4. PICK to \in {from, Work(from)}, r \in BOOLEAN :
           /\ Moved(l, to, r, "?") /\ (~r => to = from)
           /\ lock' = lock \/ (lock' = {l} /\ r /\ to = Work(from))
    BY <1>1, <1>2, <1>3, GotoMoves, ReturnMoves
  <1>5. LockMoved(l, r /\ to \in Sections)
    <2>1. l \notin lock /\ l \in board.links
      BY <1>2, <1>3 DEF CallOK, TypeOK
    <2> QED BY <1>1, <1>2, <1>3, <1>4, <2>1 DEF LockMoved, TypeOK
  <1>6. CallFits(b, to, r, "?")
    <2>1. Work(from) \notin {"DETECTION_DONE", "ESTABLISH_DONE"}
      BY <1>3 DEF Sections
    <2> QED BY <1>3, <1>4, <2>1 DEF CallFits
  <1>7. StageOK(lm_context[l], old_mode[l], new_mode[l], to, "?")
    BY <1>1, <1>2 DEF StageOK, TryLockStages, Work
  <1>8. PortOK(lm_context[l], to, up[l], carrier[l], last_link_state[l])
    BY <1>1, <1>2 DEF PortOK, TryLockStages, Work
  <1>9. SpeedOK(b, lm_context[l], old_mode[l], new_mode[l], to, active_speed[l])
    BY <1>1, <1>2 DEF SpeedOK, TryLockStages, Work
  <1>10. /\ ModesMoved(l, lm_context[l], old_mode[l], new_mode[l])
         /\ PortMoved(l, up[l], carrier[l], last_link_state[l], active_speed[l])
    BY <1>1, <1>2, ModesStay, PortStays
  <1> HIDE DEF from
  <1> QED BY <1>1, <1>2, <1>3, <1>4, <1>5, <1>6, <1>7, <1>8, <1>9, <1>10, StepKeeps

(* The lock is given back. *)
LEMMA UnlockMoves ==
    ASSUME TypeOK, NEW l \in Links, Unlock(l), board' = board, NEW h,
           serdes_mode' \in {"UNKNOWN", "25G", "KR", "SGMII"}
    PROVE  LockMoved(l, h)
  BY DEF Unlock, LockMoved, TypeOK

(* TRY_LOCK_DETECTION, the lock taken *)
LEMMA DetectionKeeps ==
    ASSUME IInv, NEW l \in Links, NEW expired \in BOOLEAN, Detection(l, expired)
    PROVE  Kept(l) /\ ~reset'
  <1> DEFINE lm == lm_context[l]
             old == old_mode[l]
             new == new_mode[l]
  <1>1. /\ run[l] /\ lm_step_stage[l] = "DETECTION"
        /\ UNCHANGED port /\ UNCHANGED wa /\ Unlock(l)
        /\ board' = board /\ serdes_mode' = serdes_mode
    BY DEF Detection, At
  <1>2. PICK r \in al_eth_lm_link_detection_step(b, lm, old, new, expired) :
          /\ lm_context' = [lm_context EXCEPT ![l] = r.lm]
          /\ old_mode' = [old_mode EXCEPT ![l] = r.old]
          /\ new_mode' = [new_mode EXCEPT ![l] = r.new]
          /\ \/ r.rc = "inprogress" /\ Return(l, "TRY_LOCK_DETECTION")
             \/ r.rc = "error" /\ Return(l, "GROUP_LM_FLOW")
             \/ r.rc = "ok" /\ Goto(l, "DETECTION_DONE", IF r.fault THEN "fault" ELSE "no_fault")
    BY DEF Detection
  <1>3. /\ TypeOK /\ b \in Board /\ Prepared(b, lm, old, new)
        /\ StageOK(lm, old, new, "DETECTION", got[l])
        /\ PortOK(lm, "DETECTION", up[l], carrier[l], last_link_state[l])
        /\ SpeedOK(b, lm, old, new, "DETECTION", active_speed[l])
    BY <1>1, UnderWay
  <1>4. lm \in LmContext /\ old \in Modes /\ new \in Modes
    BY <1>3, PortTypes
  <1>5. lm.establish = "INIT"
    BY <1>3, <1>4 DEF StageOK, LmContext
  <1>6. DetectionResult(b, lm, old, new, r)
    BY <1>2, <1>3, <1>4, <1>5, DetectionStep
  <1>7. ModesMoved(l, r.lm, r.old, r.new)
    <2>1. r.lm \in LmContext /\ r.old \in Modes /\ r.new \in Modes
      BY <1>6 DEF DetectionResult
    <2>2. /\ lm_context \in [Links -> LmContext]
          /\ old_mode \in [Links -> Modes] /\ new_mode \in [Links -> Modes]
      BY <1>3 DEF TypeOK, Modes
    <2> QED BY <1>2, <2>1, <2>2 DEF ModesMoved
  <1>8. PICK to \in {"TRY_LOCK_DETECTION", "GROUP_LM_FLOW", "DETECTION_DONE"}, e \in BOOLEAN,
             g \in {"?", "fault", "no_fault"} :
           /\ Moved(l, to, e, g)
           /\ to = "DETECTION_DONE" <=> e
           /\ to = "DETECTION_DONE" => r.rc = "ok" /\ g = IF r.fault THEN "fault" ELSE "no_fault"
           /\ to = "TRY_LOCK_DETECTION" => r.rc = "inprogress"
           /\ to = "GROUP_LM_FLOW" => r.rc = "error"
    <2> DEFINE g == IF r.fault THEN "fault" ELSE "no_fault"
    <2>1. /\ {"TRY_LOCK_DETECTION", "GROUP_LM_FLOW", "DETECTION_DONE"} \subseteq Stages
          /\ {"?", "fault", "no_fault"} \subseteq Results /\ g \in {"fault", "no_fault"}
      BY DEF Stages, Results
    <2>2. CASE r.rc = "inprogress" /\ Return(l, "TRY_LOCK_DETECTION")
      BY <1>3, <2>1, <2>2, ReturnMoves
    <2>3. CASE r.rc = "error" /\ Return(l, "GROUP_LM_FLOW")
      BY <1>3, <2>1, <2>3, ReturnMoves
    <2>4. CASE r.rc = "ok" /\ Goto(l, "DETECTION_DONE", g)
      <3>1. Moved(l, "DETECTION_DONE", TRUE, g)
        BY <1>1, <1>3, <2>1, <2>4, GotoMoves
      <3> QED BY <2>1, <2>4, <3>1
    <2> QED BY <1>2, <2>2, <2>3, <2>4
  <1>9. to \in Stages \ {"INIT"} /\ g \in Results
    BY DEF Stages, Results
  <1> HIDE DEF lm, old, new
  <1>10. CallFits(b, to, e, g)
    BY <1>6, <1>8 DEF CallFits, Sections, DetectionResult
  <1>11. Prepared(b, r.lm, r.old, r.new)
    BY <1>6 DEF DetectionResult
  <1>12. StageOK(r.lm, r.old, r.new, to, g)
    BY <1>6, <1>8 DEF StageOK, DetectionResult
  <1>13. PortOK(r.lm, to, up[l], carrier[l], last_link_state[l])
    BY <1>3, <1>6, <1>8 DEF PortOK, DetectionResult
  <1>14. SpeedOK(b, r.lm, r.old, r.new, to, active_speed[l])
    <2> SUFFICES ASSUME ~b.retimer PROVE SpeedOK(b, r.lm, r.old, r.new, to, active_speed[l])
      BY DEF SpeedOK
    <2>1. lm.detection \in {"INIT", "FINAL"} /\ lm.mode = new
      BY <1>3, <1>4 DEF Prepared, LmContext
    <2>2. CASE lm.detection = "INIT"
      BY <1>3, <1>6, <1>8, <2>1, <2>2 DEF SpeedOK, DetectionResult
    <2>3. CASE lm.detection = "FINAL"
      BY <1>3, <1>6, <1>8, <2>3 DEF SpeedOK, DetectionResult
    <2> QED BY <2>1, <2>2, <2>3
  <1>15. /\ PortMoved(l, up[l], carrier[l], last_link_state[l], active_speed[l])
         /\ LockMoved(l, e /\ to \in Sections)
    <2>1. serdes_mode' \in {"UNKNOWN", "25G", "KR", "SGMII"}
      BY <1>1, <1>3 DEF TypeOK
    <2> QED BY <1>1, <1>3, <2>1, PortStays, UnlockMoves
  <1> QED BY <1>1, <1>7, <1>8, <1>9, <1>10, <1>11, <1>12, <1>13, <1>14, <1>15, StepKeeps

(* al_eth_lm_mode_change *)
LEMMA ModeChangeMoves ==
    ASSUME TypeOK, NEW l \in Links, ModeChange(l), UNCHANGED last_link_state
    PROVE  /\ old_mode[l] # Disconnected =>
                 PortMoved(l, FALSE, FALSE, last_link_state[l], active_speed'[l])
           /\ old_mode[l] = Disconnected =>
                 PortMoved(l, up[l], carrier[l], last_link_state[l], active_speed'[l])
           /\ new_mode[l] # Disconnected => active_speed'[l] = Speed(new_mode[l])
  <1>1. Speed(new_mode[l]) \in {"none", "1G", "10G", "25G"}
    BY DEF Speed
  <1>2. /\ up \in [Links -> BOOLEAN] /\ carrier \in [Links -> BOOLEAN]
        /\ last_link_state \in [Links -> {"UP", "DOWN", "DOWN_RF"}]
        /\ active_speed \in [Links -> {"none", "1G", "10G", "25G"}]
    BY DEF TypeOK
  <1>3. /\ active_speed' \in [Links -> {"none", "1G", "10G", "25G"}]
        /\ \A k \in Links : k # l => active_speed'[k] = active_speed[k]
        /\ new_mode[l] # Disconnected => active_speed'[l] = Speed(new_mode[l])
    BY <1>1, <1>2 DEF ModeChange
  <1>4. CASE old_mode[l] # Disconnected
    <2>1. up' = [up EXCEPT ![l] = FALSE] /\ carrier' = [carrier EXCEPT ![l] = FALSE]
      BY <1>4 DEF ModeChange
    <2> QED BY <1>2, <1>3, <1>4, <2>1 DEF PortMoved
  <1>5. CASE old_mode[l] = Disconnected
    <2>1. up' = up /\ carrier' = carrier
      BY <1>5 DEF ModeChange
    <2> QED BY <1>2, <1>3, <1>5, <2>1 DEF PortMoved
  <1> QED BY <1>4, <1>5, <1>3

(* DETECTION_DONE: a link that is not down has not changed its mode. *)
LEMMA DetectionDoneKeeps ==
    ASSUME IInv, NEW l \in Links, DetectionDone(l)
    PROVE  Kept(l) /\ ~reset'
  <1> DEFINE lm == lm_context[l]
             old == old_mode[l]
             new == new_mode[l]
             last == last_link_state[l]
  <1>1. /\ run[l] /\ lm_step_stage[l] = "DETECTION_DONE"
        /\ UNCHANGED group /\ UNCHANGED modes /\ UNCHANGED wa
    BY DEF DetectionDone, At
  <1>2. /\ TypeOK /\ CallOK(l) /\ b \in Board /\ Prepared(b, lm, old, new)
        /\ StageOK(lm, old, new, "DETECTION_DONE", got[l])
        /\ PortOK(lm, "DETECTION_DONE", up[l], carrier[l], last)
        /\ SpeedOK(b, lm, old, new, "DETECTION_DONE", active_speed[l])
    BY <1>1, UnderWay
  <1>3. PICK to \in {"GROUP_LM_FLOW", "TRY_LOCK_SPEED_CHANGE"}, r \in BOOLEAN :
           /\ Moved(l, to, r, "?")
           /\ to = "TRY_LOCK_SPEED_CHANGE" => new # Disconnected
           /\ \/ UNCHANGED port /\ (got[l] = "no_fault" \/ old = new)
              \/ ModeChange(l) /\ UNCHANGED last_link_state /\ old # new
    <2>1. /\ "GROUP_LM_FLOW" \in Stages /\ "TRY_LOCK_SPEED_CHANGE" \in Stages
          /\ "?" \in Results
      BY DEF Stages, Results
    <2>2. \/ Return(l, "GROUP_LM_FLOW")
          \/ Goto(l, "TRY_LOCK_SPEED_CHANGE", "?") /\ new # Disconnected
      BY DEF DetectionDone
    <2>3. \/ UNCHANGED port /\ (got[l] = "no_fault" \/ old = new)
          \/ ModeChange(l) /\ UNCHANGED last_link_state /\ old # new
      BY DEF DetectionDone
    <2> QED BY <1>1, <1>2, <2>1, <2>2, <2>3, ReturnMoves, GotoMoves
  <1> HIDE DEF lm, old, new, last
  <1>4. PICK u, c, speed :
           /\ PortMoved(l, u, c, last, speed)
           /\ PortOK(lm, to, u, c, last)
           /\ SpeedOK(b, lm, old, new, to, speed)
    <2>1. CASE UNCHANGED port /\ (got[l] = "no_fault" \/ old = new)
      <3>1. PortMoved(l, up[l], carrier[l], last, active_speed[l])
        BY <1>2, <2>1, PortStays DEF last
      <3>2. PortOK(lm, to, up[l], carrier[l], last)
        BY <1>2 DEF PortOK
      <3>3. old = new /\ lm.detection = "INIT"
        BY <1>2, <2>1 DEF StageOK
      <3>4. SpeedOK(b, lm, old, new, to, active_speed[l])
        BY <1>2, <3>3 DEF SpeedOK
      <3> QED BY <3>1, <3>2, <3>4
    <2>2. CASE ModeChange(l) /\ UNCHANGED last_link_state /\ old # new
      <3>1. lm.link_state = "DOWN" /\ lm.detection = "INIT"
        BY <1>2, <2>2 DEF StageOK
      <3>2. new # Disconnected => active_speed'[l] = Speed(new)
        BY <1>2, <2>2, ModeChangeMoves DEF new
      <3>3. SpeedOK(b, lm, old, new, to, active_speed'[l])
        BY <3>1, <3>2 DEF SpeedOK
      <3>4. CASE old # Disconnected
        <4>1. PortMoved(l, FALSE, FALSE, last, active_speed'[l])
          BY <1>2, <2>2, <3>4, ModeChangeMoves DEF old, last
        <4>2. PortOK(lm, to, FALSE, FALSE, last)
          BY <3>1 DEF PortOK
        <4> QED BY <3>3, <4>1, <4>2
      <3>5. CASE old = Disconnected
        <4>1. PortMoved(l, up[l], carrier[l], last, active_speed'[l])
          BY <1>2, <2>2, <3>5, ModeChangeMoves DEF old, last
        <4>2. PortOK(lm, to, up[l], carrier[l], last)
          BY <1>2, <3>1 DEF PortOK
        <4> QED BY <3>3, <4>1, <4>2
      <3> QED BY <3>4, <3>5
    <2> QED BY <1>3, <2>1, <2>2
  <1>5. to \in Stages \ {"INIT"} /\ "?" \in Results
    BY DEF Stages, Results
  <1>6. LockMoved(l, r /\ to \in Sections)
    BY <1>1, <1>2 DEF LockMoved, group, TypeOK, CallOK, Sections
  <1>7. CallFits(b, to, r, "?")
    BY DEF CallFits, Sections
  <1>8. StageOK(lm, old, new, to, "?")
    BY <1>2, <1>3 DEF StageOK
  <1>9. ModesMoved(l, lm, old, new)
    BY <1>1, <1>2, ModesStay DEF lm, old, new
  <1> QED BY <1>1, <1>2, <1>3, <1>4, <1>5, <1>6, <1>7, <1>8, <1>9, StepKeeps

(* TRY_LOCK_SPEED_CHANGE, the lock taken *)
LEMMA SpeedChangeKeeps ==
    ASSUME IInv, NEW l \in Links, SpeedChange(l)
    PROVE  Kept(l) /\ ~reset'
  <1>1. /\ run[l] /\ lm_step_stage[l] = "SPEED_CHANGE" /\ board' = board
        /\ UNCHANGED modes /\ UNCHANGED port /\ UNCHANGED wa /\ Unlock(l)
        /\ Goto(l, "PRE_ESTABLISH", "?")
    BY DEF SpeedChange, At
  <1>2. /\ TypeOK
        /\ Prepared(b, lm_context[l], old_mode[l], new_mode[l])
        /\ StageOK(lm_context[l], old_mode[l], new_mode[l], "SPEED_CHANGE", got[l])
        /\ PortOK(lm_context[l], "SPEED_CHANGE", up[l], carrier[l], last_link_state[l])
        /\ SpeedOK(b, lm_context[l], old_mode[l], new_mode[l], "SPEED_CHANGE", active_speed[l])
    BY <1>1, UnderWay
  <1>3. serdes_mode' \in {"UNKNOWN", "25G", "KR", "SGMII"}
    BY <1>2 DEF SpeedChange, Supported, TypeOK
  <1>4. "PRE_ESTABLISH" \in Stages \ {"INIT"} /\ "?" \in Results
    BY DEF Stages, Results
  <1>5. Moved(l, "PRE_ESTABLISH", TRUE, "?")
    BY <1>1, <1>2, <1>4, GotoMoves
  <1>6. LockMoved(l, TRUE /\ "PRE_ESTABLISH" \in Sections)
    BY <1>1, <1>2, <1>3, UnlockMoves
  <1>7. CallFits(b, "PRE_ESTABLISH", TRUE, "?")
    BY DEF CallFits, Sections
  <1>8. StageOK(lm_context[l], old_mode[l], new_mode[l], "PRE_ESTABLISH", "?")
    BY <1>2 DEF StageOK
  <1>9. PortOK(lm_context[l], "PRE_ESTABLISH", up[l], carrier[l], last_link_state[l])
    BY <1>2 DEF PortOK
  <1>10. SpeedOK(b, lm_context[l], old_mode[l], new_mode[l], "PRE_ESTABLISH", active_speed[l])
    BY <1>2 DEF SpeedOK
  <1>11. /\ ModesMoved(l, lm_context[l], old_mode[l], new_mode[l])
         /\ PortMoved(l, up[l], carrier[l], last_link_state[l], active_speed[l])
    BY <1>1, <1>2, ModesStay, PortStays
  <1> QED BY <1>1, <1>2, <1>4, <1>5, <1>6, <1>7, <1>8, <1>9, <1>10, <1>11, StepKeeps

(* PRE_ESTABLISH: al_eth_up *)
LEMMA PreEstablishKeeps ==
    ASSUME IInv, NEW l \in Links, PreEstablish(l)
    PROVE  Kept(l) /\ ~reset'
  <1>1. /\ run[l] /\ lm_step_stage[l] = "PRE_ESTABLISH"
        /\ UNCHANGED group /\ UNCHANGED modes /\ UNCHANGED wa
        /\ UNCHANGED <<last_link_state, carrier, active_speed>>
        /\ \/ Goto(l, "TRY_LOCK_ESTABLISH", "?") /\ up' = [up EXCEPT ![l] = TRUE]
           \/ Return(l, "GROUP_LM_FLOW") /\ up' = up
    BY DEF PreEstablish, At
  <1>2. /\ TypeOK /\ CallOK(l)
        /\ Prepared(b, lm_context[l], old_mode[l], new_mode[l])
        /\ StageOK(lm_context[l], old_mode[l], new_mode[l], "PRE_ESTABLISH", got[l])
        /\ PortOK(lm_context[l], "PRE_ESTABLISH", up[l], carrier[l], last_link_state[l])
        /\ SpeedOK(b, lm_context[l], old_mode[l], new_mode[l], "PRE_ESTABLISH", active_speed[l])
    BY <1>1, UnderWay
  <1>3. PICK to \in {"TRY_LOCK_ESTABLISH", "GROUP_LM_FLOW"}, r \in BOOLEAN, u \in {TRUE, up[l]} :
           /\ Moved(l, to, r, "?") /\ (r <=> to = "TRY_LOCK_ESTABLISH")
           /\ (to = "TRY_LOCK_ESTABLISH" => u)
           /\ PortMoved(l, u, carrier[l], last_link_state[l], active_speed[l])
    <2>1. /\ "TRY_LOCK_ESTABLISH" \in Stages /\ "GROUP_LM_FLOW" \in Stages /\ "?" \in Results
      BY DEF Stages, Results
    <2>2. /\ up \in [Links -> BOOLEAN] /\ carrier \in [Links -> BOOLEAN]
          /\ last_link_state \in [Links -> {"UP", "DOWN", "DOWN_RF"}]
          /\ active_speed \in [Links -> {"none", "1G", "10G", "25G"}]
      BY <1>2 DEF TypeOK
    <2>3. CASE Goto(l, "TRY_LOCK_ESTABLISH", "?") /\ up' = [up EXCEPT ![l] = TRUE]
      <3>1. Moved(l, "TRY_LOCK_ESTABLISH", TRUE, "?")
        BY <1>1, <1>2, <2>1, <2>3, GotoMoves
      <3>2. PortMoved(l, TRUE, carrier[l], last_link_state[l], active_speed[l])
        BY <1>1, <2>2, <2>3 DEF PortMoved
      <3> QED BY <3>1, <3>2
    <2>4. CASE Return(l, "GROUP_LM_FLOW") /\ up' = up
      <3>1. Moved(l, "GROUP_LM_FLOW", FALSE, "?")
        BY <1>1, <1>2, <2>1, <2>4, ReturnMoves
      <3>2. PortMoved(l, up[l], carrier[l], last_link_state[l], active_speed[l])
        BY <1>1, <2>2, <2>4 DEF PortMoved
      <3> QED BY <3>1, <3>2
    <2> QED BY <1>1, <2>3, <2>4
  <1>4. to \in Stages \ {"INIT"} /\ "?" \in Results
    BY DEF Stages, Results
  <1>5. LockMoved(l, r /\ to \in Sections)
    BY <1>1, <1>2 DEF LockMoved, group, TypeOK, CallOK, Sections
  <1>6. CallFits(b, to, r, "?")
    BY DEF CallFits, Sections
  <1>7. StageOK(lm_context[l], old_mode[l], new_mode[l], to, "?")
    BY <1>2 DEF StageOK
  <1>8. PortOK(lm_context[l], to, u, carrier[l], last_link_state[l])
    BY <1>2, <1>3 DEF PortOK
  <1>9. SpeedOK(b, lm_context[l], old_mode[l], new_mode[l], to, active_speed[l])
    BY <1>2 DEF SpeedOK
  <1>10. ModesMoved(l, lm_context[l], old_mode[l], new_mode[l])
    BY <1>1, <1>2, ModesStay
  <1> QED BY <1>1, <1>2, <1>3, <1>4, <1>5, <1>6, <1>7, <1>8, <1>9, <1>10, StepKeeps

(* TRY_LOCK_ESTABLISH, the lock taken *)
LEMMA EstablishKeeps ==
    ASSUME IInv, NEW l \in Links, NEW expired \in BOOLEAN, Establish(l, expired)
    PROVE  Kept(l) /\ ~reset'
  <1> DEFINE lm == lm_context[l]
             old == old_mode[l]
             new == new_mode[l]
  <1>1. /\ run[l] /\ lm_step_stage[l] = "ESTABLISH"
        /\ UNCHANGED port /\ UNCHANGED wa /\ Unlock(l) /\ UNCHANGED <<old_mode, new_mode>>
        /\ board' = board /\ serdes_mode' = serdes_mode
    BY DEF Establish, At
  <1>2. PICK r \in al_eth_lm_link_establish_step(b, lm, expired) :
          /\ lm_context' = [lm_context EXCEPT ![l] = r.lm]
          /\ IF r.rc = "inprogress" THEN Return(l, "TRY_LOCK_ESTABLISH")
             ELSE Goto(l, "ESTABLISH_DONE", IF r.rc # "ok" THEN r.rc
                                            ELSE IF r.link_up THEN "up" ELSE "remote_fault")
    BY DEF Establish
  <1>3. /\ TypeOK /\ b \in Board /\ Prepared(b, lm, old, new)
        /\ StageOK(lm, old, new, "ESTABLISH", got[l])
        /\ PortOK(lm, "ESTABLISH", up[l], carrier[l], last_link_state[l])
        /\ SpeedOK(b, lm, old, new, "ESTABLISH", active_speed[l])
    BY <1>1, UnderWay
  <1>4. lm \in LmContext /\ old \in Modes /\ new \in Modes
    BY <1>3, PortTypes
  <1>5. lm.detection = "INIT" /\ lm.mode # Disconnected /\ new # Disconnected
    BY <1>3 DEF StageOK, Prepared
  <1>6. EstablishResult(b, lm, old, new, r)
    BY <1>2, <1>3, <1>4, <1>5, EstablishStep
  <1>7. ModesMoved(l, r.lm, old, new)
    <2>1. r.lm \in LmContext
      BY <1>6 DEF EstablishResult
    <2>2. /\ lm_context \in [Links -> LmContext]
          /\ old_mode \in [Links -> Modes] /\ new_mode \in [Links -> Modes]
      BY <1>3 DEF TypeOK, Modes
    <2> QED BY <1>1, <1>2, <2>1, <2>2 DEF ModesMoved
  <1>8. PICK to \in {"TRY_LOCK_ESTABLISH", "ESTABLISH_DONE"}, e \in BOOLEAN, g \in Results :
           /\ Moved(l, to, e, g)
           /\ to = "ESTABLISH_DONE" <=> e
           /\ to = "ESTABLISH_DONE" => r.rc # "inprogress" /\ g # "?"
           /\ to = "TRY_LOCK_ESTABLISH" => r.rc = "inprogress"
           /\ g = "invalid_fec_state" => r.rc = "invalid_fec_state"
    <2> DEFINE g == IF r.rc # "ok" THEN r.rc ELSE IF r.link_up THEN "up" ELSE "remote_fault"
    <2>1. /\ "TRY_LOCK_ESTABLISH" \in Stages /\ "ESTABLISH_DONE" \in Stages /\ "?" \in Results
      BY DEF Stages, Results
    <2>2. CASE r.rc = "inprogress"
      <3>1. Moved(l, "TRY_LOCK_ESTABLISH", FALSE, "?")
        BY <1>2, <1>3, <2>1, <2>2, ReturnMoves
      <3> QED BY <2>1, <2>2, <3>1
    <2>3. CASE r.rc # "inprogress"
      <3>1. g \in Results /\ g # "?" /\ (g = "invalid_fec_state" => r.rc = "invalid_fec_state")
        BY <1>6, <2>3 DEF EstablishResult, Results
      <3>2. Moved(l, "ESTABLISH_DONE", TRUE, g)
        BY <1>1, <1>2, <1>3, <2>1, <2>3, <3>1, GotoMoves
      <3> HIDE DEF g
      <3> QED BY <2>3, <3>1, <3>2
    <2> QED BY <2>2, <2>3
  <1>9. to \in Stages \ {"INIT"}
    BY DEF Stages
  <1> HIDE DEF lm, old, new
  <1>10. CallFits(b, to, e, g)
    BY <1>6, <1>8 DEF CallFits, Sections, EstablishResult
  <1>11. Prepared(b, r.lm, old, new)
    BY <1>6 DEF EstablishResult
  <1>12. StageOK(r.lm, old, new, to, g)
    BY <1>5, <1>6, <1>8 DEF StageOK, EstablishResult
  <1>13. PortOK(r.lm, to, up[l], carrier[l], last_link_state[l])
    BY <1>3, <1>6, <1>8 DEF PortOK, EstablishResult
  <1>14. SpeedOK(b, r.lm, old, new, to, active_speed[l])
    BY <1>3, <1>5, <1>6, <1>8 DEF SpeedOK, EstablishResult
  <1>15. /\ PortMoved(l, up[l], carrier[l], last_link_state[l], active_speed[l])
         /\ LockMoved(l, e /\ to \in Sections)
    <2>1. serdes_mode' \in {"UNKNOWN", "25G", "KR", "SGMII"}
      BY <1>1, <1>3 DEF TypeOK
    <2> QED BY <1>1, <1>3, <2>1, PortStays, UnlockMoves
  <1> QED BY <1>1, <1>7, <1>8, <1>9, <1>10, <1>11, <1>12, <1>13, <1>14, <1>15, StepKeeps

(* ESTABLISH_DONE: the carrier follows the result. *)
LEMMA EstablishDoneKeeps ==
    ASSUME IInv, NEW l \in Links, EstablishDone(l)
    PROVE  Kept(l) /\ ~reset'
  <1> DEFINE state == CASE got[l] = "up" -> "UP" [] got[l] = "remote_fault" -> "DOWN_RF"
                        [] OTHER -> "DOWN"
             c == IF state = "UP" THEN TRUE
                  ELSE IF last_link_state[l] = "UP" THEN FALSE ELSE carrier[l]
  <1>1. /\ run[l] /\ lm_step_stage[l] = "ESTABLISH_DONE"
        /\ UNCHANGED group /\ UNCHANGED modes /\ UNCHANGED wa /\ UNCHANGED <<up, active_speed>>
        /\ Goto(l, "GROUP_LM_FLOW", "?")
        /\ last_link_state' = [last_link_state EXCEPT ![l] = state]
        /\ carrier' = [carrier EXCEPT ![l] = c]
    BY DEF EstablishDone, At
  <1>2. /\ TypeOK /\ CallOK(l)
        /\ Prepared(b, lm_context[l], old_mode[l], new_mode[l])
        /\ StageOK(lm_context[l], old_mode[l], new_mode[l], "ESTABLISH_DONE", got[l])
        /\ PortOK(lm_context[l], "ESTABLISH_DONE", up[l], carrier[l], last_link_state[l])
        /\ SpeedOK(b, lm_context[l], old_mode[l], new_mode[l], "ESTABLISH_DONE",
                   active_speed[l])
    BY <1>1, UnderWay
  <1>3. state \in {"UP", "DOWN", "DOWN_RF"}
    OBVIOUS
  <1> HIDE DEF state
  <1>4. PortMoved(l, up[l], c, state, active_speed[l])
    <2>1. /\ up \in [Links -> BOOLEAN] /\ carrier \in [Links -> BOOLEAN]
          /\ last_link_state \in [Links -> {"UP", "DOWN", "DOWN_RF"}]
          /\ active_speed \in [Links -> {"none", "1G", "10G", "25G"}]
      BY <1>2 DEF TypeOK
    <2>2. c \in BOOLEAN
      BY <2>1
    <2> HIDE DEF c
    <2> QED BY <1>1, <1>3, <2>1, <2>2 DEF PortMoved
  <1>5. PortOK(lm_context[l], "GROUP_LM_FLOW", up[l], c, state)
    BY <1>2 DEF PortOK
  <1> HIDE DEF c
  <1>6. "GROUP_LM_FLOW" \in Stages \ {"INIT"} /\ "?" \in Results
    BY DEF Stages, Results
  <1>7. Moved(l, "GROUP_LM_FLOW", TRUE, "?")
    BY <1>1, <1>2, <1>6, GotoMoves
  <1>8. LockMoved(l, TRUE /\ "GROUP_LM_FLOW" \in Sections)
    BY <1>1, <1>2 DEF LockMoved, group, TypeOK, CallOK, Sections
  <1>9. CallFits(b, "GROUP_LM_FLOW", TRUE, "?")
    BY DEF CallFits, Sections
  <1>10. StageOK(lm_context[l], old_mode[l], new_mode[l], "GROUP_LM_FLOW", "?")
    BY <1>2 DEF StageOK
  <1>11. SpeedOK(b, lm_context[l], old_mode[l], new_mode[l], "GROUP_LM_FLOW", active_speed[l])
    BY <1>2 DEF SpeedOK
  <1>12. ModesMoved(l, lm_context[l], old_mode[l], new_mode[l])
    BY <1>1, <1>2, ModesStay
  <1> QED BY <1>1, <1>2, <1>4, <1>5, <1>6, <1>7, <1>8, <1>9, <1>10, <1>11, <1>12, StepKeeps
-----------------------------------------------------------------------------
(* The flags after a flow of port l: its own only if it is in trouble, and *)
(* a workaround only if every connected port has left one.                 *)
LEMMA FlowFlags ==
    ASSUME IInv, NEW l \in Links, Flow(l)
    PROVE  /\ need_pll_wa' \subseteq board.links /\ need_watchdog_wa' \subseteq board.links
           /\ reset' \in BOOLEAN /\ serdes_mode' \in {"UNKNOWN", "25G", "KR", "SGMII"}
           /\ \A k \in Links : k # l /\ k \in Flagged' => k \in Flagged
           /\ l \in Flagged' => (b.serdes = "25G" /\ Troubled(l)) \/ (b.serdes = "HSSP" /\ l \in Flagged)
           /\ reset' => \A k \in registered : new_mode[k] # Disconnected =>
                           IF k = l THEN Troubled(l) ELSE k \in Flagged
  <1>0. TypeOK /\ l \in board.links
    BY UnderWay DEF IInv, Flow, At, TypeOK
  <1>1. CASE b.serdes = "25G"
    <2>1. PICK pll, wd \in BOOLEAN :
             /\ al_eth_group_lm_check_workarounds(l, pll, wd)
             /\ al_eth_group_lm_group_flow(With(need_pll_wa, l, pll),
                                           With(need_watchdog_wa, l, wd))
      BY <1>1 DEF Flow
    <2> DEFINE P == With(need_pll_wa, l, pll)
               W == With(need_watchdog_wa, l, wd)
               reinit == Connected # {} /\ (Connected \subseteq P \/ Connected \subseteq W)
    <2>2. (pll => Troubled(l)) /\ (wd => Troubled(l))
      BY <2>1 DEF al_eth_group_lm_check_workarounds
    <2>3. /\ P \subseteq board.links /\ W \subseteq board.links
          /\ (l \in P \/ l \in W => Troubled(l))
          /\ \A k \in Links : k # l /\ (k \in P \/ k \in W) => k \in Flagged
      BY <1>0, <2>2 DEF With, TypeOK, Flagged
    <2>4. /\ need_pll_wa' = P /\ need_watchdog_wa' \subseteq W
          /\ serdes_mode' \in {"25G", serdes_mode}
          /\ reset' = reinit
      <3> HIDE DEF P, W
      <3>1. al_eth_group_lm_group_flow(P, W)
        BY <2>1 DEF P, W
      <3> QED BY <3>1 DEF al_eth_group_lm_group_flow
    <2> HIDE DEF P, W
    <2>5. \A k \in Links : k \in Flagged' => k \in P \/ k \in W
      BY <2>4 DEF Flagged
    <2>6. reset' => \A k \in registered : new_mode[k] # Disconnected => k \in P \/ k \in W
      BY <2>4 DEF Connected
    <2>7. reset' \in BOOLEAN
      BY <2>4
    <2>8. registered \subseteq Links
      BY <1>0, PortTypes DEF TypeOK
    <2>9. serdes_mode' \in {"UNKNOWN", "25G", "KR", "SGMII"}
      BY <1>0, <2>4 DEF TypeOK
    <2> HIDE DEF reinit
    <2>10. need_pll_wa' \subseteq board.links /\ need_watchdog_wa' \subseteq board.links
      BY <2>3, <2>4
    <2> QED BY <1>1, <2>3, <2>5, <2>6, <2>7, <2>8, <2>9, <2>10
  <1>2. CASE b.serdes # "25G"
    <2>1. b.serdes = "HSSP" /\ reset' = FALSE /\ UNCHANGED <<wa, serdes_mode>>
      BY <1>2 DEF Flow
    <2> QED BY <1>0, <2>1 DEF wa, Flagged, TypeOK
  <1> QED BY <1>1, <1>2

(* The end of the flow *)
LEMMA FlowKeeps ==
    ASSUME IInv, NEW l \in Links, Flow(l)
    PROVE  Kept(l) /\ ResetSparesSettled'
  <1>1. /\ run[l] /\ lm_step_stage[l] = "FLOW"
        /\ lm_step_stage' = [lm_step_stage EXCEPT ![l] = "INIT"]
        /\ run' = [run EXCEPT ![l] = FALSE]
        /\ Unlock(l) /\ board' = board /\ registered' = registered /\ got' = got
        /\ UNCHANGED modes /\ UNCHANGED port
    BY DEF Flow, At
  <1>2. /\ TypeOK /\ CallOK(l) /\ LinkOK(l) /\ l \in registered
        /\ Prepared(b, lm_context[l], old_mode[l], new_mode[l])
        /\ StageOK(lm_context[l], old_mode[l], new_mode[l], "FLOW", got[l])
        /\ PortOK(lm_context[l], "FLOW", up[l], carrier[l], last_link_state[l])
        /\ SpeedOK(b, lm_context[l], old_mode[l], new_mode[l], "FLOW", active_speed[l])
    BY <1>1, UnderWay
  <1>3. /\ lm_step_stage' \in [Links -> Stages] /\ run' \in [Links -> BOOLEAN]
        /\ lm_step_stage'[l] = "INIT" /\ run'[l] = FALSE
        /\ \A k \in Links : k # l => lm_step_stage'[k] = lm_step_stage[k] /\ run'[k] = run[k]
    BY <1>1, <1>2 DEF TypeOK, Stages
  <1>4. /\ lock' \subseteq board.links /\ l \notin lock'
        /\ \A k \in Links : k \in lock' => k \in lock
    BY <1>1, <1>2 DEF Unlock, TypeOK
  <1>5. /\ lm_context' = lm_context /\ old_mode' = old_mode /\ new_mode' = new_mode
        /\ last_link_state' = last_link_state /\ up' = up /\ carrier' = carrier
        /\ active_speed' = active_speed
    BY <1>1 DEF modes, port
  <1>6. TypeOK'
    BY <1>1, <1>2, <1>3, <1>4, <1>5, FlowFlags DEF TypeOK
  <1>7. Alone(l)
    <2> SUFFICES ASSUME NEW k \in Links, k # l PROVE Same(k)
      BY <1>1 DEF Alone
    <2>1. k \in Flagged' => k \in Flagged
      BY FlowFlags
    <2> QED BY <1>1, <1>3, <1>4, <1>5, <2>1 DEF Same
  <1>8. CallOK(l)'
    BY <1>1, <1>2, <1>3, <1>4 DEF CallOK, Sections, FecManaged, b
  <1>9. LinkOK(l)'
    <2>1. StageOK(lm_context[l], old_mode[l], new_mode[l], "INIT", got[l])
      BY <1>2 DEF StageOK
    <2>2. PortOK(lm_context[l], "INIT", up[l], carrier[l], last_link_state[l])
      BY <1>2 DEF PortOK
    <2>3. SpeedOK(b, lm_context[l], old_mode[l], new_mode[l], "INIT", active_speed[l])
      BY <1>2 DEF SpeedOK
    <2>4. FlagsOK(b, lm_context[l], lm_step_stage[l], l \in Flagged)
      BY <1>2 DEF LinkOK
    <2>5. FlagsOK(b, lm_context[l], "INIT", l \in Flagged')
      BY <2>4, FlowFlags DEF FlagsOK, Troubled
    <2> QED BY <1>1, <1>2, <1>3, <1>5, <2>1, <2>2, <2>3, <2>5, Assemble
  <1>10. ASSUME reset', NEW k \in registered, lm_step_stage'[k] = "INIT",
                new_mode[k] # Disconnected
         PROVE  lm_context[k].link_state # "UP"
    <2>1. k \in Links
      BY <1>2, PortTypes DEF TypeOK
    <2>2. CASE k = l
      BY <1>10, <2>2, FlowFlags DEF Troubled
    <2>3. CASE k # l
      <3>1. k \in Flagged /\ lm_step_stage[k] = "INIT"
        BY <1>3, <1>10, <2>1, <2>3, FlowFlags
      <3>2. LinkOK(k)
        BY <1>10, <2>1 DEF IInv, PortsOK
      <3> QED BY <3>1, <3>2 DEF LinkOK, FlagsOK
    <2> QED BY <2>2, <2>3
  <1>11. ResetSparesSettled'
    BY <1>1, <1>5, <1>10 DEF ResetSparesSettled
  <1> QED BY <1>6, <1>7, <1>8, <1>9, <1>11 DEF Kept
-----------------------------------------------------------------------------
(* Every step of every port *)
LEMMA NextKeeps ==
    ASSUME IInv, [Next]_vars
    PROVE  IInv'
  <1>1. CASE UNCHANGED vars
    BY <1>1 DEF vars, group, call, modes, wa, port, IInv, TypeOK, PortsOK, CallOK, LinkOK,
                Flagged, ResetSparesSettled, b, Prepared, Rests, FecManaged, StageOK, PortOK,
                SpeedOK, Speed, FlagsOK
  <1>2. ASSUME NEW l \in Links, al_eth_group_lm_port_register(l) PROVE Kept(l) /\ ~reset'
    BY <1>2, RegisterKeeps
  <1>3. ASSUME NEW l \in Links, al_eth_group_lm_port_unregister(l) PROVE Kept(l) /\ ~reset'
    BY <1>3, UnregisterKeeps
  <1>4. ASSUME NEW l \in Links, al_eth_group_lm_link_manage(l)
        PROVE  Kept(l) /\ (~reset' \/ ResetSparesSettled')
    <2>1. CASE Invoke(l)
      BY <2>1, InvokeKeeps
    <2>2. CASE LinkStateCheck(l)
      BY <2>2, LinkStateCheckKeeps
    <2>3. CASE TryLock(l)
      BY <2>3, TryLockKeeps
    <2>4. CASE \E expired \in BOOLEAN : Detection(l, expired)
      BY <2>4, DetectionKeeps
    <2>5. CASE \E expired \in BOOLEAN : Establish(l, expired)
      BY <2>5, EstablishKeeps
    <2>6. CASE DetectionDone(l)
      BY <2>6, DetectionDoneKeeps
    <2>7. CASE SpeedChange(l)
      BY <2>7, SpeedChangeKeeps
    <2>8. CASE PreEstablish(l)
      BY <2>8, PreEstablishKeeps
    <2>9. CASE EstablishDone(l)
      BY <2>9, EstablishDoneKeeps
    <2>10. CASE Flow(l)
      BY <2>10, FlowKeeps
    <2> QED BY <1>4, <2>1, <2>2, <2>3, <2>4, <2>5, <2>6, <2>7, <2>8, <2>9, <2>10
            DEF al_eth_group_lm_link_manage
  <1>5. CASE Next
    <2>1. PICK l \in Links : Kept(l) /\ (~reset' \/ ResetSparesSettled')
      BY <1>2, <1>3, <1>4, <1>5 DEF Next
    <2>2. ResetSparesSettled'
      BY <2>1 DEF ResetSparesSettled
    <2> QED BY <2>1, <2>2, Combine
  <1> QED BY <1>1, <1>5

(* The invariant holds in every reachable state. *)
LEMMA GroupInvariant == Spec => []IInv
  <1>1. IInv /\ [Next]_vars => IInv'
    BY NextKeeps
  <1> QED BY InitIInv, <1>1, PTL DEF Spec

(* Type correctness of the group and its ports, for every set of lanes and *)
(* every board.                                                            *)
THEOREM TypeCorrect == Spec => []TypeOK
  <1>1. IInv => TypeOK
    BY DEF IInv
  <1> QED BY <1>1, GroupInvariant, PTL

(* al_eth_group_lm_link_manage: no call returns with the group lock held   *)
(* or at a stage that reads a local of the call, and the stages that read  *)
(* fault, link_up or rc find them assigned.                                *)
THEOREM CallsWhole == Spec => []CallsAreWhole
  <1>1. IInv => CallsAreWhole
    BY DEF IInv, PortsOK, CallOK, CallsAreWhole, At
  <1> QED BY <1>1, GroupInvariant, PTL

(* The carrier of every port is on only over an interface that is up and a *)
(* link whose last result was up, set to the speed of the link's mode.     *)
THEOREM CarrierIsHonest == Spec => []CarrierHonest
  <1>1. ASSUME IInv PROVE CarrierHonest
    <2> SUFFICES ASSUME NEW l \in registered
                 PROVE  /\ carrier[l] => up[l] /\ last_link_state[l] = "UP"
                        /\ carrier[l] /\ ~b.retimer /\ lm_context[l].link_state = "UP"
                              => active_speed[l] = Speed(lm_context[l].mode)
                        /\ lm_step_stage[l] = "INIT" /\ last_link_state[l] = "UP"
                              /\ lm_context[l].link_state = "UP" => carrier[l]
      BY DEF CarrierHonest
    <2>1. l \in Links /\ TypeOK
      BY <1>1, BoardsAssumption DEF IInv, TypeOK
    <2>2. LinkOK(l)
      BY <1>1, <2>1 DEF IInv, PortsOK
    <2>3. carrier[l] => up[l] /\ last_link_state[l] = "UP"
      BY <2>2 DEF LinkOK, PortOK
    <2>4. lm_step_stage[l] = "INIT" /\ last_link_state[l] = "UP"
             /\ lm_context[l].link_state = "UP" => carrier[l]
      BY <2>2 DEF LinkOK, PortOK
    <2>5. ASSUME ~b.retimer, lm_context[l].link_state = "UP"
          PROVE  active_speed[l] = Speed(lm_context[l].mode)
      <3>1. /\ lm_context[l].mode = new_mode[l] /\ new_mode[l] # Disconnected
            /\ lm_context[l].detection # "FINAL"
        BY <2>2, <2>5 DEF LinkOK, Prepared, Rests
      <3>2. lm_step_stage[l] = "DETECTION_DONE" => old_mode[l] = new_mode[l]
        BY <2>2, <2>5 DEF LinkOK, StageOK
      <3> QED BY <2>2, <2>5, <3>1, <3>2 DEF LinkOK, SpeedOK
    <2> QED BY <2>3, <2>4, <2>5
  <1> QED BY <1>1, GroupInvariant, PTL

(* al_eth_lm_link_establish_step: a link that is up has settled its FEC,   *)
(* reset its gearbox for its speed and set its transmit parameters, and    *)
(* the toggle of the FEC never finds a state it calls invalid.             *)
THEOREM EstablishedLinksReady == Spec => []EstablishedReady
  <1>1. ASSUME IInv PROVE EstablishedReady
    <2> SUFFICES ASSUME NEW l \in registered
                 PROVE  /\ FecSettled(l)
                        /\ lm_context[l].link_state = "UP" => ~lm_context[l].speed_change
                        /\ lm_context[l].link_state = "UP" /\ ~b.retimer
                           => /\ lm_context[l].tx_params # "none"
                              /\ lm_context[l].tx_param_dirty
                                    <=> lm_context[l].tx_params = "trained"
      BY DEF EstablishedReady
    <2>1. l \in Links
      BY <1>1, BoardsAssumption DEF IInv, TypeOK
    <2>2. LinkOK(l) /\ CallOK(l)
      BY <1>1, <2>1 DEF IInv, PortsOK
    <2>3. FecSettled(l)
      BY <2>2 DEF LinkOK, CallOK, FecSettled, FecManaged, Prepared, Rests
    <2> QED BY <2>2, <2>3 DEF LinkOK, Prepared, Rests
  <1> QED BY <1>1, GroupInvariant, PTL

(* al_eth_group_lm_group_flow: the workarounds never initialise the serdes *)
(* under a port that has finished its flow with the link up.               *)
THEOREM ResetSparesLinks == Spec => []ResetSparesSettled
  <1>1. IInv => ResetSparesSettled
    BY DEF IInv
  <1> QED BY <1>1, GroupInvariant, PTL
=============================================================================
