------------------------- MODULE EthLifecycleProofs -------------------------
(***************************************************************************)
(* Proofs about EthLifecycle for every set of boards and link modes.       *)
(***************************************************************************)
EXTENDS EthLifecycle, TLAPS

UpSubs == {"up", "setup_tx", "setup_rx", "request_irq", "complete", "set_up",
           "err_req_irq", "err_setup_rx", "err_setup_tx", "err_setup_int"}
DownSubs == {"down", "napi", "stop", "free"}
UserPlaces == {"idle", "opened", "open_failed", "cancel_link", "cancel_reset", "stop_phy",
               "closed", "unregister"}
ResetPlaces == {"idle", "rtnl_lock", "up", "rtnl_unlock"}
LinkPlaces == {"idle", "detect", "apply", "pre", "pre_done", "establish", "done", "phy_up",
               "phy_done"}

(* The types, and where each actor can be *)
Shape ==
    /\ TypeOK /\ spoiled \in BOOLEAN /\ phydev \in BOOLEAN /\ link_on \in BOOLEAN
    /\ stage \in {"init", "establish"}
    /\ at \in [Actors -> UserPlaces \union ResetPlaces \union LinkPlaces]
    /\ at["user"] \in UserPlaces /\ at["reset"] \in ResetPlaces /\ at["link"] \in LinkPlaces
    /\ sub \in [Actors -> UpSubs \union DownSubs \union {Return, "dead"}]

(* The places that wait for al_eth_up, and those that wait for al_eth_down *)
Waits ==
    \A a \in Actors :
       /\ sub[a] \in UpSubs => at[a] \in {"opened", "rtnl_unlock", "pre_done", "phy_done"}
       /\ sub[a] \in DownSubs => at[a] \in {"open_failed", "closed", "up", "apply", "phy_up"}
       /\ sub[a] # "dead"

(* The interface is open, or al_eth_close is on its way to one of the *)
(* places in closing.                                                 *)
Session(closing) ==
    \/ running /\ at["user"] \in {"idle", "unregister"}
    \/ at["user"] \in closing

(* Who holds rtnl, and who can be active beside the user *)
Turns ==
    /\ rtnl = "user" <=> at["user"] \in UserPlaces \ {"idle", "unregister"}
    /\ rtnl = "reset" <=> at["reset"] \in {"up", "rtnl_unlock"}
    /\ running => at["user"] \in {"idle", "opened", "open_failed", "unregister"}
    /\ at["user"] \in {"opened", "open_failed", "unregister"} => running
    /\ at["user"] \in {"opened", "open_failed"} => board # "lm" /\ ~carrier
    /\ phydev => board = "phy"
    /\ "reset" \in pending \/ at["reset"] # "idle"
          => board # "lm" /\ ~phydev /\ Session({"cancel_link", "cancel_reset"})
    /\ "link" \in pending \/ at["link"] # "idle"
          => \/ board = "lm" /\ Session({"cancel_link"})
             \/ phydev /\ Session({"cancel_link", "cancel_reset", "stop_phy"})
                /\ "link" \in pending
    /\ at["link"] \in {"phy_up", "phy_done"} => phydev
    /\ at["link"] \notin {"idle", "phy_up", "phy_done"} => board = "lm"
    /\ at["link"] \in {"pre", "pre_done", "establish"} => lm_mode # Disconnected
    /\ at["link"] \in {"detect", "apply", "pre", "pre_done"} => stage = "init"
    /\ present = "gone" => ~running /\ at["user"] = "idle"
    /\ carrier => up

(* What is held at a place in al_eth_up or al_eth_down *)
Holds(s) ==
    /\ up <=> s = "down"
    /\ rings = IF s \in {"up", "setup_tx", "err_setup_tx", "err_setup_int"} THEN {}
               ELSE IF s \in {"setup_rx", "err_setup_rx"} THEN {"tx"} ELSE AllRings
    /\ irq <=> s \in {"complete", "set_up", "err_req_irq", "down", "napi", "stop"}
    /\ napi = "on" <=> s \in {"set_up", "down", "napi"}
    /\ hw => s \in {"set_up", "down", "napi", "stop"}

(* Whether the interface is up when nobody is inside *)
Expected ==
    /\ at["user"] = "opened" => (up <=> ok["user"])
    /\ at["user"] \in {"open_failed", "closed"} => ~up
    /\ at["user"] = "idle" /\ ~running => ~up
    /\ board # "lm" /\ Session({"cancel_link", "cancel_reset", "stop_phy"}) =>
          /\ at["reset"] = "up" \/ at["link"] = "phy_up" => ~up
          /\ at["reset"] = "rtnl_unlock" => (up <=> ok["reset"])
          /\ at["link"] = "phy_done" => (up <=> ok["link"])
          /\ at["reset"] \in {"idle", "rtnl_lock"} /\ at["link"] = "idle" => up
    /\ board = "lm" /\ Session({"cancel_link"}) =>
          /\ at["link"] = "apply" => ~up
          /\ at["link"] = "pre_done" => (up <=> ok["link"])
          /\ at["link"] = "establish" => up
          /\ at["link"] \in {"idle", "detect", "done"} =>
                (up => lm_mode # Disconnected) /\ (stage = "establish" => up)

(* What is held and whether the interface is up, at every moment *)
Exact ==
    /\ \A a \in Actors : sub[a] # Return => Holds(sub[a])
    /\ Balanced
    /\ Quiet => Expected

IInv == Shape /\ (~spoiled => Waits /\ Turns /\ Exact)
-----------------------------------------------------------------------------
USE DEF Actors, UpSubs, DownSubs, Return, UserPlaces, ResetPlaces, LinkPlaces, AllRings,
        Session, Quiet

(* Only one actor at a time is in al_eth_up or al_eth_down. *)
LEMMA Inside ==
    ASSUME IInv, ~spoiled, NEW a \in Actors, sub[a] # Return
    PROVE  ~spoiled /\ Holds(sub[a]) /\ \A c \in Actors : c # a => sub[c] = Return
  BY DEF IInv, Shape, Waits, Turns, Exact

(* al_eth_up: al_eth_hw_init *)
LEMMA UpHwInitKeeps ==
    ASSUME IInv, NEW a \in Actors, UpHwInit(a)
    PROVE  IInv'
  <1> USE DEF UpHwInit, Step, link
  <1>1. Shape'
    <2>1. TypeOK'
      <3>0. ok \in [Actors -> BOOLEAN] /\ (ok' = ok \/ ok' = [ok EXCEPT ![a] = FALSE])
        BY DEF IInv, Shape, TypeOK
      <3>1. ok' \in [Actors -> BOOLEAN] /\ reset_requested' \in BOOLEAN
        BY <3>0
      <3>2. UNCHANGED <<present, running, rtnl, pending, up, rings, irq, napi,
                        hw, carrier, lm_mode, mac_mode, board>>
        OBVIOUS
      <3> HIDE DEF UpHwInit
      <3> QED BY <3>1, <3>2 DEF IInv, Shape, TypeOK
    <2>2. /\ at' \in [Actors -> UserPlaces \union ResetPlaces \union LinkPlaces]
          /\ at'["user"] \in UserPlaces /\ at'["reset"] \in ResetPlaces
          /\ at'["link"] \in LinkPlaces
      BY DEF IInv, Shape
    <2>3. sub' \in [Actors -> UpSubs \union DownSubs \union {Return, "dead"}]
      BY DEF IInv, Shape
    <2> QED BY <2>1, <2>2, <2>3 DEF IInv, Shape
  <1>2. ASSUME ~spoiled' PROVE Waits'
    BY <1>2 DEF IInv, Shape, Waits, Turns, Exact
  <1>3. ASSUME ~spoiled' PROVE Turns'
    BY <1>3 DEF IInv, Shape, Waits, Turns, Exact, Holds, Expected
  <1>4. ASSUME ~spoiled' PROVE Exact'
    <2>0. ~spoiled /\ Holds(sub[a]) /\ \A c \in Actors : c # a => sub[c] = Return
      BY <1>4, Inside
    <2>1. \A c \in Actors : sub'[c] # Return => Holds(sub[c])'
      BY <1>4 DEF IInv, Shape, Waits, Turns, Exact, Holds, Expected, Balanced
    <2>2. Balanced'
      BY <1>1, <2>0 DEF IInv, Shape, TypeOK, Exact, Holds, Balanced
    <2>3. /\ at' = at /\ (Quiet' => ok'[a] = FALSE)
          /\ \A c \in Actors : c # a => ok'[c] = ok[c]
      BY DEF IInv, Shape, TypeOK
    <2>4. Quiet' => Expected'
      <3>1. CASE a = "user"
        BY <1>4, <2>0, <2>3, <3>1 DEF IInv, Shape, Waits, Turns, Holds, Expected
      <3>2. CASE a = "reset"
        BY <1>4, <2>0, <2>3, <3>2 DEF IInv, Shape, Waits, Turns, Holds, Expected
      <3>3. CASE a = "link"
        BY <1>4, <2>0, <2>3, <3>3 DEF IInv, Shape, Waits, Turns, Holds, Expected
      <3> QED BY <3>1, <3>2, <3>3
    <2> QED BY <2>1, <2>2, <2>4 DEF Exact
  <1> QED BY <1>1, <1>2, <1>3, <1>4 DEF IInv

(* The transmit rings *)
LEMMA UpSetupTxKeeps ==
    ASSUME IInv, NEW a \in Actors, UpSetupTx(a)
    PROVE  IInv'
  <1> USE DEF UpSetupTx, Step, link
  <1>1. Shape'
    <2>1. TypeOK'
      <3>1. rings' \subseteq AllRings
        BY DEF IInv, Shape, TypeOK
      <3>2. UNCHANGED <<present, running, rtnl, ok, pending, up, reset_requested, irq,
                        napi, hw, carrier, lm_mode, mac_mode, board>>
        OBVIOUS
      <3> HIDE DEF UpSetupTx
      <3> QED BY <3>1, <3>2 DEF IInv, Shape, TypeOK
    <2>2. /\ at' \in [Actors -> UserPlaces \union ResetPlaces \union LinkPlaces]
          /\ at'["user"] \in UserPlaces /\ at'["reset"] \in ResetPlaces
          /\ at'["link"] \in LinkPlaces
      BY DEF IInv, Shape
    <2>3. sub' \in [Actors -> UpSubs \union DownSubs \union {Return, "dead"}]
      BY DEF IInv, Shape
    <2> QED BY <2>1, <2>2, <2>3 DEF IInv, Shape
  <1>2. ASSUME ~spoiled' PROVE Waits'
    BY <1>2 DEF IInv, Shape, Waits, Turns, Exact
  <1>3. ASSUME ~spoiled' PROVE Turns'
    BY <1>3 DEF IInv, Shape, Waits, Turns, Exact, Holds, Expected
  <1>4. ASSUME ~spoiled' PROVE Exact'
    <2>1. \A c \in Actors : sub'[c] # Return => Holds(sub[c])'
      BY <1>4 DEF IInv, Shape, Waits, Turns, Exact, Holds, Expected, Balanced
    <2>2. Balanced'
      BY <1>4 DEF IInv, Shape, Waits, Turns, Exact, Holds, Balanced
    <2>3. Quiet' => Expected'
      BY <1>4 DEF IInv, Shape, Waits, Turns, Exact, Holds, Expected
    <2> QED BY <2>1, <2>2, <2>3 DEF Exact
  <1> QED BY <1>1, <1>2, <1>3, <1>4 DEF IInv

(* The receive rings *)
LEMMA UpSetupRxKeeps ==
    ASSUME IInv, NEW a \in Actors, UpSetupRx(a)
    PROVE  IInv'
  <1> USE DEF UpSetupRx, Step, link
  <1>1. Shape'
    <2>1. TypeOK'
      <3>1. rings' \subseteq AllRings
        BY DEF IInv, Shape, TypeOK
      <3>2. UNCHANGED <<present, running, rtnl, ok, pending, up, reset_requested, irq,
                        napi, hw, carrier, lm_mode, mac_mode, board>>
        OBVIOUS
      <3> HIDE DEF UpSetupRx
      <3> QED BY <3>1, <3>2 DEF IInv, Shape, TypeOK
    <2>2. /\ at' \in [Actors -> UserPlaces \union ResetPlaces \union LinkPlaces]
          /\ at'["user"] \in UserPlaces /\ at'["reset"] \in ResetPlaces
          /\ at'["link"] \in LinkPlaces
      BY DEF IInv, Shape
    <2>3. sub' \in [Actors -> UpSubs \union DownSubs \union {Return, "dead"}]
      BY DEF IInv, Shape
    <2> QED BY <2>1, <2>2, <2>3 DEF IInv, Shape
  <1>2. ASSUME ~spoiled' PROVE Waits'
    BY <1>2 DEF IInv, Shape, Waits, Turns, Exact
  <1>3. ASSUME ~spoiled' PROVE Turns'
    BY <1>3 DEF IInv, Shape, Waits, Turns, Exact, Holds, Expected
  <1>4. ASSUME ~spoiled' PROVE Exact'
    <2>1. \A c \in Actors : sub'[c] # Return => Holds(sub[c])'
      BY <1>4 DEF IInv, Shape, Waits, Turns, Exact, Holds, Expected, Balanced
    <2>2. Balanced'
      BY <1>4 DEF IInv, Shape, Waits, Turns, Exact, Holds, Balanced
    <2>3. Quiet' => Expected'
      BY <1>4 DEF IInv, Shape, Waits, Turns, Exact, Holds, Expected
    <2> QED BY <2>1, <2>2, <2>3 DEF Exact
  <1> QED BY <1>1, <1>2, <1>3, <1>4 DEF IInv

(* al_eth_request_irq *)
LEMMA UpRequestIrqKeeps ==
    ASSUME IInv, NEW a \in Actors, UpRequestIrq(a)
    PROVE  IInv'
  <1> USE DEF UpRequestIrq, Step, link
  <1>1. Shape'
    <2>1. TypeOK'
      BY DEF IInv, Shape, TypeOK
    <2>2. /\ at' \in [Actors -> UserPlaces \union ResetPlaces \union LinkPlaces]
          /\ at'["user"] \in UserPlaces /\ at'["reset"] \in ResetPlaces
          /\ at'["link"] \in LinkPlaces
      BY DEF IInv, Shape
    <2>3. sub' \in [Actors -> UpSubs \union DownSubs \union {Return, "dead"}]
      BY DEF IInv, Shape
    <2> QED BY <2>1, <2>2, <2>3 DEF IInv, Shape
  <1>2. ASSUME ~spoiled' PROVE Waits'
    BY <1>2 DEF IInv, Shape, Waits, Turns, Exact
  <1>3. ASSUME ~spoiled' PROVE Turns'
    BY <1>3 DEF IInv, Shape, Waits, Turns, Exact, Holds, Expected
  <1>4. ASSUME ~spoiled' PROVE Exact'
    <2>1. \A c \in Actors : sub'[c] # Return => Holds(sub[c])'
      BY <1>4 DEF IInv, Shape, Waits, Turns, Exact, Holds, Expected, Balanced
    <2>2. Balanced'
      BY <1>4 DEF IInv, Shape, Waits, Turns, Exact, Holds, Balanced
    <2>3. Quiet' => Expected'
      BY <1>4 DEF IInv, Shape, Waits, Turns, Exact, Holds, Expected
    <2> QED BY <2>1, <2>2, <2>3 DEF Exact
  <1> QED BY <1>1, <1>2, <1>3, <1>4 DEF IInv

(* The error labels of al_eth_up *)
LEMMA UpUnwindKeeps ==
    ASSUME IInv, NEW a \in Actors, UpUnwind(a)
    PROVE  IInv'
  <1> USE DEF UpUnwind, Step, link
  <1>1. Shape'
    <2>1. TypeOK'
      <3>1. /\ rings' \subseteq AllRings
            /\ irq' \in BOOLEAN
            /\ hw' \in BOOLEAN
            /\ reset_requested' \in BOOLEAN
            /\ ok' \in [Actors -> BOOLEAN]
        BY DEF IInv, Shape, TypeOK
      <3>2. UNCHANGED <<present, running, rtnl, pending, up, napi, carrier, lm_mode,
                        mac_mode, board>>
        OBVIOUS
      <3> HIDE DEF UpUnwind
      <3> QED BY <3>1, <3>2 DEF IInv, Shape, TypeOK
    <2>2. /\ at' \in [Actors -> UserPlaces \union ResetPlaces \union LinkPlaces]
          /\ at'["user"] \in UserPlaces /\ at'["reset"] \in ResetPlaces
          /\ at'["link"] \in LinkPlaces
      BY DEF IInv, Shape
    <2>3. sub' \in [Actors -> UpSubs \union DownSubs \union {Return, "dead"}]
      BY DEF IInv, Shape
    <2> QED BY <2>1, <2>2, <2>3 DEF IInv, Shape
  <1>2. ASSUME ~spoiled' PROVE Waits'
    BY <1>2 DEF IInv, Shape, Waits, Turns, Exact
  <1>3. ASSUME ~spoiled' PROVE Turns'
    BY <1>3 DEF IInv, Shape, Waits, Turns, Exact, Holds, Expected
  <1>4. ASSUME ~spoiled' PROVE Exact'
    <2>0. ~spoiled /\ Holds(sub[a]) /\ \A c \in Actors : c # a => sub[c] = Return
      BY <1>4, Inside
    <2>1. \A c \in Actors : sub'[c] # Return => Holds(sub[c])'
      BY <1>4 DEF IInv, Shape, Waits, Turns, Exact, Holds, Expected, Balanced
    <2>2. Balanced'
      BY <1>1, <2>0 DEF IInv, Shape, TypeOK, Exact, Holds, Balanced
    <2>3. /\ at' = at /\ (Quiet' => ok'[a] = FALSE)
          /\ \A c \in Actors : c # a => ok'[c] = ok[c]
      BY DEF IInv, Shape, TypeOK
    <2>4. Quiet' => Expected'
      <3>1. CASE a = "user"
        BY <1>4, <2>0, <2>3, <3>1 DEF IInv, Shape, Waits, Turns, Holds, Expected
      <3>2. CASE a = "reset"
        BY <1>4, <2>0, <2>3, <3>2 DEF IInv, Shape, Waits, Turns, Holds, Expected
      <3>3. CASE a = "link"
        BY <1>4, <2>0, <2>3, <3>3 DEF IInv, Shape, Waits, Turns, Holds, Expected
      <3> QED BY <3>1, <3>2, <3>3
    <2> QED BY <2>1, <2>2, <2>4 DEF Exact
  <1> QED BY <1>1, <1>2, <1>3, <1>4 DEF IInv

(* al_eth_up_complete *)
LEMMA UpCompleteKeeps ==
    ASSUME IInv, NEW a \in Actors, UpComplete(a)
    PROVE  IInv'
  <1> USE DEF UpComplete, Step, link
  <1>1. Shape'
    <2>1. TypeOK'
      <3>1. /\ napi' \in {"new", "on", "off"}
            /\ hw' \in BOOLEAN
        BY DEF IInv, Shape, TypeOK
      <3>2. UNCHANGED <<present, running, rtnl, ok, pending, up, reset_requested, rings,
                        irq, carrier, lm_mode, mac_mode, board>>
        OBVIOUS
      <3> HIDE DEF UpComplete
      <3> QED BY <3>1, <3>2 DEF IInv, Shape, TypeOK
    <2>2. /\ at' \in [Actors -> UserPlaces \union ResetPlaces \union LinkPlaces]
          /\ at'["user"] \in UserPlaces /\ at'["reset"] \in ResetPlaces
          /\ at'["link"] \in LinkPlaces
      BY DEF IInv, Shape
    <2>3. sub' \in [Actors -> UpSubs \union DownSubs \union {Return, "dead"}]
      BY DEF IInv, Shape
    <2> QED BY <2>1, <2>2, <2>3 DEF IInv, Shape
  <1>2. ASSUME ~spoiled' PROVE Waits'
    BY <1>2 DEF IInv, Shape, Waits, Turns, Exact, Holds
  <1>3. ASSUME ~spoiled' PROVE Turns'
    BY <1>3 DEF IInv, Shape, Waits, Turns, Exact, Holds, Expected
  <1>4. ASSUME ~spoiled' PROVE Exact'
    <2>1. \A c \in Actors : sub'[c] # Return => Holds(sub[c])'
      BY <1>4 DEF IInv, Shape, Waits, Turns, Exact, Holds, Expected, Balanced
    <2>2. Balanced'
      BY <1>4 DEF IInv, Shape, Waits, Turns, Exact, Holds, Balanced
    <2>3. Quiet' => Expected'
      BY <1>4 DEF IInv, Shape, Waits, Turns, Exact, Holds, Expected
    <2> QED BY <2>1, <2>2, <2>3 DEF Exact
  <1> QED BY <1>1, <1>2, <1>3, <1>4 DEF IInv

(* adapter->up is set. *)
LEMMA UpDoneKeeps ==
    ASSUME IInv, NEW a \in Actors, UpDone(a)
    PROVE  IInv'
  <1> USE DEF UpDone, Step, held, link
  <1>1. Shape'
    <2>1. TypeOK'
      BY DEF IInv, Shape, TypeOK
    <2>2. /\ at' \in [Actors -> UserPlaces \union ResetPlaces \union LinkPlaces]
          /\ at'["user"] \in UserPlaces /\ at'["reset"] \in ResetPlaces
          /\ at'["link"] \in LinkPlaces
      BY DEF IInv, Shape
    <2>3. sub' \in [Actors -> UpSubs \union DownSubs \union {Return, "dead"}]
      BY DEF IInv, Shape
    <2> QED BY <2>1, <2>2, <2>3 DEF IInv, Shape
  <1>2. ASSUME ~spoiled' PROVE Waits'
    BY <1>2 DEF IInv, Shape, Waits, Turns, Exact
  <1>3. ASSUME ~spoiled' PROVE Turns'
    BY <1>3 DEF IInv, Shape, Waits, Turns, Exact, Holds, Expected
  <1>4. ASSUME ~spoiled' PROVE Exact'
    <2>0. ~spoiled /\ Holds(sub[a]) /\ \A c \in Actors : c # a => sub[c] = Return
      BY <1>4, Inside
    <2>1. \A c \in Actors : sub'[c] # Return => Holds(sub[c])'
      BY <1>4 DEF IInv, Shape, Waits, Turns, Exact, Holds, Expected, Balanced
    <2>2. Balanced'
      BY <1>1, <2>0 DEF IInv, Shape, TypeOK, Exact, Holds, Balanced
    <2>3. /\ at' = at /\ (Quiet' => ok'[a] = TRUE)
          /\ \A c \in Actors : c # a => ok'[c] = ok[c]
      BY DEF IInv, Shape, TypeOK
    <2>4. Quiet' => Expected'
      <3>1. CASE a = "user"
        BY <1>4, <2>0, <2>3, <3>1 DEF IInv, Shape, Waits, Turns, Holds, Expected
      <3>2. CASE a = "reset"
        BY <1>4, <2>0, <2>3, <3>2 DEF IInv, Shape, Waits, Turns, Holds, Expected
      <3>3. CASE a = "link"
        BY <1>4, <2>0, <2>3, <3>3 DEF IInv, Shape, Waits, Turns, Holds, Expected
      <3> QED BY <3>1, <3>2, <3>3
    <2> QED BY <2>1, <2>2, <2>4 DEF Exact
  <1> QED BY <1>1, <1>2, <1>3, <1>4 DEF IInv

(* al_eth_down: adapter->up is cleared, the carrier goes off. *)
LEMMA DownBeginKeeps ==
    ASSUME IInv, NEW a \in Actors, DownBegin(a)
    PROVE  IInv'
  <1> USE DEF DownBegin, Step, held, link
  <1>1. Shape'
    <2>1. TypeOK'
      BY ZenonT(60) DEF IInv, Shape, TypeOK
    <2>2. /\ at' \in [Actors -> UserPlaces \union ResetPlaces \union LinkPlaces]
          /\ at'["user"] \in UserPlaces /\ at'["reset"] \in ResetPlaces
          /\ at'["link"] \in LinkPlaces
      BY DEF IInv, Shape
    <2>3. sub' \in [Actors -> UpSubs \union DownSubs \union {Return, "dead"}]
      BY DEF IInv, Shape
    <2> QED BY <2>1, <2>2, <2>3 DEF IInv, Shape
  <1>2. ASSUME ~spoiled' PROVE Waits'
    BY <1>2 DEF IInv, Shape, Waits, Turns, Exact
  <1>3. ASSUME ~spoiled' PROVE Turns'
    BY <1>3 DEF IInv, Shape, Waits, Turns, Exact, Holds, Expected
  <1>4. ASSUME ~spoiled' PROVE Exact'
    <2>1. \A c \in Actors : sub'[c] # Return => Holds(sub[c])'
      BY <1>4 DEF IInv, Shape, Waits, Turns, Exact, Holds, Expected, Balanced
    <2>2. Balanced'
      BY <1>4 DEF IInv, Shape, Waits, Turns, Exact, Holds, Balanced
    <2>3. Quiet' => Expected'
      BY <1>4 DEF IInv, Shape, Waits, Turns, Exact, Holds, Expected
    <2> QED BY <2>1, <2>2, <2>3 DEF Exact
  <1> QED BY <1>1, <1>2, <1>3, <1>4 DEF IInv

(* napi_disable *)
LEMMA DownNapiKeeps ==
    ASSUME IInv, NEW a \in Actors, DownNapi(a)
    PROVE  IInv'
  <1> USE DEF DownNapi, Step, link
  <1>1. Shape'
    <2>1. TypeOK'
      BY DEF IInv, Shape, TypeOK
    <2>2. /\ at' \in [Actors -> UserPlaces \union ResetPlaces \union LinkPlaces]
          /\ at'["user"] \in UserPlaces /\ at'["reset"] \in ResetPlaces
          /\ at'["link"] \in LinkPlaces
      BY DEF IInv, Shape
    <2>3. sub' \in [Actors -> UpSubs \union DownSubs \union {Return, "dead"}]
      BY DEF IInv, Shape
    <2> QED BY <2>1, <2>2, <2>3 DEF IInv, Shape
  <1>2. ASSUME ~spoiled' PROVE Waits'
    BY <1>2 DEF IInv, Shape, Waits, Turns, Exact
  <1>3. ASSUME ~spoiled' PROVE Turns'
    BY <1>3 DEF IInv, Shape, Waits, Turns, Exact, Holds, Expected
  <1>4. ASSUME ~spoiled' PROVE Exact'
    <2>1. \A c \in Actors : sub'[c] # Return => Holds(sub[c])'
      BY <1>4 DEF IInv, Shape, Waits, Turns, Exact, Holds, Expected, Balanced
    <2>2. Balanced'
      BY <1>4 DEF IInv, Shape, Waits, Turns, Exact, Holds, Balanced
    <2>3. Quiet' => Expected'
      BY <1>4 DEF IInv, Shape, Waits, Turns, Exact, Holds, Expected
    <2> QED BY <2>1, <2>2, <2>3 DEF Exact
  <1> QED BY <1>1, <1>2, <1>3, <1>4 DEF IInv

(* al_eth_free_irq, al_eth_hw_stop *)
LEMMA DownStopKeeps ==
    ASSUME IInv, NEW a \in Actors, DownStop(a)
    PROVE  IInv'
  <1> USE DEF DownStop, Step, link
  <1>1. Shape'
    <2>1. TypeOK'
      BY ZenonT(60) DEF IInv, Shape, TypeOK
    <2>2. /\ at' \in [Actors -> UserPlaces \union ResetPlaces \union LinkPlaces]
          /\ at'["user"] \in UserPlaces /\ at'["reset"] \in ResetPlaces
          /\ at'["link"] \in LinkPlaces
      BY DEF IInv, Shape
    <2>3. sub' \in [Actors -> UpSubs \union DownSubs \union {Return, "dead"}]
      BY DEF IInv, Shape
    <2> QED BY <2>1, <2>2, <2>3 DEF IInv, Shape
  <1>2. ASSUME ~spoiled' PROVE Waits'
    BY <1>2 DEF IInv, Shape, Waits, Turns, Exact
  <1>3. ASSUME ~spoiled' PROVE Turns'
    BY <1>3 DEF IInv, Shape, Waits, Turns, Exact, Holds, Expected
  <1>4. ASSUME ~spoiled' PROVE Exact'
    <2>1. \A c \in Actors : sub'[c] # Return => Holds(sub[c])'
      BY <1>4 DEF IInv, Shape, Waits, Turns, Exact, Holds, Expected, Balanced
    <2>2. Balanced'
      BY <1>4 DEF IInv, Shape, Waits, Turns, Exact, Holds, Balanced
    <2>3. Quiet' => Expected'
      BY <1>4 DEF IInv, Shape, Waits, Turns, Exact, Holds, Expected
    <2> QED BY <2>1, <2>2, <2>3 DEF Exact
  <1> QED BY <1>1, <1>2, <1>3, <1>4 DEF IInv

(* The rings are freed. *)
LEMMA DownFreeKeeps ==
    ASSUME IInv, NEW a \in Actors, DownFree(a)
    PROVE  IInv'
  <1> USE DEF DownFree, Step, link
  <1>1. Shape'
    <2>1. TypeOK'
      <3>1. rings' \subseteq AllRings
        BY DEF IInv, Shape, TypeOK
      <3>2. UNCHANGED <<present, running, rtnl, ok, pending, up, reset_requested, irq,
                        napi, hw, carrier, lm_mode, mac_mode, board>>
        OBVIOUS
      <3> HIDE DEF DownFree
      <3> QED BY <3>1, <3>2 DEF IInv, Shape, TypeOK
    <2>2. /\ at' \in [Actors -> UserPlaces \union ResetPlaces \union LinkPlaces]
          /\ at'["user"] \in UserPlaces /\ at'["reset"] \in ResetPlaces
          /\ at'["link"] \in LinkPlaces
      BY DEF IInv, Shape
    <2>3. sub' \in [Actors -> UpSubs \union DownSubs \union {Return, "dead"}]
      BY DEF IInv, Shape
    <2> QED BY <2>1, <2>2, <2>3 DEF IInv, Shape
  <1>2. ASSUME ~spoiled' PROVE Waits'
    BY <1>2 DEF IInv, Shape, Waits, Turns, Exact, Holds
  <1>3. ASSUME ~spoiled' PROVE Turns'
    BY <1>3 DEF IInv, Shape, Waits, Turns, Exact, Holds, Expected
  <1>4. ASSUME ~spoiled' PROVE Exact'
    <2>0. ~spoiled /\ Holds(sub[a]) /\ \A c \in Actors : c # a => sub[c] = Return
      BY <1>4, Inside
    <2>1. \A c \in Actors : sub'[c] # Return => Holds(sub[c])'
      BY <1>4 DEF IInv, Shape, Waits, Turns, Exact, Holds, Expected, Balanced
    <2>2. Balanced'
      BY <1>1, <2>0 DEF IInv, Shape, TypeOK, Exact, Holds, Balanced
    <2>3. Quiet' => Expected'
      <3>1. CASE a = "user"
        BY <1>4, <2>0, <3>1 DEF IInv, Shape, Waits, Turns, Holds, Expected
      <3>2. CASE a = "reset"
        BY <1>4, <2>0, <3>2 DEF IInv, Shape, Waits, Turns, Holds, Expected
      <3>3. CASE a = "link"
        BY <1>4, <2>0, <3>3 DEF IInv, Shape, Waits, Turns, Holds, Expected
      <3> QED BY <3>1, <3>2, <3>3
    <2> QED BY <2>1, <2>2, <2>3 DEF Exact
  <1> QED BY <1>1, <1>2, <1>3, <1>4 DEF IInv

-----------------------------------------------------------------------------
(* al_eth_open *)
LEMMA OpenKeeps ==
    ASSUME IInv, Open
    PROVE  IInv'
  <1> USE DEF Open, At, Call, held
  <1>1. Shape'
    <2>1. TypeOK'
      BY ZenonT(60) DEF IInv, Shape, TypeOK
    <2>2. /\ at' \in [Actors -> UserPlaces \union ResetPlaces \union LinkPlaces]
          /\ at'["user"] \in UserPlaces /\ at'["reset"] \in ResetPlaces
          /\ at'["link"] \in LinkPlaces
      BY DEF IInv, Shape
    <2>3. sub' \in [Actors -> UpSubs \union DownSubs \union {Return, "dead"}]
      BY DEF IInv, Shape
    <2> QED BY <2>1, <2>2, <2>3 DEF IInv, Shape
  <1>2. ASSUME ~spoiled' PROVE Waits'
    BY <1>2 DEF IInv, Shape, Waits, Turns, Exact
  <1>3. ASSUME ~spoiled' PROVE Turns'
    BY <1>3 DEF IInv, Shape, Waits, Turns, Exact, Holds, Expected
  <1>4. ASSUME ~spoiled' PROVE Exact'
    <2>0. /\ Quiet /\ ~up /\ rings = {} /\ ~irq /\ napi # "on" /\ ~hw
          /\ sub'["user"] \in {Return, "up"}
      BY <1>4 DEF IInv, Shape, TypeOK, Waits, Turns, Exact, Balanced, Expected
    <2>1. \A c \in Actors : sub'[c] # Return => Holds(sub[c])'
      BY <2>0 DEF IInv, Shape, Holds
    <2>2. Balanced'
      BY <1>4 DEF IInv, Shape, Waits, Turns, Exact, Holds, Balanced
    <2>3. Quiet' => Expected'
      BY <1>4 DEF IInv, Shape, Waits, Turns, Exact, Holds, Expected
    <2> QED BY <2>1, <2>2, <2>3 DEF Exact
  <1> QED BY <1>1, <1>2, <1>3, <1>4 DEF IInv

(* al_eth_open ends on a board without PHY, ... *)
LEMMA OpenPlainKeeps ==
    ASSUME IInv, OpenPlain
    PROVE  IInv'
  <1> USE DEF OpenPlain, At, Goto, held, link
  <1>1. Shape'
    <2>1. TypeOK'
      BY DEF IInv, Shape, TypeOK
    <2>2. /\ at' \in [Actors -> UserPlaces \union ResetPlaces \union LinkPlaces]
          /\ at'["user"] \in UserPlaces /\ at'["reset"] \in ResetPlaces
          /\ at'["link"] \in LinkPlaces
      BY DEF IInv, Shape
    <2>3. sub' \in [Actors -> UpSubs \union DownSubs \union {Return, "dead"}]
      BY DEF IInv, Shape
    <2> QED BY <2>1, <2>2, <2>3 DEF IInv, Shape
  <1>2. ASSUME ~spoiled' PROVE Waits'
    BY <1>2 DEF IInv, Shape, Waits, Turns, Exact
  <1>3. ASSUME ~spoiled' PROVE Turns'
    BY <1>3 DEF IInv, Shape, Waits, Turns, Exact, Holds, Expected
  <1>4. ASSUME ~spoiled' PROVE Exact'
    <2>1. \A c \in Actors : sub'[c] # Return => Holds(sub[c])'
      BY <1>4 DEF IInv, Shape, Waits, Turns, Exact, Holds, Expected, Balanced
    <2>2. Balanced'
      BY <1>4 DEF IInv, Shape, Waits, Turns, Exact, Holds, Balanced
    <2>3. Quiet' => Expected'
      BY <1>4 DEF IInv, Shape, Waits, Turns, Exact, Holds, Expected
    <2> QED BY <2>1, <2>2, <2>3 DEF Exact
  <1> QED BY <1>1, <1>2, <1>3, <1>4 DEF IInv

(* ... fails ... *)
LEMMA OpenFailsKeeps ==
    ASSUME IInv, OpenFails
    PROVE  IInv'
  <1> USE DEF OpenFails, At, Goto, held, link
  <1>1. Shape'
    <2>1. TypeOK'
      BY ZenonT(60) DEF IInv, Shape, TypeOK
    <2>2. /\ at' \in [Actors -> UserPlaces \union ResetPlaces \union LinkPlaces]
          /\ at'["user"] \in UserPlaces /\ at'["reset"] \in ResetPlaces
          /\ at'["link"] \in LinkPlaces
      BY DEF IInv, Shape
    <2>3. sub' \in [Actors -> UpSubs \union DownSubs \union {Return, "dead"}]
      BY DEF IInv, Shape
    <2> QED BY <2>1, <2>2, <2>3 DEF IInv, Shape
  <1>2. ASSUME ~spoiled' PROVE Waits'
    BY <1>2 DEF IInv, Shape, Waits, Turns, Exact
  <1>3. ASSUME ~spoiled' PROVE Turns'
    BY <1>3 DEF IInv, Shape, Waits, Turns, Exact, Holds, Expected
  <1>4. ASSUME ~spoiled' PROVE Exact'
    <2>1. \A c \in Actors : sub'[c] # Return => Holds(sub[c])'
      BY <1>4 DEF IInv, Shape, Waits, Turns, Exact, Holds, Expected, Balanced
    <2>2. Balanced'
      BY <1>4 DEF IInv, Shape, Waits, Turns, Exact, Holds, Balanced
    <2>3. Quiet' => Expected'
      BY <1>4 DEF IInv, Shape, Waits, Turns, Exact, Holds, Expected
    <2> QED BY <2>1, <2>2, <2>3 DEF Exact
  <1> QED BY <1>1, <1>2, <1>3, <1>4 DEF IInv

(* ... or goes on with the PHY. *)
LEMMA OpenPhyKeeps ==
    ASSUME IInv, OpenPhy
    PROVE  IInv'
  <1> USE DEF OpenPhy, At, Goto, Call, held
  <1>1. Shape'
    <2>1. TypeOK'
      <3>1. /\ running' \in BOOLEAN
            /\ rtnl' \in {"none", "user", "reset"}
            /\ carrier' \in BOOLEAN
            /\ pending' \subseteq {"reset", "link"}
        BY DEF IInv, Shape, TypeOK
      <3>2. UNCHANGED <<present, ok, up, reset_requested, rings, irq, napi, hw,
                        lm_mode, mac_mode, board>>
        OBVIOUS
      <3> HIDE DEF OpenPhy
      <3> QED BY <3>1, <3>2 DEF IInv, Shape, TypeOK
    <2>2. /\ at' \in [Actors -> UserPlaces \union ResetPlaces \union LinkPlaces]
          /\ at'["user"] \in UserPlaces /\ at'["reset"] \in ResetPlaces
          /\ at'["link"] \in LinkPlaces
      BY DEF IInv, Shape
    <2>3. sub' \in [Actors -> UpSubs \union DownSubs \union {Return, "dead"}]
      BY DEF IInv, Shape
    <2> QED BY <2>1, <2>2, <2>3 DEF IInv, Shape
  <1>2. ASSUME ~spoiled' PROVE Waits'
    BY <1>2 DEF IInv, Shape, Waits, Turns, Exact
  <1>3. ASSUME ~spoiled' PROVE Turns'
    BY <1>3 DEF IInv, Shape, Waits, Turns, Exact, Holds, Expected
  <1>4. ASSUME ~spoiled' PROVE Exact'
    <2>1. \A c \in Actors : sub'[c] # Return => Holds(sub[c])'
      BY <1>4 DEF IInv, Shape, Waits, Turns, Exact, Holds, Expected, Balanced
    <2>2. Balanced'
      BY <1>4 DEF IInv, Shape, Waits, Turns, Exact, Holds, Balanced
    <2>3. Quiet' => Expected'
      BY <1>4 DEF IInv, Shape, Waits, Turns, Exact, Holds, Expected
    <2> QED BY <2>1, <2>2, <2>3 DEF Exact
  <1> QED BY <1>1, <1>2, <1>3, <1>4 DEF IInv

(* al_eth_close *)
LEMMA CloseKeeps ==
    ASSUME IInv, Close
    PROVE  IInv'
  <1> USE DEF Close, At, Goto, held, link
  <1>1. Shape'
    <2>1. TypeOK'
      BY ZenonT(60) DEF IInv, Shape, TypeOK
    <2>2. /\ at' \in [Actors -> UserPlaces \union ResetPlaces \union LinkPlaces]
          /\ at'["user"] \in UserPlaces /\ at'["reset"] \in ResetPlaces
          /\ at'["link"] \in LinkPlaces
      BY DEF IInv, Shape
    <2>3. sub' \in [Actors -> UpSubs \union DownSubs \union {Return, "dead"}]
      BY DEF IInv, Shape
    <2> QED BY <2>1, <2>2, <2>3 DEF IInv, Shape
  <1>2. ASSUME ~spoiled' PROVE Waits'
    BY <1>2 DEF IInv, Shape, Waits, Turns, Exact
  <1>3. ASSUME ~spoiled' PROVE Turns'
    BY <1>3 DEF IInv, Shape, Waits, Turns, Exact, Holds, Expected
  <1>4. ASSUME ~spoiled' PROVE Exact'
    <2>1. \A c \in Actors : sub'[c] # Return => Holds(sub[c])'
      BY <1>4 DEF IInv, Shape, Waits, Turns, Exact, Holds, Expected, Balanced
    <2>2. Balanced'
      BY <1>4 DEF IInv, Shape, Waits, Turns, Exact, Holds, Balanced
    <2>3. Quiet' => Expected'
      BY <1>4 DEF IInv, Shape, Waits, Turns, Exact, Holds, Expected
    <2> QED BY <2>1, <2>2, <2>3 DEF Exact
  <1> QED BY <1>1, <1>2, <1>3, <1>4 DEF IInv

(* The link task is waited for, ... *)
LEMMA CancelLinkKeeps ==
    ASSUME IInv, CancelLink
    PROVE  IInv'
  <1> USE DEF CancelLink, At, Goto, held, link
  <1>1. Shape'
    <2>1. TypeOK'
      BY DEF IInv, Shape, TypeOK
    <2>2. /\ at' \in [Actors -> UserPlaces \union ResetPlaces \union LinkPlaces]
          /\ at'["user"] \in UserPlaces /\ at'["reset"] \in ResetPlaces
          /\ at'["link"] \in LinkPlaces
      BY DEF IInv, Shape
    <2>3. sub' \in [Actors -> UpSubs \union DownSubs \union {Return, "dead"}]
      BY DEF IInv, Shape
    <2> QED BY <2>1, <2>2, <2>3 DEF IInv, Shape
  <1>2. ASSUME ~spoiled' PROVE Waits'
    BY <1>2 DEF IInv, Shape, Waits, Turns, Exact
  <1>3. ASSUME ~spoiled' PROVE Turns'
    BY <1>3 DEF IInv, Shape, Waits, Turns, Exact, Holds, Expected
  <1>4. ASSUME ~spoiled' PROVE Exact'
    <2>1. \A c \in Actors : sub'[c] # Return => Holds(sub[c])'
      BY <1>4 DEF IInv, Shape, Waits, Turns, Exact, Holds, Expected, Balanced
    <2>2. Balanced'
      BY <1>4 DEF IInv, Shape, Waits, Turns, Exact, Holds, Balanced
    <2>3. Quiet' => Expected'
      BY <1>4 DEF IInv, Shape, Waits, Turns, Exact, Holds, Expected
    <2> QED BY <2>1, <2>2, <2>3 DEF Exact
  <1> QED BY <1>1, <1>2, <1>3, <1>4 DEF IInv

(* ... then the reset task, ... *)
LEMMA CancelResetKeeps ==
    ASSUME IInv, CancelReset
    PROVE  IInv'
  <1> USE DEF CancelReset, At, Goto, held, link
  <1>1. Shape'
    <2>1. TypeOK'
      BY DEF IInv, Shape, TypeOK
    <2>2. /\ at' \in [Actors -> UserPlaces \union ResetPlaces \union LinkPlaces]
          /\ at'["user"] \in UserPlaces /\ at'["reset"] \in ResetPlaces
          /\ at'["link"] \in LinkPlaces
      BY DEF IInv, Shape
    <2>3. sub' \in [Actors -> UpSubs \union DownSubs \union {Return, "dead"}]
      BY DEF IInv, Shape
    <2> QED BY <2>1, <2>2, <2>3 DEF IInv, Shape
  <1>2. ASSUME ~spoiled' PROVE Waits'
    BY <1>2 DEF IInv, Shape, Waits, Turns, Exact
  <1>3. ASSUME ~spoiled' PROVE Turns'
    BY <1>3 DEF IInv, Shape, Waits, Turns, Exact, Holds, Expected
  <1>4. ASSUME ~spoiled' PROVE Exact'
    <2>1. \A c \in Actors : sub'[c] # Return => Holds(sub[c])'
      BY <1>4 DEF IInv, Shape, Waits, Turns, Exact, Holds, Expected, Balanced
    <2>2. Balanced'
      BY <1>4 DEF IInv, Shape, Waits, Turns, Exact, Holds, Balanced
    <2>3. Quiet' => Expected'
      BY <1>4 DEF IInv, Shape, Waits, Turns, Exact, Holds, Expected
    <2> QED BY <2>1, <2>2, <2>3 DEF Exact
  <1> QED BY <1>1, <1>2, <1>3, <1>4 DEF IInv

(* ... then phylib, and al_eth_down follows. *)
LEMMA CloseDownKeeps ==
    ASSUME IInv, CloseDown
    PROVE  IInv'
  <1> USE DEF CloseDown, At, Call, held, link
  <1>1. Shape'
    <2>1. TypeOK'
      BY DEF IInv, Shape, TypeOK
    <2>2. /\ at' \in [Actors -> UserPlaces \union ResetPlaces \union LinkPlaces]
          /\ at'["user"] \in UserPlaces /\ at'["reset"] \in ResetPlaces
          /\ at'["link"] \in LinkPlaces
      BY DEF IInv, Shape
    <2>3. sub' \in [Actors -> UpSubs \union DownSubs \union {Return, "dead"}]
      BY DEF IInv, Shape
    <2> QED BY <2>1, <2>2, <2>3 DEF IInv, Shape
  <1>2. ASSUME ~spoiled' PROVE Waits'
    BY <1>2 DEF IInv, Shape, Waits, Turns, Exact
  <1>3. ASSUME ~spoiled' PROVE Turns'
    BY <1>3 DEF IInv, Shape, Waits, Turns, Exact, Holds, Expected
  <1>4. ASSUME ~spoiled' PROVE Exact'
    <2>1. \A c \in Actors : sub'[c] # Return => Holds(sub[c])'
      BY <1>4 DEF IInv, Shape, Waits, Turns, Exact, Holds, Expected, Balanced
    <2>2. Balanced'
      BY <1>4 DEF IInv, Shape, Waits, Turns, Exact, Holds, Balanced
    <2>3. Quiet' => Expected'
      BY <1>4 DEF IInv, Shape, Waits, Turns, Exact, Holds, Expected
    <2> QED BY <2>1, <2>2, <2>3 DEF Exact
  <1> QED BY <1>1, <1>2, <1>3, <1>4 DEF IInv

(* al_eth_close ends. *)
LEMMA ClosedKeeps ==
    ASSUME IInv, Closed
    PROVE  IInv'
  <1> USE DEF Closed, At, Goto, held, link
  <1>1. Shape'
    <2>1. TypeOK'
      BY DEF IInv, Shape, TypeOK
    <2>2. /\ at' \in [Actors -> UserPlaces \union ResetPlaces \union LinkPlaces]
          /\ at'["user"] \in UserPlaces /\ at'["reset"] \in ResetPlaces
          /\ at'["link"] \in LinkPlaces
      BY DEF IInv, Shape
    <2>3. sub' \in [Actors -> UpSubs \union DownSubs \union {Return, "dead"}]
      BY DEF IInv, Shape
    <2> QED BY <2>1, <2>2, <2>3 DEF IInv, Shape
  <1>2. ASSUME ~spoiled' PROVE Waits'
    BY <1>2 DEF IInv, Shape, Waits, Turns, Exact
  <1>3. ASSUME ~spoiled' PROVE Turns'
    BY <1>3 DEF IInv, Shape, Waits, Turns, Exact, Holds, Expected
  <1>4. ASSUME ~spoiled' PROVE Exact'
    <2>1. \A c \in Actors : sub'[c] # Return => Holds(sub[c])'
      BY <1>4 DEF IInv, Shape, Waits, Turns, Exact, Holds, Expected, Balanced
    <2>2. Balanced'
      BY <1>4 DEF IInv, Shape, Waits, Turns, Exact, Holds, Balanced
    <2>3. Quiet' => Expected'
      BY <1>4 DEF IInv, Shape, Waits, Turns, Exact, Holds, Expected
    <2> QED BY <2>1, <2>2, <2>3 DEF Exact
  <1> QED BY <1>1, <1>2, <1>3, <1>4 DEF IInv

(* al_eth_remove stops the hardware, ... *)
LEMMA RemoveStopKeeps ==
    ASSUME IInv, RemoveStop
    PROVE  IInv'
  <1> USE DEF RemoveStop, calls, link
  <1>1. Shape'
    <2>1. TypeOK'
      BY ZenonT(60) DEF IInv, Shape, TypeOK
    <2>2. /\ at' \in [Actors -> UserPlaces \union ResetPlaces \union LinkPlaces]
          /\ at'["user"] \in UserPlaces /\ at'["reset"] \in ResetPlaces
          /\ at'["link"] \in LinkPlaces
      BY DEF IInv, Shape
    <2>3. sub' \in [Actors -> UpSubs \union DownSubs \union {Return, "dead"}]
      BY DEF IInv, Shape
    <2> QED BY <2>1, <2>2, <2>3 DEF IInv, Shape
  <1>2. ASSUME ~spoiled' PROVE Waits'
    BY <1>2 DEF IInv, Shape, Waits, Turns, Exact
  <1>3. ASSUME ~spoiled' PROVE Turns'
    BY <1>3 DEF IInv, Shape, Waits, Turns, Exact, Holds, Expected
  <1>4. ASSUME ~spoiled' PROVE Exact'
    <2>1. \A c \in Actors : sub'[c] # Return => Holds(sub[c])'
      BY <1>4 DEF IInv, Shape, Waits, Turns, Exact, Holds, Expected, Balanced
    <2>2. Balanced'
      BY <1>4 DEF IInv, Shape, Waits, Turns, Exact, Holds, Balanced
    <2>3. Quiet' => Expected'
      BY <1>4 DEF IInv, Shape, Waits, Turns, Exact, Holds, Expected
    <2> QED BY <2>1, <2>2, <2>3 DEF Exact
  <1> QED BY <1>1, <1>2, <1>3, <1>4 DEF IInv

(* ... and unregister_netdev closes an interface that is running. *)
LEMMA UnregisterKeeps ==
    ASSUME IInv, Unregister
    PROVE  IInv'
  <1> USE DEF Unregister, At, Goto, held, link
  <1>1. Shape'
    <2>1. TypeOK'
      BY DEF IInv, Shape, TypeOK
    <2>2. /\ at' \in [Actors -> UserPlaces \union ResetPlaces \union LinkPlaces]
          /\ at'["user"] \in UserPlaces /\ at'["reset"] \in ResetPlaces
          /\ at'["link"] \in LinkPlaces
      BY DEF IInv, Shape
    <2>3. sub' \in [Actors -> UpSubs \union DownSubs \union {Return, "dead"}]
      BY DEF IInv, Shape
    <2> QED BY <2>1, <2>2, <2>3 DEF IInv, Shape
  <1>2. ASSUME ~spoiled' PROVE Waits'
    BY <1>2 DEF IInv, Shape, Waits, Turns, Exact
  <1>3. ASSUME ~spoiled' PROVE Turns'
    BY <1>3 DEF IInv, Shape, Waits, Turns, Exact, Holds, Expected
  <1>4. ASSUME ~spoiled' PROVE Exact'
    <2>1. \A c \in Actors : sub'[c] # Return => Holds(sub[c])'
      BY <1>4 DEF IInv, Shape, Waits, Turns, Exact, Holds, Expected, Balanced
    <2>2. Balanced'
      BY <1>4 DEF IInv, Shape, Waits, Turns, Exact, Holds, Balanced
    <2>3. Quiet' => Expected'
      BY <1>4 DEF IInv, Shape, Waits, Turns, Exact, Holds, Expected
    <2> QED BY <2>1, <2>2, <2>3 DEF Exact
  <1> QED BY <1>1, <1>2, <1>3, <1>4 DEF IInv

-----------------------------------------------------------------------------
(* al_eth_tx_timeout *)
LEMMA TxTimeoutKeeps ==
    ASSUME IInv, TxTimeout
    PROVE  IInv'
  <1> USE DEF TxTimeout, calls, held, link
  <1>1. Shape'
    <2>1. TypeOK'
      BY DEF IInv, Shape, TypeOK
    <2>2. /\ at' \in [Actors -> UserPlaces \union ResetPlaces \union LinkPlaces]
          /\ at'["user"] \in UserPlaces /\ at'["reset"] \in ResetPlaces
          /\ at'["link"] \in LinkPlaces
      BY DEF IInv, Shape
    <2>3. sub' \in [Actors -> UpSubs \union DownSubs \union {Return, "dead"}]
      BY DEF IInv, Shape
    <2> QED BY <2>1, <2>2, <2>3 DEF IInv, Shape
  <1>2. ASSUME ~spoiled' PROVE Waits'
    BY <1>2 DEF IInv, Shape, Waits, Turns, Exact
  <1>3. ASSUME ~spoiled' PROVE Turns'
    BY <1>3 DEF IInv, Shape, Waits, Turns, Exact, Holds, Expected
  <1>4. ASSUME ~spoiled' PROVE Exact'
    <2>1. \A c \in Actors : sub'[c] # Return => Holds(sub[c])'
      BY <1>4 DEF IInv, Shape, Waits, Turns, Exact, Holds, Expected, Balanced
    <2>2. Balanced'
      BY <1>4 DEF IInv, Shape, Waits, Turns, Exact, Holds, Balanced
    <2>3. Quiet' => Expected'
      BY <1>4 DEF IInv, Shape, Waits, Turns, Exact, Holds, Expected
    <2> QED BY <2>1, <2>2, <2>3 DEF Exact
  <1> QED BY <1>1, <1>2, <1>3, <1>4 DEF IInv

(* The reset task starts, ... *)
LEMMA ResetRunKeeps ==
    ASSUME IInv, ResetRun
    PROVE  IInv'
  <1> USE DEF ResetRun, At, Goto, Cancelling, held, link
  <1>1. Shape'
    <2>1. TypeOK'
      BY DEF IInv, Shape, TypeOK
    <2>2. /\ at' \in [Actors -> UserPlaces \union ResetPlaces \union LinkPlaces]
          /\ at'["user"] \in UserPlaces /\ at'["reset"] \in ResetPlaces
          /\ at'["link"] \in LinkPlaces
      BY DEF IInv, Shape
    <2>3. sub' \in [Actors -> UpSubs \union DownSubs \union {Return, "dead"}]
      BY DEF IInv, Shape
    <2> QED BY <2>1, <2>2, <2>3 DEF IInv, Shape
  <1>2. ASSUME ~spoiled' PROVE Waits'
    BY <1>2 DEF IInv, Shape, Waits, Turns, Exact
  <1>3. ASSUME ~spoiled' PROVE Turns'
    BY <1>3 DEF IInv, Shape, Waits, Turns, Exact, Holds, Expected
  <1>4. ASSUME ~spoiled' PROVE Exact'
    <2>1. \A c \in Actors : sub'[c] # Return => Holds(sub[c])'
      BY <1>4 DEF IInv, Shape, Waits, Turns, Exact, Holds, Expected, Balanced
    <2>2. Balanced'
      BY <1>4 DEF IInv, Shape, Waits, Turns, Exact, Holds, Balanced
    <2>3. Quiet' => Expected'
      BY <1>4 DEF IInv, Shape, Waits, Turns, Exact, Holds, Expected
    <2> QED BY <2>1, <2>2, <2>3 DEF Exact
  <1> QED BY <1>1, <1>2, <1>3, <1>4 DEF IInv

(* ... takes rtnl, ... *)
LEMMA ResetDownKeeps ==
    ASSUME IInv, ResetDown
    PROVE  IInv'
  <1> USE DEF ResetDown, At, Call, held, link
  <1>1. Shape'
    <2>1. TypeOK'
      BY DEF IInv, Shape, TypeOK
    <2>2. /\ at' \in [Actors -> UserPlaces \union ResetPlaces \union LinkPlaces]
          /\ at'["user"] \in UserPlaces /\ at'["reset"] \in ResetPlaces
          /\ at'["link"] \in LinkPlaces
      BY DEF IInv, Shape
    <2>3. sub' \in [Actors -> UpSubs \union DownSubs \union {Return, "dead"}]
      BY DEF IInv, Shape
    <2> QED BY <2>1, <2>2, <2>3 DEF IInv, Shape
  <1>2. ASSUME ~spoiled' PROVE Waits'
    BY <1>2 DEF IInv, Shape, Waits, Turns, Exact
  <1>3. ASSUME ~spoiled' PROVE Turns'
    BY <1>3 DEF IInv, Shape, Waits, Turns, Exact, Holds, Expected
  <1>4. ASSUME ~spoiled' PROVE Exact'
    <2>1. \A c \in Actors : sub'[c] # Return => Holds(sub[c])'
      BY <1>4 DEF IInv, Shape, Waits, Turns, Exact, Holds, Expected, Balanced
    <2>2. Balanced'
      BY <1>4 DEF IInv, Shape, Waits, Turns, Exact, Holds, Balanced
    <2>3. Quiet' => Expected'
      BY <1>4 DEF IInv, Shape, Waits, Turns, Exact, Holds, Expected
    <2> QED BY <2>1, <2>2, <2>3 DEF Exact
  <1> QED BY <1>1, <1>2, <1>3, <1>4 DEF IInv

(* ... brings the interface up again ... *)
LEMMA ResetUpKeeps ==
    ASSUME IInv, ResetUp
    PROVE  IInv'
  <1> USE DEF ResetUp, At, Call, held, link
  <1>1. Shape'
    <2>1. TypeOK'
      BY DEF IInv, Shape, TypeOK
    <2>2. /\ at' \in [Actors -> UserPlaces \union ResetPlaces \union LinkPlaces]
          /\ at'["user"] \in UserPlaces /\ at'["reset"] \in ResetPlaces
          /\ at'["link"] \in LinkPlaces
      BY DEF IInv, Shape
    <2>3. sub' \in [Actors -> UpSubs \union DownSubs \union {Return, "dead"}]
      BY DEF IInv, Shape
    <2> QED BY <2>1, <2>2, <2>3 DEF IInv, Shape
  <1>2. ASSUME ~spoiled' PROVE Waits'
    BY <1>2 DEF IInv, Shape, Waits, Turns, Exact
  <1>3. ASSUME ~spoiled' PROVE Turns'
    BY <1>3 DEF IInv, Shape, Waits, Turns, Exact, Holds, Expected
  <1>4. ASSUME ~spoiled' PROVE Exact'
    <2>1. \A c \in Actors : sub'[c] # Return => Holds(sub[c])'
      BY <1>4, ZenonT(60) DEF IInv, Shape, Waits, Turns, Exact, Holds, Expected, Balanced
    <2>2. Balanced'
      BY <1>4 DEF IInv, Shape, Waits, Turns, Exact, Holds, Balanced
    <2>3. Quiet' => Expected'
      BY <1>4 DEF IInv, Shape, Waits, Turns, Exact, Holds, Expected
    <2> QED BY <2>1, <2>2, <2>3 DEF Exact
  <1> QED BY <1>1, <1>2, <1>3, <1>4 DEF IInv

(* ... and ends. *)
LEMMA ResetEndKeeps ==
    ASSUME IInv, ResetEnd
    PROVE  IInv'
  <1> USE DEF ResetEnd, At, Goto, held, link
  <1>1. Shape'
    <2>1. TypeOK'
      BY DEF IInv, Shape, TypeOK
    <2>2. /\ at' \in [Actors -> UserPlaces \union ResetPlaces \union LinkPlaces]
          /\ at'["user"] \in UserPlaces /\ at'["reset"] \in ResetPlaces
          /\ at'["link"] \in LinkPlaces
      BY DEF IInv, Shape
    <2>3. sub' \in [Actors -> UpSubs \union DownSubs \union {Return, "dead"}]
      BY DEF IInv, Shape
    <2> QED BY <2>1, <2>2, <2>3 DEF IInv, Shape
  <1>2. ASSUME ~spoiled' PROVE Waits'
    BY <1>2 DEF IInv, Shape, Waits, Turns, Exact
  <1>3. ASSUME ~spoiled' PROVE Turns'
    BY <1>3 DEF IInv, Shape, Waits, Turns, Exact, Holds, Expected
  <1>4. ASSUME ~spoiled' PROVE Exact'
    <2>1. \A c \in Actors : sub'[c] # Return => Holds(sub[c])'
      BY <1>4 DEF IInv, Shape, Waits, Turns, Exact, Holds, Expected, Balanced
    <2>2. Balanced'
      BY <1>4 DEF IInv, Shape, Waits, Turns, Exact, Holds, Balanced
    <2>3. Quiet' => Expected'
      BY <1>4, ZenonT(60) DEF IInv, Shape, Waits, Turns, Exact, Holds, Expected
    <2> QED BY <2>1, <2>2, <2>3 DEF Exact
  <1> QED BY <1>1, <1>2, <1>3, <1>4 DEF IInv

-----------------------------------------------------------------------------
(* The link status task starts. *)
LEMMA LinkRunKeeps ==
    ASSUME IInv, LinkRun
    PROVE  IInv'
  <1> USE DEF LinkRun, At, Goto, Cancelling, held, link
  <1>1. Shape'
    <2>1. TypeOK'
      BY DEF IInv, Shape, TypeOK
    <2>2. /\ at' \in [Actors -> UserPlaces \union ResetPlaces \union LinkPlaces]
          /\ at'["user"] \in UserPlaces /\ at'["reset"] \in ResetPlaces
          /\ at'["link"] \in LinkPlaces
      BY DEF IInv, Shape
    <2>3. sub' \in [Actors -> UpSubs \union DownSubs \union {Return, "dead"}]
      BY DEF IInv, Shape
    <2> QED BY <2>1, <2>2, <2>3 DEF IInv, Shape
  <1>2. ASSUME ~spoiled' PROVE Waits'
    BY <1>2 DEF IInv, Shape, Waits, Turns, Exact
  <1>3. ASSUME ~spoiled' PROVE Turns'
    BY <1>3 DEF IInv, Shape, Waits, Turns, Exact, Holds, Expected
  <1>4. ASSUME ~spoiled' PROVE Exact'
    <2>1. \A c \in Actors : sub'[c] # Return => Holds(sub[c])'
      BY <1>4 DEF IInv, Shape, Waits, Turns, Exact, Holds, Expected, Balanced
    <2>2. Balanced'
      BY <1>4 DEF IInv, Shape, Waits, Turns, Exact, Holds, Balanced
    <2>3. Quiet' => Expected'
      BY <1>4 DEF IInv, Shape, Waits, Turns, Exact, Holds, Expected
    <2> QED BY <2>1, <2>2, <2>3 DEF Exact
  <1> QED BY <1>1, <1>2, <1>3, <1>4 DEF IInv

(* A detection, and al_eth_lm_mode_change *)
LEMMA LinkDetectKeeps ==
    ASSUME IInv, LinkDetect
    PROVE  IInv'
  <1> USE DEF LinkDetect, At, Goto, Call, held
  <1>1. Shape'
    <2>1. TypeOK'
      BY DEF IInv, Shape, TypeOK
    <2>2. /\ at' \in [Actors -> UserPlaces \union ResetPlaces \union LinkPlaces]
          /\ at'["user"] \in UserPlaces /\ at'["reset"] \in ResetPlaces
          /\ at'["link"] \in LinkPlaces
      BY DEF IInv, Shape
    <2>3. sub' \in [Actors -> UpSubs \union DownSubs \union {Return, "dead"}]
      BY DEF IInv, Shape
    <2> QED BY <2>1, <2>2, <2>3 DEF IInv, Shape
  <1>2. ASSUME ~spoiled' PROVE Waits'
    BY <1>2 DEF IInv, Shape, Waits, Turns, Exact
  <1>3. ASSUME ~spoiled' PROVE Turns'
    BY <1>3 DEF IInv, Shape, Waits, Turns, Exact, Holds, Expected
  <1>4. ASSUME ~spoiled' PROVE Exact'
    <2>0. /\ ~spoiled /\ Waits /\ Turns /\ Exact /\ board = "lm" /\ at["link"] = "detect"
          /\ sub["link"] = Return
      <3>1. ~spoiled /\ at["link"] = "detect" /\ sub["link"] = Return
        BY <1>4 DEF IInv, Shape
      <3> QED BY <3>1 DEF IInv, Turns
    <2>4. Quiet /\ Balanced /\ Expected
      BY <2>0 DEF Exact, Turns, Waits, IInv, Shape
    <2>5. /\ sub'["user"] = Return /\ sub'["reset"] = Return
          /\ sub'["link"] = Return \/ (sub'["link"] = "down" /\ up)
          /\ at'["user"] = at["user"] /\ at'["reset"] = at["reset"]
      BY <1>4, <2>4 DEF IInv, Shape
    <2>6. UNCHANGED <<board, running, pending, ok, up, rings, irq, napi, hw, stage>>
      OBVIOUS
    <2>1. \A c \in Actors : sub'[c] # Return => Holds(sub[c])'
      BY <2>0, <2>4, <2>5, <2>6 DEF Holds, Balanced, IInv, Shape, TypeOK
    <2>2. Balanced'
      BY <1>4 DEF IInv, Shape, Waits, Turns, Exact, Holds, Balanced
    <2>7. /\ at'["link"] \in {"done", "pre", "apply"}
          /\ at'["link"] = "done" => lm_mode' = lm_mode \/ lm_mode' # Disconnected
          /\ at'["link"] = "apply" /\ sub'["link"] = Return => lm_mode = Disconnected
      BY <2>0, LmModeAssumption DEF IInv, Shape, Disconnected
    <2>3. Quiet' => Expected'
      <3> HIDE DEF LinkDetect
      <3> QED BY <2>0, <2>4, <2>5, <2>6, <2>7 DEF Expected, Turns
    <2> QED BY <2>1, <2>2, <2>3 DEF Exact
  <1> QED BY <1>1, <1>2, <1>3, <1>4 DEF IInv

(* al_eth_lm_mode_apply *)
LEMMA LinkApplyKeeps ==
    ASSUME IInv, LinkApply
    PROVE  IInv'
  <1> USE DEF LinkApply, At, Goto, held
  <1>1. Shape'
    <2>1. TypeOK'
      BY DEF IInv, Shape, TypeOK
    <2>2. /\ at' \in [Actors -> UserPlaces \union ResetPlaces \union LinkPlaces]
          /\ at'["user"] \in UserPlaces /\ at'["reset"] \in ResetPlaces
          /\ at'["link"] \in LinkPlaces
      BY DEF IInv, Shape
    <2>3. sub' \in [Actors -> UpSubs \union DownSubs \union {Return, "dead"}]
      BY DEF IInv, Shape
    <2> QED BY <2>1, <2>2, <2>3 DEF IInv, Shape
  <1>2. ASSUME ~spoiled' PROVE Waits'
    BY <1>2 DEF IInv, Shape, Waits, Turns, Exact
  <1>3. ASSUME ~spoiled' PROVE Turns'
    BY <1>3 DEF IInv, Shape, Waits, Turns, Exact, Holds, Expected
  <1>4. ASSUME ~spoiled' PROVE Exact'
    <2>1. \A c \in Actors : sub'[c] # Return => Holds(sub[c])'
      BY <1>4 DEF IInv, Shape, Waits, Turns, Exact, Holds, Expected, Balanced
    <2>2. Balanced'
      BY <1>4 DEF IInv, Shape, Waits, Turns, Exact, Holds, Balanced
    <2>3. Quiet' => Expected'
      BY <1>4 DEF IInv, Shape, Waits, Turns, Exact, Holds, Expected
    <2> QED BY <2>1, <2>2, <2>3 DEF Exact
  <1> QED BY <1>1, <1>2, <1>3, <1>4 DEF IInv

(* al_eth_group_lm_pre_establish, ... *)
LEMMA LinkPreEstablishKeeps ==
    ASSUME IInv, LinkPreEstablish
    PROVE  IInv'
  <1> USE DEF LinkPreEstablish, At, Goto, Call, held, link
  <1>1. Shape'
    <2>1. TypeOK'
      BY DEF IInv, Shape, TypeOK
    <2>2. /\ at' \in [Actors -> UserPlaces \union ResetPlaces \union LinkPlaces]
          /\ at'["user"] \in UserPlaces /\ at'["reset"] \in ResetPlaces
          /\ at'["link"] \in LinkPlaces
      BY DEF IInv, Shape
    <2>3. sub' \in [Actors -> UpSubs \union DownSubs \union {Return, "dead"}]
      BY DEF IInv, Shape
    <2> QED BY <2>1, <2>2, <2>3 DEF IInv, Shape
  <1>2. ASSUME ~spoiled' PROVE Waits'
    BY <1>2 DEF IInv, Shape, Waits, Turns, Exact
  <1>3. ASSUME ~spoiled' PROVE Turns'
    BY <1>3 DEF IInv, Shape, Waits, Turns, Exact, Holds, Expected
  <1>4. ASSUME ~spoiled' PROVE Exact'
    <2>1. \A c \in Actors : sub'[c] # Return => Holds(sub[c])'
      BY <1>4, ZenonT(60) DEF IInv, Shape, Waits, Turns, Exact, Holds, Expected, Balanced
    <2>2. Balanced'
      BY <1>4 DEF IInv, Shape, Waits, Turns, Exact, Holds, Balanced
    <2>3. Quiet' => Expected'
      BY <1>4 DEF IInv, Shape, Waits, Turns, Exact, Holds, Expected
    <2> QED BY <2>1, <2>2, <2>3 DEF Exact
  <1> QED BY <1>1, <1>2, <1>3, <1>4 DEF IInv

(* ... and its result *)
LEMMA LinkPreDoneKeeps ==
    ASSUME IInv, LinkPreDone
    PROVE  IInv'
  <1> USE DEF LinkPreDone, At, Goto, held, link
  <1>1. Shape'
    <2>1. TypeOK'
      BY DEF IInv, Shape, TypeOK
    <2>2. /\ at' \in [Actors -> UserPlaces \union ResetPlaces \union LinkPlaces]
          /\ at'["user"] \in UserPlaces /\ at'["reset"] \in ResetPlaces
          /\ at'["link"] \in LinkPlaces
      BY DEF IInv, Shape
    <2>3. sub' \in [Actors -> UpSubs \union DownSubs \union {Return, "dead"}]
      BY DEF IInv, Shape
    <2> QED BY <2>1, <2>2, <2>3 DEF IInv, Shape
  <1>2. ASSUME ~spoiled' PROVE Waits'
    BY <1>2 DEF IInv, Shape, Waits, Turns, Exact
  <1>3. ASSUME ~spoiled' PROVE Turns'
    BY <1>3 DEF IInv, Shape, Waits, Turns, Exact, Holds, Expected
  <1>4. ASSUME ~spoiled' PROVE Exact'
    <2>1. \A c \in Actors : sub'[c] # Return => Holds(sub[c])'
      BY <1>4 DEF IInv, Shape, Waits, Turns, Exact, Holds, Expected, Balanced
    <2>2. Balanced'
      BY <1>4 DEF IInv, Shape, Waits, Turns, Exact, Holds, Balanced
    <2>3. Quiet' => Expected'
      BY <1>4 DEF IInv, Shape, Waits, Turns, Exact, Holds, Expected
    <2> QED BY <2>1, <2>2, <2>3 DEF Exact
  <1> QED BY <1>1, <1>2, <1>3, <1>4 DEF IInv

(* al_eth_group_lm_update_port_status *)
LEMMA LinkEstablishKeeps ==
    ASSUME IInv, LinkEstablish
    PROVE  IInv'
  <1> USE DEF LinkEstablish, At, Goto, held
  <1>1. Shape'
    <2>1. TypeOK'
      BY DEF IInv, Shape, TypeOK
    <2>2. /\ at' \in [Actors -> UserPlaces \union ResetPlaces \union LinkPlaces]
          /\ at'["user"] \in UserPlaces /\ at'["reset"] \in ResetPlaces
          /\ at'["link"] \in LinkPlaces
      BY DEF IInv, Shape
    <2>3. sub' \in [Actors -> UpSubs \union DownSubs \union {Return, "dead"}]
      BY DEF IInv, Shape
    <2> QED BY <2>1, <2>2, <2>3 DEF IInv, Shape
  <1>2. ASSUME ~spoiled' PROVE Waits'
    BY <1>2 DEF IInv, Shape, Waits, Turns, Exact
  <1>3. ASSUME ~spoiled' PROVE Turns'
    BY <1>3 DEF IInv, Shape, Waits, Turns, Exact, Holds, Expected
  <1>4. ASSUME ~spoiled' PROVE Exact'
    <2>1. \A c \in Actors : sub'[c] # Return => Holds(sub[c])'
      BY <1>4 DEF IInv, Shape, Waits, Turns, Exact, Holds, Expected, Balanced
    <2>2. Balanced'
      BY <1>4 DEF IInv, Shape, Waits, Turns, Exact, Holds, Balanced
    <2>3. Quiet' => Expected'
      BY <1>4 DEF IInv, Shape, Waits, Turns, Exact, Holds, Expected
    <2> QED BY <2>1, <2>2, <2>3 DEF Exact
  <1> QED BY <1>1, <1>2, <1>3, <1>4 DEF IInv

(* The link status task ends and is queued again. *)
LEMMA LinkDoneKeeps ==
    ASSUME IInv, LinkDone
    PROVE  IInv'
  <1> USE DEF LinkDone, At, Goto, Cancelling, held, link
  <1>1. Shape'
    <2>1. TypeOK'
      BY DEF IInv, Shape, TypeOK
    <2>2. /\ at' \in [Actors -> UserPlaces \union ResetPlaces \union LinkPlaces]
          /\ at'["user"] \in UserPlaces /\ at'["reset"] \in ResetPlaces
          /\ at'["link"] \in LinkPlaces
      BY DEF IInv, Shape
    <2>3. sub' \in [Actors -> UpSubs \union DownSubs \union {Return, "dead"}]
      BY DEF IInv, Shape
    <2> QED BY <2>1, <2>2, <2>3 DEF IInv, Shape
  <1>2. ASSUME ~spoiled' PROVE Waits'
    BY <1>2 DEF IInv, Shape, Waits, Turns, Exact
  <1>3. ASSUME ~spoiled' PROVE Turns'
    BY <1>3 DEF IInv, Shape, Waits, Turns, Exact, Holds, Expected
  <1>4. ASSUME ~spoiled' PROVE Exact'
    <2>1. \A c \in Actors : sub'[c] # Return => Holds(sub[c])'
      BY <1>4 DEF IInv, Shape, Waits, Turns, Exact, Holds, Expected, Balanced
    <2>2. Balanced'
      BY <1>4 DEF IInv, Shape, Waits, Turns, Exact, Holds, Balanced
    <2>3. Quiet' => Expected'
      BY <1>4 DEF IInv, Shape, Waits, Turns, Exact, Holds, Expected
    <2> QED BY <2>1, <2>2, <2>3 DEF Exact
  <1> QED BY <1>1, <1>2, <1>3, <1>4 DEF IInv

(* phylib finds the link up. *)
LEMMA PhyLinkUpKeeps ==
    ASSUME IInv, NEW m \in {"low", "serial"}, PhyLinkUp(m)
    PROVE  IInv'
  <1> USE DEF PhyLinkUp, At, Call, held
  <1>1. Shape'
    <2>1. TypeOK'
      BY DEF IInv, Shape, TypeOK
    <2>2. /\ at' \in [Actors -> UserPlaces \union ResetPlaces \union LinkPlaces]
          /\ at'["user"] \in UserPlaces /\ at'["reset"] \in ResetPlaces
          /\ at'["link"] \in LinkPlaces
      BY DEF IInv, Shape
    <2>3. sub' \in [Actors -> UpSubs \union DownSubs \union {Return, "dead"}]
      BY DEF IInv, Shape
    <2> QED BY <2>1, <2>2, <2>3 DEF IInv, Shape
  <1>2. ASSUME ~spoiled' PROVE Waits'
    BY <1>2 DEF IInv, Shape, Waits, Turns, Exact
  <1>3. ASSUME ~spoiled' PROVE Turns'
    BY <1>3 DEF IInv, Shape, Waits, Turns, Exact, Holds, Expected
  <1>4. ASSUME ~spoiled' PROVE Exact'
    <2>1. \A c \in Actors : sub'[c] # Return => Holds(sub[c])'
      BY <1>4 DEF IInv, Shape, Waits, Turns, Exact, Holds, Expected, Balanced
    <2>2. Balanced'
      BY <1>4 DEF IInv, Shape, Waits, Turns, Exact, Holds, Balanced
    <2>3. Quiet' => Expected'
      BY <1>4 DEF IInv, Shape, Waits, Turns, Exact, Holds, Expected
    <2> QED BY <2>1, <2>2, <2>3 DEF Exact
  <1> QED BY <1>1, <1>2, <1>3, <1>4 DEF IInv

(* al_eth_adjust_link brings the interface up again, ... *)
LEMMA PhyUpKeeps ==
    ASSUME IInv, PhyUp
    PROVE  IInv'
  <1> USE DEF PhyUp, At, Call, held, link
  <1>1. Shape'
    <2>1. TypeOK'
      BY DEF IInv, Shape, TypeOK
    <2>2. /\ at' \in [Actors -> UserPlaces \union ResetPlaces \union LinkPlaces]
          /\ at'["user"] \in UserPlaces /\ at'["reset"] \in ResetPlaces
          /\ at'["link"] \in LinkPlaces
      BY DEF IInv, Shape
    <2>3. sub' \in [Actors -> UpSubs \union DownSubs \union {Return, "dead"}]
      BY DEF IInv, Shape
    <2> QED BY <2>1, <2>2, <2>3 DEF IInv, Shape
  <1>2. ASSUME ~spoiled' PROVE Waits'
    BY <1>2 DEF IInv, Shape, Waits, Turns, Exact
  <1>3. ASSUME ~spoiled' PROVE Turns'
    BY <1>3 DEF IInv, Shape, Waits, Turns, Exact, Holds, Expected
  <1>4. ASSUME ~spoiled' PROVE Exact'
    <2>1. \A c \in Actors : sub'[c] # Return => Holds(sub[c])'
      BY <1>4, ZenonT(60) DEF IInv, Shape, Waits, Turns, Exact, Holds, Expected, Balanced
    <2>2. Balanced'
      BY <1>4 DEF IInv, Shape, Waits, Turns, Exact, Holds, Balanced
    <2>3. Quiet' => Expected'
      BY <1>4 DEF IInv, Shape, Waits, Turns, Exact, Holds, Expected
    <2> QED BY <2>1, <2>2, <2>3 DEF Exact
  <1> QED BY <1>1, <1>2, <1>3, <1>4 DEF IInv

(* ... and ends. *)
LEMMA PhyDoneKeeps ==
    ASSUME IInv, PhyDone
    PROVE  IInv'
  <1> USE DEF PhyDone, At, Goto, held, link
  <1>1. Shape'
    <2>1. TypeOK'
      BY DEF IInv, Shape, TypeOK
    <2>2. /\ at' \in [Actors -> UserPlaces \union ResetPlaces \union LinkPlaces]
          /\ at'["user"] \in UserPlaces /\ at'["reset"] \in ResetPlaces
          /\ at'["link"] \in LinkPlaces
      BY DEF IInv, Shape
    <2>3. sub' \in [Actors -> UpSubs \union DownSubs \union {Return, "dead"}]
      BY DEF IInv, Shape
    <2> QED BY <2>1, <2>2, <2>3 DEF IInv, Shape
  <1>2. ASSUME ~spoiled' PROVE Waits'
    BY <1>2 DEF IInv, Shape, Waits, Turns, Exact
  <1>3. ASSUME ~spoiled' PROVE Turns'
    BY <1>3 DEF IInv, Shape, Waits, Turns, Exact, Holds, Expected
  <1>4. ASSUME ~spoiled' PROVE Exact'
    <2>1. \A c \in Actors : sub'[c] # Return => Holds(sub[c])'
      BY <1>4 DEF IInv, Shape, Waits, Turns, Exact, Holds, Expected, Balanced
    <2>2. Balanced'
      BY <1>4 DEF IInv, Shape, Waits, Turns, Exact, Holds, Balanced
    <2>3. Quiet' => Expected'
      BY <1>4 DEF IInv, Shape, Waits, Turns, Exact, Holds, Expected
    <2> QED BY <2>1, <2>2, <2>3 DEF Exact
  <1> QED BY <1>1, <1>2, <1>3, <1>4 DEF IInv

(* phylib finds the link down. *)
LEMMA PhyLinkDownKeeps ==
    ASSUME IInv, PhyLinkDown
    PROVE  IInv'
  <1> USE DEF PhyLinkDown, At, calls, held
  <1>1. Shape'
    <2>1. TypeOK'
      <3>1. carrier' \in BOOLEAN
        BY DEF IInv, Shape, TypeOK
      <3>2. UNCHANGED <<present, running, rtnl, ok, pending, up, reset_requested, rings,
                        irq, napi, hw, lm_mode, mac_mode, board>>
        OBVIOUS
      <3> HIDE DEF PhyLinkDown
      <3> QED BY <3>1, <3>2 DEF IInv, Shape, TypeOK
    <2>2. /\ at' \in [Actors -> UserPlaces \union ResetPlaces \union LinkPlaces]
          /\ at'["user"] \in UserPlaces /\ at'["reset"] \in ResetPlaces
          /\ at'["link"] \in LinkPlaces
      BY DEF IInv, Shape
    <2>3. sub' \in [Actors -> UpSubs \union DownSubs \union {Return, "dead"}]
      BY DEF IInv, Shape
    <2> QED BY <2>1, <2>2, <2>3 DEF IInv, Shape
  <1>2. ASSUME ~spoiled' PROVE Waits'
    BY <1>2 DEF IInv, Shape, Waits, Turns, Exact
  <1>3. ASSUME ~spoiled' PROVE Turns'
    BY <1>3 DEF IInv, Shape, Waits, Turns, Exact, Holds, Expected
  <1>4. ASSUME ~spoiled' PROVE Exact'
    <2>1. \A c \in Actors : sub'[c] # Return => Holds(sub[c])'
      BY <1>4 DEF IInv, Shape, Waits, Turns, Exact, Holds, Expected, Balanced
    <2>2. Balanced'
      BY <1>4 DEF IInv, Shape, Waits, Turns, Exact, Holds, Balanced
    <2>3. Quiet' => Expected'
      BY <1>4 DEF IInv, Shape, Waits, Turns, Exact, Holds, Expected
    <2> QED BY <2>1, <2>2, <2>3 DEF Exact
  <1> QED BY <1>1, <1>2, <1>3, <1>4 DEF IInv
-----------------------------------------------------------------------------
(* al_eth_probe *)
LEMMA InitIInv == Init => IInv
  <1> SUFFICES ASSUME Init PROVE IInv
    OBVIOUS
  <1> USE DEF Init
  <1>1. Shape
    BY DEF Shape, TypeOK, Disconnected
  <1>2. Waits /\ Turns
    BY DEF Waits, Turns
  <1>3. Exact
    BY DEF Exact, Balanced, Expected
  <1> QED BY <1>1, <1>2, <1>3 DEF IInv

(* Every step of every actor *)
LEMMA NextKeeps ==
    ASSUME IInv, [Next]_vars
    PROVE  IInv'
  <1>1. CASE UNCHANGED vars
    BY <1>1 DEF vars, calls, held, link, IInv, Shape, TypeOK, Waits, Turns, Exact, Holds,
                Balanced, Expected
  <1>2. ASSUME NEW a \in Actors, al_eth_up(a) \/ al_eth_down(a) PROVE IInv'
    BY <1>2, UpHwInitKeeps, UpSetupTxKeeps, UpSetupRxKeeps, UpRequestIrqKeeps, UpUnwindKeeps,
       UpCompleteKeeps, UpDoneKeeps, DownBeginKeeps, DownNapiKeeps, DownStopKeeps,
       DownFreeKeeps
       DEF al_eth_up, al_eth_down
  <1>3. CASE User
    BY <1>2, <1>3, OpenPlainKeeps, OpenFailsKeeps, OpenPhyKeeps, CancelLinkKeeps,
       CancelResetKeeps, CloseDownKeeps, ClosedKeeps
       DEF User
  <1>4. CASE Reset
    BY <1>2, <1>4, ResetRunKeeps, ResetDownKeeps, ResetUpKeeps, ResetEndKeeps DEF Reset
  <1>5. CASE Link
    BY <1>2, <1>5, LinkRunKeeps, LinkDetectKeeps, LinkApplyKeeps, LinkPreEstablishKeeps,
       LinkPreDoneKeeps, LinkEstablishKeeps, LinkDoneKeeps, PhyUpKeeps, PhyDoneKeeps
       DEF Link
  <1>6. CASE Environment
    BY <1>6, OpenKeeps, CloseKeeps, RemoveStopKeeps, UnregisterKeeps, TxTimeoutKeeps,
       PhyLinkDownKeeps, PhyLinkUpKeeps
       DEF Environment
  <1> QED BY <1>1, <1>3, <1>4, <1>5, <1>6 DEF Next

(* The invariant holds in every reachable state. *)
LEMMA LifecycleInvariant == Spec => []IInv
  <1>1. IInv /\ [Next]_vars => IInv'
    BY NextKeeps
  <1> QED BY InitIInv, <1>1, PTL DEF Spec

(* adapter->up tells what is held whenever nobody is inside al_eth_up or   *)
(* al_eth_down, on every board and through every failure that is reported. *)
THEOREM UpTellsTheTruth == Spec => []Balanced
  <1>1. IInv => Balanced
    BY DEF IInv, Exact, Balanced
  <1> QED BY <1>1, LifecycleInvariant, PTL

(* The stack is told of a carrier only while the interface is up. *)
THEOREM NoCarrierWithoutRings == Spec => []CarrierMeansUp
  <1>1. IInv => CarrierMeansUp
    BY DEF IInv, Turns, CarrierMeansUp
  <1> QED BY <1>1, LifecycleInvariant, PTL

(* al_eth_remove leaves no work, no interrupt, no memory behind. *)
THEOREM RemoveLeavesNothing == Spec => []RemovedClean
  <1>1. ASSUME IInv, present = "gone", ~spoiled
        PROVE  /\ pending = {} /\ \A a \in Actors : At(a, "idle")
               /\ ~irq /\ ~hw /\ napi # "on" /\ rings = {}
    <2>1. /\ ~running /\ at["user"] = "idle" /\ pending = {}
          /\ at["reset"] = "idle" /\ at["link"] = "idle"
      BY <1>1 DEF IInv, Shape, TypeOK, Turns
    <2>2. \A a \in Actors : At(a, "idle")
      BY <1>1, <2>1 DEF IInv, Shape, Waits, At
    <2>3. Quiet /\ ~up
      BY <1>1, <2>1, <2>2 DEF IInv, Exact, Expected, At
    <2> QED BY <1>1, <2>1, <2>2, <2>3 DEF IInv, Shape, TypeOK, Exact, Balanced
  <1>2. IInv => RemovedClean
    BY <1>1 DEF RemovedClean
  <1> QED BY <1>2, LifecycleInvariant, PTL

(* The rings are freed only after the engine has stopped and the interrupts *)
(* are gone, in al_eth_down and in the error labels of al_eth_up.          *)
THEOREM RingsFreedAfterStop == Spec => FreedAfterStop
  <1> DEFINE Frees == rings' # rings /\ rings' = {} /\ ~spoiled => ~hw' /\ ~irq'
  <1>1. ASSUME IInv, [Next]_vars PROVE [Frees]_vars
    <2>1. CASE UNCHANGED vars
      BY <2>1 DEF vars
    <2>2. ASSUME NEW a \in Actors, al_eth_up(a) \/ al_eth_down(a) PROVE Frees
      <3>1. CASE UpUnwind(a)
        BY <3>1 DEF UpUnwind
      <3>2. CASE DownFree(a)
        BY <1>1, <3>2 DEF DownFree, IInv, Exact, Holds
      <3>3. CASE ~UpUnwind(a) /\ ~DownFree(a)
        BY <2>2, <3>3 DEF al_eth_up, al_eth_down, UpHwInit, UpSetupTx, UpSetupRx, UpRequestIrq,
           UpComplete, UpDone, DownBegin, DownNapi, DownStop, held
      <3> QED BY <3>1, <3>2, <3>3
    <2>3. CASE User
      BY <2>2, <2>3 DEF User, OpenPlain, OpenFails, OpenPhy, CancelLink, CancelReset,
         CloseDown, Closed, held
    <2>4. CASE Reset
      BY <2>2, <2>4 DEF Reset, ResetRun, ResetDown, ResetUp, ResetEnd, held
    <2>5. CASE Link
      BY <2>2, <2>5 DEF Link, LinkRun, LinkDetect, LinkApply, LinkPreEstablish, LinkPreDone,
         LinkEstablish, LinkDone, PhyUp, PhyDone, held
    <2>6. CASE Environment
      BY <2>6 DEF Environment, Open, Close, RemoveStop, Unregister, TxTimeout, PhyLinkDown,
         PhyLinkUp, held
    <2> HIDE DEF Frees
    <2> QED BY <1>1, <2>1, <2>3, <2>4, <2>5, <2>6 DEF Next
  <1> QED BY <1>1, LifecycleInvariant, PTL DEF Spec, FreedAfterStop
=============================================================================
