--------------------------- MODULE MCEthLifecycle ---------------------------
(* Small instances of EthLifecycle for TLC. *)
EXTENDS EthLifecycle

(* A reset that meets the link task has spoiled the interface, of which    *)
(* nothing is claimed from then on: TLC does not go on from such a state.  *)
BeforeResetMeetsLink ==
    ~(spoiled /\ board = "lm" /\ ("reset" \in pending \/ at["reset"] # "idle"))
=============================================================================
