------------------------------ MODULE MCEthTx ------------------------------
(* Small instances of EthTx for TLC.  Socket buffers are numbers.          *)
EXTENDS EthTx

(* Socket buffers of the stack are interchangeable, so it hands over the   *)
(* lowest.  (A symmetry set would do, were it not for the liveness         *)
(* property; no fairness condition mentions the actions constrained here.) *)
LowestFree ==
    \A p \in Skbs :
        /\ owner[p] = "stack"
        /\ \/ owner'[p] = "driver"
           \/ tx_info'[next_to_use].skb = p /\ tx_info[next_to_use].skb # p
        => \A q \in Skbs : owner[q] = "stack" => p <= q

(* The properties promise nothing once a slot was overwritten: such states *)
(* are reached and checked, but not gone on from.                          *)
BeforeOverrun == ~overrun
=============================================================================
