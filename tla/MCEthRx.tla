------------------------------ MODULE MCEthRx ------------------------------
(* Small instances of EthRx for TLC.  The constants are given in the cfgs. *)
EXTENDS EthRx
=============================================================================
