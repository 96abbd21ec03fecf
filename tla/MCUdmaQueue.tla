---------------------------- MODULE MCUdmaQueue ----------------------------
(* Instances of UdmaQueue for TLC.  The constants are given in the cfgs. *)
EXTENDS UdmaQueue
=============================================================================
