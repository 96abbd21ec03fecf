------------------------------ MODULE MCAlDma ------------------------------
(* Small instances of AlDma for TLC. *)
EXTENDS AlDma
=============================================================================
