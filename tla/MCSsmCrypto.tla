---------------------------- MODULE MCSsmCrypto ----------------------------
(* Small instances of SsmCrypto for TLC. *)
EXTENDS SsmCrypto, TLC

CONSTANTS c1, c2, r1, r2, r3

OneCaller == {c1}
TwoCallers == {c1, c2}
TwoReqs == {r1, r2}
ThreeReqs == {r1, r2, r3}

(* Callers and requests are interchangeable. *)
Symmetry == Permutations(Callers) \cup Permutations(Reqs)
=============================================================================
