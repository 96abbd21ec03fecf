------------------------------- MODULE Totals -------------------------------
(* The sum of the numbers in a sequence: descriptors of a list of packets   *)
(* or operations.                                                          *)
EXTENDS Integers, Sequences

Total(w) ==
    LET upTo[n \in 0 .. Len(w)] == IF n = 0 THEN 0 ELSE upTo[n - 1] + w[n]
    IN  upTo[Len(w)]

(* f says what an entry of the list weighs. *)
Weight(f, s) == Total([i \in DOMAIN s |-> f[s[i]]])
=============================================================================
