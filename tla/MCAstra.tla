------------------------------ MODULE MCAstra ------------------------------
(* A reader with two listeners and two frame variables, another reader's   *)
(* connection, and a stream whose bin may be exchanged.                     *)
EXTENDS AstraReader, TLC

CONSTANTS own, other, l1, l2, f1, f2, k1, k2

MCSymmetry == Permutations({l1, l2}) \cup Permutations({f1, f2}) \cup Permutations({k1, k2})
=============================================================================
