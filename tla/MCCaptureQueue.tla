--------------------------- MODULE MCCaptureQueue ---------------------------
(* Instances of CaptureQueue for TLC. *)
EXTENDS CaptureQueue, TLC

(* Threads of one kind and captures are interchangeable. *)
Symmetry ==
  Permutations(Poppers) \cup Permutations(Controllers) \cup Permutations(Captures)

=============================================================================
