-------------------------- MODULE MCCaptureMemory --------------------------
(* Instances of CaptureMemory for TLC. *)
EXTENDS CaptureMemory, TLC

(* Threads, images and buffers are interchangeable. *)
Symmetry ==
  Permutations(Threads) \cup Permutations(Images) \cup Permutations(Buffers)

=============================================================================
