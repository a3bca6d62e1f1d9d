---- MODULE MCDevice ----
(* Two devices that share the allocator and the logger. *)
EXTENDS Sdk, TLC

Symmetry == Permutations(Devices)

(* The log goes to a file; to stdout, for the file cannot be opened; and   *)
(* nowhere but to the callback.                                            *)
MCEnvironments ==
  {[file |-> "zsa.log", opens |-> TRUE, stdout |-> "", level |-> "i"],
   [file |-> "1", opens |-> FALSE, stdout |-> "1", level |-> "e"],
   [file |-> "", opens |-> FALSE, stdout |-> "0", level |-> "t"]}
====
