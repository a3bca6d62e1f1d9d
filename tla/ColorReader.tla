---------------------------- MODULE ColorReader ----------------------------
(***************************************************************************)
(* What color_start and color_stop of src/src/color/color.cpp promise of   *)
(* the sample callback, whichever camera reader is behind them: samples    *)
(* are delivered one at a time, only between a start and a stop, and a     *)
(* stop takes effect between two deliveries ("After this call, no more     *)
(* sample callback will be called").                                       *)
(***************************************************************************)

VARIABLES
  on,         \* streaming
  delivering  \* a sample callback is running

vars == <<on, delivering>>

Init == on = FALSE /\ delivering = FALSE

Start == ~on /\ ~delivering /\ on' = TRUE /\ UNCHANGED delivering

Stop == on /\ ~delivering /\ on' = FALSE /\ UNCHANGED delivering

Deliver == on /\ ~delivering /\ delivering' = TRUE /\ UNCHANGED on

Delivered == delivering /\ delivering' = FALSE /\ UNCHANGED on

Next == Start \/ Stop \/ Deliver \/ Delivered

Spec == Init /\ [][Next]_vars

=============================================================================
