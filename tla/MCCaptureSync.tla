--------------------------- MODULE MCCaptureSync ---------------------------
(* Instances of CaptureSync for TLC. *)
EXTENDS CaptureSync

DelaysBothSigns == {-1, 1}
=============================================================================
