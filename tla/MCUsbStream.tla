---------------------------- MODULE MCUsbStream ----------------------------
(* Instances of UsbStream for TLC. *)
EXTENDS UsbStream

=============================================================================
