-------------------------------- MODULE Sdk --------------------------------
(***************************************************************************)
(* Devices and the logger they share.  Every call of the SDK, on the       *)
(* application's threads and on the readers', logs (TRACE_CALL and the     *)
(* LOG_ macros), and stands still while its message is delivered.          *)
(***************************************************************************)
EXTENDS Device, Logging

Caller(d) == <<"caller", d>>
Reader(d) == <<"reader", d>>
SdkThreads == {Caller(d) : d \in Devices} \cup {Reader(d) : d \in Devices}

Quiet(t) == logging[t].at = "idle"

SdkInit == Init /\ LogInit

(* A thread logs inside a call.                                            *)
MayLog(t) == \E d \in Devices : \/ t = Caller(d) /\ ~Idle(d)
                                \/ t = Reader(d) /\ delivering[d]

SdkNext ==
  \/ \E d \in Devices :
       /\ \/ Quiet(Caller(d)) /\ (Begins(d) \/ GoesOn(d))
          \/ Quiet(Reader(d)) /\ ReaderStep(d)
       /\ UNCHANGED logVars
  \/ /\ \/ \E t \in LogThreads : MayLog(t) /\ LogStep(t)
        \/ LogControl
     /\ UNCHANGED vars

SdkSpec == SdkInit /\ [][SdkNext]_<<vars, logVars>>

=============================================================================
