---------------------------- MODULE UsbCommand -----------------------------
(***************************************************************************)
(* Commands over an open usbcmd_t (usb_cmd_io and its callers, in          *)
(* src/src/usbcommand/usbcommand.c) and the operations of the color MCU    *)
(* that are made of them (src/src/color_mcu/color_mcu.c).                  *)
(*                                                                         *)
(* A transaction sends a command, moves its data and reads a response, one *)
(* transaction at a time under the lock.  Each of the transfers may time   *)
(* out while the device still answers later: the pipe from the device then *)
(* holds packets of an earlier transaction when the next one reads it, and *)
(* only the response carries a transaction id.                             *)
(***************************************************************************)
EXTENDS UsbDevice, Functions

CONSTANTS
  Callers,       \* threads that use the handle
  Controller,    \* the one that starts and stops the IMU
  IdModulus,     \* 2^32 in the code
  InboxMax,      \* commands the device has taken and not answered
  PipeMax,       \* packets the device has sent and the host has not read
  MaxCommands,   \* bound on the number of commands of a behaviour
  DestroyDuring  \* where other threads may be when the handle is destroyed

NoCaller == "nobody"

ASSUME CommandAssumption ==
  /\ Controller \in Callers
  /\ NoCaller \notin Callers
  /\ InboxMax \in Nat /\ PipeMax \in Nat /\ MaxCommands \in Nat
  /\ IdModulus \in Nat \ {0}
  /\ DestroyDuring \subseteq {"command", "data", "response"}

VARIABLES
  transaction_id,  \* of usbcmd_context_t
  lock,            \* who holds usbcmd->lock
  stream_going,
  caller,          \* each thread's call
  sent,            \* how many commands were made: names each of them
  inbox, pipe,     \* the device's side of the two endpoints
  imu,             \* whether the IMU of the device is streaming
  attached         \* false once the device has reset itself

commandVars ==
  <<transaction_id, lock, stream_going, caller, sent, inbox, pipe, imu, attached>>
vars == <<deviceVars, commandVars>>

Nothing == [kind |-> "none", id |-> 0, of |-> 0, status |-> 0]
Idle == [at |-> "idle", op |-> "none", n |-> 0, id |-> 0, data |-> Nothing,
         response |-> Nothing]

(* colormcu_..., by the command they send and the direction of its data;   *)
(* and usb_cmd_write with data, which no function of the MCU uses.         *)
Reads == {"get_external_sync_jack_state"}
Writes == {"set_multi_device_mode", "reset_device", "imu_start_streaming",
           "imu_stop_streaming"}
WritesData == {"write_data"}
Imu == {"imu_start_streaming", "imu_stop_streaming"}

Init ==
  /\ DeviceInit
  /\ transaction_id = 0
  /\ lock = NoCaller
  /\ stream_going = FALSE
  /\ caller = [c \in Callers |-> Idle]
  /\ sent = 0
  /\ inbox = <<>>
  /\ pipe = <<>>
  /\ imu = FALSE
  /\ attached = TRUE

Step(c, at) == caller' = [caller EXCEPT ![c].at = at]

-----------------------------------------------------------------------------
(* The calls                                                               *)

(* Bound: the commands of a behaviour. *)
FewCommands == sent + Cardinality({c \in Callers : caller[c].at = "begin"}) < MaxCommands

(* Only the controller starts and stops the IMU; colormcu_imu_stop_        *)
(* streaming stops the stream before it sends its command.                 *)
Call(c, op) ==
  /\ stage = "ready"
  /\ caller[c].at = "idle"
  /\ op \in Imu => c = Controller
  /\ FewCommands
  /\ IF op = "imu_stop_streaming" THEN lock = NoCaller /\ stream_going' = FALSE
                                  ELSE UNCHANGED stream_going
  /\ caller' = [caller EXCEPT ![c] = [Idle EXCEPT !.at = "begin", !.op = op]]
  /\ UNCHANGED <<deviceVars, transaction_id, lock, sent, inbox, pipe, imu, attached>>

(* usbcmd->transaction_id++, a uint32_t                                    *)
IdNext == (transaction_id + 1) % IdModulus

(* Bound: the device does not keep an answer for a whole round of ids.  A  *)
(* round is 2^32 commands, each of which failed: one that succeeds has     *)
(* read everything sent before it.                                         *)
NoAnswerARoundOld ==
  \A p \in Range(inbox) \cup Range(pipe) : sent + 1 - p.of < IdModulus

LockAndNumber(c) ==
  /\ caller[c].at = "begin"
  /\ lock = NoCaller
  /\ lock' = c
  /\ NoAnswerARoundOld
  /\ sent' = sent + 1
  /\ transaction_id' = IdNext
  /\ caller' = [caller EXCEPT ![c].at = "command", ![c].n = sent + 1,
                              ![c].id = transaction_id]
  /\ UNCHANGED <<deviceVars, stream_going, inbox, pipe, imu, attached>>

Packet(c) == [id |-> caller[c].id, of |-> caller[c].n, op |-> caller[c].op]

(* A command whose data does not follow is not carried out.                *)
SendCommand(c) ==
  /\ caller[c].at = "command"
  /\ IF caller[c].op \in WritesData
     THEN UNCHANGED inbox
     ELSE Len(inbox) < InboxMax /\ inbox' = Append(inbox, Packet(c))
  /\ Step(c, IF caller[c].op \in Writes THEN "response" ELSE "data")
  /\ UNCHANGED <<deviceVars, transaction_id, lock, stream_going, sent, pipe, imu, attached>>

SendData(c) ==
  /\ caller[c].at = "data" /\ caller[c].op \in WritesData
  /\ Len(inbox) < InboxMax
  /\ inbox' = Append(inbox, Packet(c))
  /\ Step(c, "response")
  /\ UNCHANGED <<deviceVars, transaction_id, lock, stream_going, sent, pipe, imu, attached>>

(* Whatever packet comes first is the data, if it fits the buffer.         *)
ReceiveData(c) ==
  /\ caller[c].at = "data" /\ caller[c].op \in Reads
  /\ pipe # <<>>
  /\ pipe' = Tail(pipe)
  /\ \/ caller' = [caller EXCEPT ![c].at = "response", ![c].data = Head(pipe)]
     \/ /\ Head(pipe).kind # "data"
        /\ Step(c, "failed")
  /\ UNCHANGED <<deviceVars, transaction_id, lock, stream_going, sent, inbox, imu, attached>>

AnyResponse(c, p) == p.kind = "response"                         \* mutant

(* The response's size and type, and the transaction id.                   *)
IsResponse(c, p) == p.kind = "response" /\ p.id = caller[c].id

ReceiveResponse(c) ==
  /\ caller[c].at = "response"
  /\ pipe # <<>>
  /\ pipe' = Tail(pipe)
  /\ IF IsResponse(c, Head(pipe))
     THEN caller' = [caller EXCEPT ![c].at = "succeeded", ![c].response = Head(pipe)]
     ELSE Step(c, "failed")
  /\ UNCHANGED <<deviceVars, transaction_id, lock, stream_going, sent, inbox, imu, attached>>

(* A transfer times out or fails; one that sends may have arrived all the  *)
(* same.                                                                   *)
TransferFails(c) ==
  /\ caller[c].at \in {"command", "data", "response"}
  /\ \/ UNCHANGED inbox
     \/ /\ \/ caller[c].at = "command" /\ caller[c].op \notin WritesData
           \/ caller[c].at = "data" /\ caller[c].op \in WritesData
        /\ Len(inbox) < InboxMax
        /\ inbox' = Append(inbox, Packet(c))
  /\ Step(c, "failed")
  /\ UNCHANGED <<deviceVars, transaction_id, lock, stream_going, sent, pipe, imu, attached>>

StatusIgnored(c) == caller[c].at = "succeeded"                   \* mutant

(* usb_cmd_read and usb_cmd_write fail when the device's status is not 0.  *)
Succeeded(c) == caller[c].at = "succeeded" /\ caller[c].response.status = 0

(* The lock is given up and the call returns, except that a successful     *)
(* colormcu_imu_start_streaming goes on to start the stream.               *)
Unlock(c) ==
  /\ caller[c].at \in {"succeeded", "failed"}
  /\ lock' = NoCaller
  /\ caller' = [caller EXCEPT ![c] =
       IF Succeeded(c) /\ caller[c].op = "imu_start_streaming"
       THEN [Idle EXCEPT !.at = "stream"] ELSE Idle]
  /\ UNCHANGED <<deviceVars, transaction_id, stream_going, sent, inbox, pipe, imu, attached>>

(* usb_cmd_stream_start, which UsbStream details, and may fail.            *)
StreamStart(c) ==
  /\ caller[c].at = "stream"
  /\ lock = NoCaller
  /\ stream_going' \in {stream_going, TRUE}
  /\ Step(c, "idle")
  /\ UNCHANGED <<deviceVars, transaction_id, lock, sent, inbox, pipe, imu, attached>>

-----------------------------------------------------------------------------
(* The device answers the commands in order, as late as it likes: data and *)
(* response, or a response with an error.                                  *)

Data(p) == [kind |-> "data", id |-> p.id, of |-> p.of, status |-> 0]
Response(p, s) == [kind |-> "response", id |-> p.id, of |-> p.of, status |-> s]

Answers(p) ==
  {<<Response(p, 1)>>,
   IF p.op \in Reads THEN <<Data(p), Response(p, 0)>> ELSE <<Response(p, 0)>>}

(* A device that carries out a reset leaves the bus; nothing is answered   *)
(* until it is opened again.                                               *)
Reset == "reset_device"

DeviceAnswers ==
  /\ attached
  /\ inbox # <<>>
  /\ \E a \in Answers(Head(inbox)) :
       /\ Len(pipe) + Len(a) <= PipeMax
       /\ pipe' = pipe \o a
       /\ LET done == a[Len(a)].status = 0
              op == Head(inbox).op
          IN  /\ imu' = IF done /\ op \in Imu \cup {Reset} THEN op = "imu_start_streaming" ELSE imu
              /\ attached' = ~(done /\ op = Reset)
  /\ inbox' = Tail(inbox)
  /\ UNCHANGED <<deviceVars, transaction_id, lock, stream_going, caller, sent>>

-----------------------------------------------------------------------------
(* colormcu_destroy and usb_cmd_destroy                                    *)

(* The stream is stopped first.  No call begins after this one.            *)
Destroy ==
  /\ stage = "ready"
  /\ caller[Controller].at = "idle"
  /\ \A c \in Callers : caller[c].at \in DestroyDuring \cup {"idle", "failed", "succeeded"}
  /\ lock = NoCaller \/ ~stream_going
  /\ stream_going' = FALSE
  /\ stage' = "waiting"
  /\ UNCHANGED <<usbcmd, search, lib, transaction_id, lock, caller, sent, inbox, pipe, imu, attached>>

WaitsForNobody == TRUE                                           \* mutant

(* "Wait for any outstanding commands to process": Lock and Unlock.        *)
WaitsForLock == lock = NoCaller

(* The handle is closed; what the device had sent is lost with it.         *)
DestroyReleases ==
  /\ WaitsForLock
  /\ Release("waiting")
  /\ transaction_id' = 0
  /\ pipe' = <<>>
  /\ inbox' = <<>>
  /\ attached' = TRUE
  /\ UNCHANGED <<lock, stream_going, caller, sent, imu>>

Next ==
  \/ DeviceNext /\ UNCHANGED commandVars
  \/ \E c \in Callers :
       \/ \E op \in Reads \cup Writes \cup WritesData : Call(c, op)
       \/ LockAndNumber(c)
       \/ SendCommand(c)
       \/ SendData(c)
       \/ ReceiveData(c)
       \/ ReceiveResponse(c)
       \/ TransferFails(c)
       \/ Unlock(c)
       \/ StreamStart(c)
  \/ DeviceAnswers
  \/ Destroy
  \/ DestroyReleases

Spec == Init /\ [][Next]_vars

-----------------------------------------------------------------------------
(* Properties                                                              *)

(* A transaction that succeeded has read the response to its own command,  *)
(* and a read with status 0 the data of its own command, whatever earlier  *)
(* transactions that timed out have left in the pipe, and across a         *)
(* wrap-around of the ids.                                                 *)
AnswerIsOwn ==
  \A c \in Callers : caller[c].at = "succeeded" =>
    /\ caller[c].response.of = caller[c].n
    /\ Succeeded(c) /\ caller[c].op \in Reads =>
         caller[c].data.kind = "data" /\ caller[c].data.of = caller[c].n

(* The device is not closed, and the lock not freed, under a transaction.  *)
DeviceOutlivesCommands ==
  \A c \in Callers : caller[c].at \in {"begin", "command", "data", "response"} =>
    stage \in {"ready", "waiting"}

(* The host expects IMU data only while the IMU streams: no STOP that      *)
(* timed out takes effect after the START that followed it.                *)
StreamingMeansImuOn == stream_going /\ attached => imu

=============================================================================
