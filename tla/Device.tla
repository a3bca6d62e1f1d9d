------------------------------- MODULE Device -------------------------------
(***************************************************************************)
(* The device handle of the SDK: src/src/sdk/zsa.c.  zsa_device_open makes *)
(* the parts of a device one after the other, zsa_device_close takes them  *)
(* apart, zsa_device_start_cameras and zsa_device_stop_cameras run them,   *)
(* and color_capture_ready brings what the color reader delivers to        *)
(* capturesync, on the reader's thread, at any moment of these calls.      *)
(*                                                                         *)
(* The reader is what ColorReader promises of it; capturesync is its       *)
(* running flag and the number of its captures (CaptureSync has the rest). *)
(* zsa_device_open leaves container_id NULL, with which the two parts that *)
(* take it cannot be made; ContainerIds has the ids open is followed for.  *)
(***************************************************************************)
EXTENDS Naturals, Sequences, FiniteSets

CONSTANTS
  Devices,
  ContainerIds,  \* the values of container_id
  NULL,
  MaxQueued,     \* bound on the captures in capturesync
  MaxLost        \* bound on the handles that cannot be made

ASSUME DeviceAssumption ==
  IsFiniteSet(Devices) /\ MaxQueued \in Nat /\ MaxLost \in Nat

VARIABLES
  made,          \* device -> which of its parts exist: zsa_context_t and the handle
  color_started, \* zsa_context_t
  running,       \* capturesync_context_t
  queued,        \* device -> captures in the queues of its capturesync
  on,            \* device -> the color stream is started
  delivering,    \* device -> color_capture_ready has been called
  sessions,      \* allocator_initialize less allocator_deinitialize
  todo,          \* device -> the steps the thread that uses it has still to take
  container_id,
  lost           \* history: handles that could not be made

vars == <<made, color_started, running, queued, on, delivering, sessions, todo, container_id, lost>>

Parts == {"handle", "tick_handle", "colormcu", "capturesync", "color"}

Opening == <<"handle", "tick_handle", "colormcu", "capturesync", "color">>
Stopping == <<"capturesync_stop", "color_stop">>

SyncDestroyedFirst ==                                            \* mutant
  <<"capturesync_stop", "capturesync_destroy", "color_destroy", "colormcu_destroy",
    "tickcounter_destroy", "destroy">>

Closing ==
  <<"capturesync_stop", "color_destroy", "capturesync_destroy", "colormcu_destroy",
    "tickcounter_destroy", "destroy">>

Starting == <<"set_multi_device_mode", "capturesync_start", "color_start">>

Init ==
  /\ made = [d \in Devices |-> {}]
  /\ color_started = [d \in Devices |-> FALSE]
  /\ running = [d \in Devices |-> FALSE]
  /\ queued = [d \in Devices |-> 0]
  /\ on = [d \in Devices |-> FALSE]
  /\ delivering = [d \in Devices |-> FALSE]
  /\ sessions = 0
  /\ todo = [d \in Devices |-> <<>>]
  /\ container_id \in ContainerIds
  /\ lost = 0

Idle(d) == todo[d] = <<>>
At(d, step) == ~Idle(d) /\ Head(todo[d]) = step
Go(d, steps) == todo' = [todo EXCEPT ![d] = steps]
Done(d) == Go(d, Tail(todo[d]))
Open(d) == "handle" \in made[d]

-----------------------------------------------------------------------------
(* The calls.                                                              *)

zsa_device_open(d) ==
  /\ Idle(d) /\ ~Open(d)
  /\ sessions' = sessions + 1                 \* allocator_initialize
  /\ Go(d, Opening)
  /\ UNCHANGED <<made, color_started, running, queued, on, delivering, container_id, lost>>

NeedsId == {"colormcu", "color"}

(* The next part is made, or it is not and open closes the handle.         *)
OpenStep(d) ==
  /\ ~Idle(d) /\ Head(todo[d]) \in Parts
  /\ LET part == Head(todo[d])
     IN  \/ /\ part \in NeedsId => container_id # NULL
            /\ made' = [made EXCEPT ![d] = @ \cup {part}]
            /\ Done(d)
            /\ UNCHANGED lost
         \/ /\ Open(d) \/ lost < MaxLost
            /\ Go(d, IF Open(d) THEN Closing ELSE <<>>)
            /\ lost' = IF Open(d) THEN lost ELSE lost + 1
            /\ UNCHANGED made
  /\ UNCHANGED <<color_started, running, queued, on, delivering, sessions, container_id>>

zsa_device_close(d) ==
  /\ Idle(d) /\ Open(d)
  /\ Go(d, Closing)
  /\ UNCHANGED <<made, color_started, running, queued, on, delivering, sessions, container_id, lost>>

(* A device that is running is an error, and on an error the cameras are   *)
(* stopped.                                                                *)
zsa_device_start_cameras(d) ==
  /\ Idle(d) /\ Open(d)
  /\ Go(d, IF color_started[d] THEN Stopping ELSE Starting)
  /\ UNCHANGED <<made, color_started, running, queued, on, delivering, sessions, container_id, lost>>

zsa_device_stop_cameras(d) ==
  /\ Idle(d) /\ Open(d)
  /\ Go(d, Stopping)
  /\ UNCHANGED <<made, color_started, running, queued, on, delivering, sessions, container_id, lost>>

-----------------------------------------------------------------------------
(* The steps of start_cameras.                                             *)

StartFails(d) ==
  /\ ~Idle(d) /\ Head(todo[d]) \in {"set_multi_device_mode", "capturesync_start", "color_start"}
  /\ Go(d, Stopping)
  /\ UNCHANGED <<made, color_started, running, queued, on, delivering, sessions, container_id, lost>>

SetMode(d) ==
  /\ At(d, "set_multi_device_mode")
  /\ Done(d)
  /\ UNCHANGED <<made, color_started, running, queued, on, delivering, sessions, container_id, lost>>

SyncStart(d) ==
  /\ At(d, "capturesync_start")
  /\ running' = [running EXCEPT ![d] = TRUE]
  /\ Done(d)
  /\ UNCHANGED <<made, color_started, queued, on, delivering, sessions, container_id, lost>>

(* The configuration may have the color camera off.                        *)
ColorStart(d) ==
  /\ At(d, "color_start")
  /\ on' \in {on, [on EXCEPT ![d] = TRUE]}
  /\ color_started' = [color_started EXCEPT ![d] = TRUE]
  /\ Done(d)
  /\ UNCHANGED <<made, running, queued, delivering, sessions, container_id, lost>>

-----------------------------------------------------------------------------
(* The steps of stop_cameras and close.  Each first tests that its part    *)
(* is there.                                                               *)

Absent(d) ==
  /\ \/ At(d, "capturesync_stop") /\ "capturesync" \notin made[d]
     \/ (At(d, "color_stop") \/ At(d, "color_destroy")) /\ "color" \notin made[d]
     \/ At(d, "capturesync_destroy") /\ "capturesync" \notin made[d]
     \/ At(d, "colormcu_destroy") /\ "colormcu" \notin made[d]
     \/ At(d, "tickcounter_destroy") /\ "tick_handle" \notin made[d]
  /\ Done(d)
  /\ UNCHANGED <<made, color_started, running, queued, on, delivering, sessions, container_id, lost>>

SyncStop(d) ==
  /\ At(d, "capturesync_stop") /\ "capturesync" \in made[d]
  /\ running' = [running EXCEPT ![d] = FALSE]
  /\ queued' = [queued EXCEPT ![d] = 0]
  /\ Done(d)
  /\ UNCHANGED <<made, color_started, on, delivering, sessions, container_id, lost>>

FlagKept(d) == color_started[d]                                  \* mutant

StartedAfterStop(d) == FALSE

(* "This call will block": the reader's Stop waits for the callback.       *)
ColorStop(d) ==
  /\ At(d, "color_stop") /\ "color" \in made[d]
  /\ ~delivering[d]
  /\ on' = [on EXCEPT ![d] = FALSE]
  /\ color_started' = [color_started EXCEPT ![d] = StartedAfterStop(d)]
  /\ Done(d)
  /\ UNCHANGED <<made, running, queued, delivering, sessions, container_id, lost>>

Destroys(d, step, part) ==
  /\ At(d, step) /\ part \in made[d]
  /\ made' = [made EXCEPT ![d] = @ \ {part}]
  /\ Done(d)

ColorDestroy(d) ==
  /\ Destroys(d, "color_destroy", "color")
  /\ ~delivering[d]
  /\ on' = [on EXCEPT ![d] = FALSE]
  /\ UNCHANGED <<color_started, running, queued, delivering, sessions, container_id, lost>>

SyncDestroy(d) ==
  /\ Destroys(d, "capturesync_destroy", "capturesync")
  /\ UNCHANGED <<color_started, running, queued, on, delivering, sessions, container_id, lost>>

McuAndTickDestroy(d) ==
  /\ \/ Destroys(d, "colormcu_destroy", "colormcu")
     \/ Destroys(d, "tickcounter_destroy", "tick_handle")
  /\ UNCHANGED <<color_started, running, queued, on, delivering, sessions, container_id, lost>>

SessionKept == sessions                                          \* mutant

allocator_deinitialize == sessions - 1

HandleDestroy(d) ==
  /\ Destroys(d, "destroy", "handle")
  /\ sessions' = allocator_deinitialize
  /\ color_started' = [color_started EXCEPT ![d] = FALSE]
  /\ UNCHANGED <<running, queued, on, delivering, container_id, lost>>

-----------------------------------------------------------------------------
(* The reader's thread.                                                    *)

Deliver(d) ==
  /\ on[d] /\ ~delivering[d]
  /\ delivering' = [delivering EXCEPT ![d] = TRUE]
  /\ UNCHANGED <<made, color_started, running, queued, on, sessions, todo, container_id, lost>>

(* A capture, or the failure of one; capturesync takes a capture only      *)
(* while it is running.                                                    *)
color_capture_ready(d) ==
  /\ delivering[d]
  /\ delivering' = [delivering EXCEPT ![d] = FALSE]
  /\ \/ /\ running[d] /\ queued[d] < MaxQueued
        /\ queued' = [queued EXCEPT ![d] = @ + 1]
     \/ UNCHANGED queued
  /\ UNCHANGED <<made, color_started, running, on, sessions, todo, container_id, lost>>

(* What the thread that uses the device, and the reader's, may do.         *)
Begins(d) ==
  \/ zsa_device_open(d)
  \/ zsa_device_close(d)
  \/ zsa_device_start_cameras(d)
  \/ zsa_device_stop_cameras(d)

GoesOn(d) ==
  \/ OpenStep(d)
  \/ StartFails(d)
  \/ SetMode(d)
  \/ SyncStart(d)
  \/ ColorStart(d)
  \/ Absent(d)
  \/ SyncStop(d)
  \/ ColorStop(d)
  \/ ColorDestroy(d)
  \/ SyncDestroy(d)
  \/ McuAndTickDestroy(d)
  \/ HandleDestroy(d)

ReaderStep(d) == Deliver(d) \/ color_capture_ready(d)

Next == \E d \in Devices : Begins(d) \/ GoesOn(d) \/ ReaderStep(d)

Spec == Init /\ [][Next]_vars

-----------------------------------------------------------------------------
(* Properties                                                              *)

(* "depth & color call into capturesync, so they need to be destroyed      *)
(* first": while color_capture_ready runs, its device and the capturesync  *)
(* it calls exist, whatever the device's own thread is doing.              *)
CallbackFindsDevice ==
  \A d \in Devices : delivering[d] => {"handle", "capturesync", "color"} \subseteq made[d]

(* Between two calls the flag that start_cameras tests agrees with what    *)
(* runs: capturesync exactly then, the color stream only then; and a       *)
(* stopped device keeps no capture, though one may have been delivered     *)
(* while it was being stopped.                                             *)
FlagTellsRunning ==
  \A d \in Devices : Idle(d) /\ Open(d) =>
    /\ color_started[d] = running[d]
    /\ on[d] => color_started[d]
    /\ ~color_started[d] => queued[d] = 0

(* However far an open came before it failed, and whatever state a device  *)
(* is closed in, none of its parts is left, and the allocator is in use    *)
(* once for every device: it never checks for leaks under an open one.     *)
(* (Only a handle that could not be made leaves its session behind.)       *)
ClosedLeavesNothing ==
  /\ \A d \in Devices : Idle(d) /\ ~Open(d) =>
       made[d] = {} /\ ~on[d] /\ ~delivering[d] /\ ~running[d] /\ queued[d] = 0
  /\ sessions = lost + Cardinality({d \in Devices : Open(d) \/ ~Idle(d)})

=============================================================================
