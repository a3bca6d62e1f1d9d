----------------------------- MODULE SdkProofs -----------------------------
(***************************************************************************)
(* Proofs about the devices and the logger they share (src/src/sdk/zsa.c   *)
(* and src/src/logging/logging.cpp): the reader's callback finds its       *)
(* device, the flag of start_cameras tells what runs, a closed device      *)
(* leaves nothing, and loggers stay while they are used.                   *)
(***************************************************************************)
EXTENDS Sdk, FiniteSetTheorems, TLAPS

-----------------------------------------------------------------------------
(* Where the thread of a device can be: at a suffix of one of the four     *)
(* lists of steps.                                                         *)

Opening1 == <<"tick_handle", "colormcu", "capturesync", "color">>
Opening2 == <<"colormcu", "capturesync", "color">>
Opening3 == <<"capturesync", "color">>
Opening4 == <<"color">>

Starting1 == <<"capturesync_start", "color_start">>
Starting2 == <<"color_start">>

Stopping1 == <<"color_stop">>

Closing1 == <<"color_destroy", "capturesync_destroy", "colormcu_destroy",
              "tickcounter_destroy", "destroy">>
Closing2 == <<"capturesync_destroy", "colormcu_destroy", "tickcounter_destroy", "destroy">>
Closing3 == <<"colormcu_destroy", "tickcounter_destroy", "destroy">>
Closing4 == <<"tickcounter_destroy", "destroy">>
Closing5 == <<"destroy">>

Step(s, head, tail) == s # <<>> /\ Head(s) = head /\ Tail(s) = tail

LEMMA OpeningSteps ==
  /\ Step(Opening, "handle", Opening1)
  /\ Step(Opening1, "tick_handle", Opening2)
  /\ Step(Opening2, "colormcu", Opening3)
  /\ Step(Opening3, "capturesync", Opening4)
  /\ Step(Opening4, "color", <<>>)
BY DEF Step, Opening, Opening1, Opening2, Opening3, Opening4

LEMMA RunningSteps ==
  /\ Step(Starting, "set_multi_device_mode", Starting1)
  /\ Step(Starting1, "capturesync_start", Starting2)
  /\ Step(Starting2, "color_start", <<>>)
  /\ Step(Stopping, "capturesync_stop", Stopping1)
  /\ Step(Stopping1, "color_stop", <<>>)
BY DEF Step, Starting, Starting1, Starting2, Stopping, Stopping1

LEMMA ClosingSteps ==
  /\ Step(Closing, "capturesync_stop", Closing1)
  /\ Step(Closing1, "color_destroy", Closing2)
  /\ Step(Closing2, "capturesync_destroy", Closing3)
  /\ Step(Closing3, "colormcu_destroy", Closing4)
  /\ Step(Closing4, "tickcounter_destroy", Closing5)
  /\ Step(Closing5, "destroy", <<>>)
BY DEF Step, Closing, Closing1, Closing2, Closing3, Closing4, Closing5

(* What is made and what runs at each place.                               *)
Stopped(d) == ~running[d] /\ queued[d] = 0
Still(d) == Stopped(d) /\ ~on[d] /\ ~delivering[d] /\ ~color_started[d]
Has(d, parts) == made[d] = parts
Left(d, parts) == "handle" \in made[d] /\ made[d] \subseteq parts

AtRest(d) ==
  /\ todo[d] = <<>>
  /\ \/ Has(d, {}) /\ Still(d)
     \/ /\ Has(d, Parts)
        /\ color_started[d] = running[d]
        /\ on[d] => color_started[d]
        /\ ~color_started[d] => queued[d] = 0

IsOpening(d) ==
  /\ Still(d)
  /\ \/ todo[d] = Opening /\ Has(d, {})
     \/ todo[d] = Opening1 /\ Has(d, {"handle"})
     \/ todo[d] = Opening2 /\ Has(d, {"handle", "tick_handle"})
     \/ todo[d] = Opening3 /\ Has(d, {"handle", "tick_handle", "colormcu"})
     \/ todo[d] = Opening4 /\ Has(d, {"handle", "tick_handle", "colormcu", "capturesync"})

IsRunning(d) ==
  /\ Has(d, Parts)
  /\ \/ todo[d] = Starting /\ Still(d)
     \/ todo[d] = Starting1 /\ Still(d)
     \/ /\ todo[d] = Starting2
        /\ running[d] /\ ~on[d] /\ ~delivering[d] /\ ~color_started[d]
     \/ todo[d] = Stopping
     \/ todo[d] = Stopping1 /\ Stopped(d)

IsClosing(d) ==
  \/ todo[d] = Closing /\ Left(d, Parts) /\ ("capturesync" \in made[d] \/ Stopped(d))
  \/ todo[d] = Closing1 /\ Left(d, Parts) /\ Stopped(d)
  \/ /\ Stopped(d) /\ ~on[d] /\ ~delivering[d]
     /\ \/ todo[d] = Closing2 /\ Left(d, Parts \ {"color"})
        \/ todo[d] = Closing3 /\ Left(d, {"handle", "tick_handle", "colormcu"})
        \/ todo[d] = Closing4 /\ Left(d, {"handle", "tick_handle"})
        \/ todo[d] = Closing5 /\ Has(d, {"handle"})

Place(d) == AtRest(d) \/ IsOpening(d) \/ IsRunning(d) \/ IsClosing(d)

(* The reader's callback runs only while the stream is on, the stream only *)
(* while the parts it calls exist.                                         *)
Streams(d) ==
  /\ delivering[d] => on[d]
  /\ on[d] => {"handle", "capturesync", "color"} \subseteq made[d]

(* The devices the allocator is in use for.                                *)
InUse == {d \in Devices : Open(d) \/ ~Idle(d)}

DeviceTypes ==
  /\ made \in [Devices -> SUBSET Parts]
  /\ color_started \in [Devices -> BOOLEAN]
  /\ running \in [Devices -> BOOLEAN]
  /\ queued \in [Devices -> Nat]
  /\ on \in [Devices -> BOOLEAN]
  /\ delivering \in [Devices -> BOOLEAN]
  /\ DOMAIN todo = Devices /\ todo = [d \in Devices |-> todo[d]]
  /\ lost \in Nat

Places == \A d \in Devices : Place(d) /\ Streams(d)

DeviceInv ==
  /\ DeviceTypes
  /\ Places
  /\ sessions = lost + Cardinality(InUse)

-----------------------------------------------------------------------------
(* A step of a device's threads concerns that device alone.                *)

Elsewhere(d) ==
  \A e \in Devices \ {d} :
    /\ made'[e] = made[e] /\ color_started'[e] = color_started[e]
    /\ running'[e] = running[e] /\ queued'[e] = queued[e]
    /\ on'[e] = on[e] /\ delivering'[e] = delivering[e] /\ todo'[e] = todo[e]

Kept(d) == DeviceTypes' /\ Elsewhere(d) /\ Place(d)' /\ Streams(d)'

Before(d) == d \in Devices /\ DeviceTypes /\ Place(d) /\ Streams(d)

LEMMA OthersKeepTheirPlace ==
  ASSUME Places, NEW d \in Devices, Kept(d)
  PROVE  Places'
<1> SUFFICES ASSUME NEW e \in Devices, e # d PROVE Place(e)' /\ Streams(e)'
  BY DEF Places, Kept
<1>1. Place(e)'
  BY DEF Places, Kept, Elsewhere, Place, AtRest, IsOpening, IsRunning, IsClosing,
         Still, Stopped, Has, Left
<1>2. Streams(e)'
  BY DEF Places, Kept, Elsewhere, Streams
<1> QED
  BY <1>1, <1>2

(* open, close, start_cameras and stop_cameras begin between two calls.    *)
LEMMA BeginsKeeps ==
  ASSUME NEW d, Before(d), Begins(d)
  PROVE  Kept(d)
<1> USE DEF Before, Kept
<1>1. todo[d] = <<>> /\ AtRest(d)
  BY OpeningSteps, RunningSteps, ClosingSteps, SMTT(30)
     DEF Begins, zsa_device_open, zsa_device_close, zsa_device_start_cameras,
         zsa_device_stop_cameras, Idle, Place, IsOpening, IsRunning, IsClosing, Step
<1>2. /\ UNCHANGED <<made, color_started, running, queued, on, delivering, lost>>
      /\ \E s \in {Opening, Closing, Starting, Stopping} : todo' = [todo EXCEPT ![d] = s]
  BY DEF Begins, zsa_device_open, zsa_device_close, zsa_device_start_cameras,
         zsa_device_stop_cameras, Go
<1>3. DeviceTypes' /\ Elsewhere(d)
  BY <1>2 DEF DeviceTypes, Elsewhere
<1>4. Streams(d)'
  BY <1>2 DEF Streams
<1>5. Place(d)'
  <2>1. CASE zsa_device_open(d)
    <3>1. todo'[d] = Opening /\ Has(d, {}) /\ Still(d)
      BY <1>1, <2>1 DEF zsa_device_open, Go, DeviceTypes, AtRest, Open, Has, Parts
    <3>2. IsOpening(d)'
      BY <1>2, <3>1 DEF IsOpening, Has, Still, Stopped
    <3> QED
      BY <3>2 DEF Place
  <2>2. ASSUME Open(d) PROVE Has(d, Parts) /\ color_started[d] = running[d]
                             /\ (on[d] => color_started[d]) /\ (~color_started[d] => queued[d] = 0)
    BY <1>1, <2>2 DEF AtRest, Open, Has
  <2>3. CASE zsa_device_close(d)
    <3>1. todo'[d] = Closing
      BY <2>3 DEF zsa_device_close, Go, DeviceTypes
    <3>2. IsClosing(d)'
      BY <1>2, <2>2, <2>3, <3>1 DEF IsClosing, Left, Has, Parts, Open, zsa_device_close
    <3> QED
      BY <3>2 DEF Place
  <2>4. CASE zsa_device_start_cameras(d)
    <3>1. todo'[d] = IF color_started[d] THEN Stopping ELSE Starting
      BY <2>4 DEF zsa_device_start_cameras, Go, DeviceTypes
    <3>2. ~color_started[d] => Still(d)
      BY <2>2, <2>4 DEF zsa_device_start_cameras, Still, Stopped, Streams
    <3>3. IsRunning(d)'
      BY <1>2, <2>2, <2>4, <3>1, <3>2
         DEF IsRunning, Has, Still, Stopped, zsa_device_start_cameras
    <3> QED
      BY <3>3 DEF Place
  <2>5. CASE zsa_device_stop_cameras(d)
    <3>1. todo'[d] = Stopping
      BY <2>5 DEF zsa_device_stop_cameras, Go, DeviceTypes
    <3>2. IsRunning(d)'
      BY <1>2, <2>2, <2>5, <3>1 DEF IsRunning, Has, zsa_device_stop_cameras
    <3> QED
      BY <3>2 DEF Place
  <2> QED
    BY <2>1, <2>3, <2>4, <2>5 DEF Begins
<1> QED
  BY <1>3, <1>4, <1>5

(* The next part is made, or open closes what it has made.                 *)
LEMMA OpenStepKeeps ==
  ASSUME NEW d, Before(d), OpenStep(d)
  PROVE  Kept(d)
<1> USE DEF Before, Kept
<1>1. IsOpening(d)
  BY RunningSteps, ClosingSteps
     DEF OpenStep, Parts, Idle, Place, AtRest, IsRunning, IsClosing, Step
<1>2. /\ UNCHANGED <<color_started, running, queued, on, delivering>>
      /\ lost' \in {lost, lost + 1}
      /\ \/ made' = [made EXCEPT ![d] = @ \cup {Head(todo[d])}] /\ Done(d)
         \/ Go(d, IF Open(d) THEN Closing ELSE <<>>) /\ UNCHANGED made
  BY DEF OpenStep
<1>3. Head(todo[d]) \in Parts
  BY DEF OpenStep
<1>4. DeviceTypes'
  <2>1. made' \in [Devices -> SUBSET Parts]
    BY <1>2, <1>3 DEF DeviceTypes
  <2>2. PICK s : todo' = [todo EXCEPT ![d] = s]
    BY <1>2 DEF Done, Go
  <2>3. DOMAIN todo' = Devices /\ todo' = [e \in Devices |-> todo'[e]]
    BY <2>2 DEF DeviceTypes
  <2> QED
    BY <1>2, <2>1, <2>3 DEF DeviceTypes
<1>5. Elsewhere(d)
  BY <1>2 DEF DeviceTypes, Elsewhere, Done, Go
<1>6. Streams(d)'
  BY <1>1, <1>2 DEF Streams, IsOpening, Still
<1>7. Still(d)'
  BY <1>1, <1>2 DEF IsOpening, Still, Stopped
<1>8. CASE made' = [made EXCEPT ![d] = @ \cup {Head(todo[d])}] /\ Done(d)
  <2>1. made'[d] = made[d] \cup {Head(todo[d])} /\ todo'[d] = Tail(todo[d])
    BY <1>8 DEF Done, Go, DeviceTypes
  <2>2. CASE todo[d] = Opening4
    <3>1. todo'[d] = <<>> /\ made'[d] = Parts
      BY <1>1, <2>1, <2>2, OpeningSteps DEF IsOpening, Step, Has, Parts
    <3>2. color_started'[d] = running'[d]
      <4>1. color_started'[d] \in BOOLEAN /\ running'[d] \in BOOLEAN
        BY <1>4 DEF DeviceTypes
      <4> QED
        BY <1>7, <4>1 DEF Still, Stopped
    <3>3. AtRest(d)'
      BY <1>7, <3>1, <3>2 DEF AtRest, Has, Still, Stopped
    <3> QED
      BY <1>4, <1>5, <1>6, <3>3 DEF Place
  <2>3. CASE todo[d] # Opening4
    <3>1. IsOpening(d)'
      BY <1>1, <1>7, <2>1, <2>3, OpeningSteps, ZenonT(40) DEF IsOpening, Step, Has
    <3> QED
      BY <1>4, <1>5, <1>6, <3>1 DEF Place
  <2> QED
    BY <2>2, <2>3
<1>9. CASE Go(d, IF Open(d) THEN Closing ELSE <<>>) /\ UNCHANGED made
  <2>1. todo'[d] = IF Open(d) THEN Closing ELSE <<>>
    BY <1>9 DEF Go, DeviceTypes
  <2>2. CASE Open(d)
    <3>1. IsClosing(d)'
      BY <1>7, <1>9, <2>1, <2>2 DEF IsClosing, Left, Open, Still, DeviceTypes
    <3> QED
      BY <1>4, <1>5, <1>6, <3>1 DEF Place
  <2>3. CASE ~Open(d)
    <3>1. made[d] = {}
      BY <1>1, <2>3 DEF IsOpening, Open, Has
    <3>2. AtRest(d)'
      BY <1>7, <1>9, <2>1, <2>3, <3>1 DEF AtRest, Has
    <3> QED
      BY <1>4, <1>5, <1>6, <3>2 DEF Place
  <2> QED
    BY <2>2, <2>3
<1> QED
  BY <1>2, <1>8, <1>9

(* The steps of start_cameras, the failing ones included.                  *)
LEMMA StartKeeps ==
  ASSUME NEW d, Before(d), StartFails(d) \/ SetMode(d) \/ SyncStart(d) \/ ColorStart(d)
  PROVE  Kept(d)
<1> USE DEF Before, Kept
<1>1. /\ todo[d] # <<>>
      /\ Head(todo[d]) \in {"set_multi_device_mode", "capturesync_start", "color_start"}
  BY DEF StartFails, SetMode, SyncStart, ColorStart, At, Idle
<1>2. IsRunning(d)
  BY <1>1, OpeningSteps, ClosingSteps DEF Place, AtRest, IsOpening, IsClosing, Step
<1>3. CASE StartFails(d)
  <2>1. DeviceTypes' /\ Elsewhere(d) /\ Streams(d)' /\ todo'[d] = Stopping
    BY <1>3 DEF StartFails, Go, DeviceTypes, Elsewhere, Streams
  <2>2. IsRunning(d)'
    BY <1>2, <1>3, <2>1 DEF StartFails, IsRunning, Has
  <2> QED
    BY <2>1, <2>2 DEF Place
<1>4. CASE SetMode(d)
  <2>1. todo[d] = Starting
    BY <1>2, <1>4, RunningSteps DEF SetMode, At, IsRunning, Step
  <2>2. DeviceTypes' /\ Elsewhere(d) /\ Streams(d)' /\ todo'[d] = Starting1
    BY <1>4, <2>1, RunningSteps DEF SetMode, Done, Go, DeviceTypes, Elsewhere, Streams, Step
  <2>3. Still(d)
    BY <1>2, <2>1, RunningSteps DEF IsRunning, Step
  <2>4. IsRunning(d)'
    BY <1>2, <1>4, <2>2, <2>3 DEF SetMode, IsRunning, Has, Still, Stopped
  <2> QED
    BY <2>2, <2>4 DEF Place
<1>5. CASE SyncStart(d)
  <2>1. todo[d] = Starting1
    BY <1>2, <1>5, RunningSteps DEF SyncStart, At, IsRunning, Step
  <2>2. DeviceTypes' /\ Elsewhere(d) /\ Streams(d)' /\ todo'[d] = Starting2 /\ running'[d]
    BY <1>5, <2>1, RunningSteps DEF SyncStart, Done, Go, DeviceTypes, Elsewhere, Streams, Step
  <2>3. Still(d)
    BY <1>2, <2>1, RunningSteps DEF IsRunning, Step
  <2>4. IsRunning(d)'
    BY <1>2, <1>5, <2>2, <2>3 DEF SyncStart, IsRunning, Has, Still
  <2> QED
    BY <2>2, <2>4 DEF Place
<1>6. CASE ColorStart(d)
  <2>1. todo[d] = Starting2
    BY <1>2, <1>6, RunningSteps DEF ColorStart, At, IsRunning, Step
  <2>2. running[d] /\ ~delivering[d] /\ made[d] = Parts
    BY <1>2, <2>1, RunningSteps DEF IsRunning, Step, Has
  <2>3. DeviceTypes' /\ Elsewhere(d) /\ todo'[d] = <<>> /\ color_started'[d]
    BY <1>6, <2>1, RunningSteps DEF ColorStart, Done, Go, DeviceTypes, Elsewhere, Step
  <2>4. Streams(d)'
    BY <1>6, <2>2 DEF ColorStart, Streams, Parts
  <2>5. AtRest(d)'
    BY <1>6, <2>2, <2>3 DEF ColorStart, AtRest, Has, DeviceTypes
  <2> QED
    BY <2>3, <2>4, <2>5 DEF Place
<1> QED
  BY <1>3, <1>4, <1>5, <1>6

(* A step of stop_cameras or close whose part is not there.                *)
LEMMA AbsentKeeps ==
  ASSUME NEW d, Before(d), Absent(d)
  PROVE  Kept(d)
<1> USE DEF Before, Kept
<1>1. /\ todo[d] # <<>>
      /\ todo' = [todo EXCEPT ![d] = Tail(todo[d])]
      /\ UNCHANGED <<made, color_started, running, queued, on, delivering, lost>>
  BY DEF Absent, At, Idle, Done, Go
<1>2. DeviceTypes' /\ Elsewhere(d) /\ Streams(d)' /\ todo'[d] = Tail(todo[d])
  BY <1>1 DEF DeviceTypes, Elsewhere, Streams
<1>3. IsClosing(d)
  BY OpeningSteps, RunningSteps
     DEF Absent, At, Idle, Place, AtRest, IsOpening, IsRunning, Step, Has, Parts
<1>4. CASE todo[d] = Closing
  BY <1>1, <1>2, <1>3, <1>4, ClosingSteps
     DEF Absent, At, IsClosing, Place, Step, Left, Stopped
<1>5. CASE todo[d] = Closing1
  <2>1. "color" \notin made[d] /\ ~on[d] /\ ~delivering[d]
    BY <1>5, ClosingSteps DEF Absent, At, Step, Streams
  <2>2. IsClosing(d)'
    BY <1>1, <1>2, <1>3, <1>5, <2>1, ClosingSteps DEF IsClosing, Step, Left, Stopped
  <2> QED
    BY <1>2, <2>2 DEF Place
<1>6. CASE todo[d] \in {Closing2, Closing3, Closing4}
  <2>1. Stopped(d) /\ ~on[d] /\ ~delivering[d] /\ "handle" \in made[d]
    BY <1>3, <1>6, ClosingSteps DEF IsClosing, Step, Left
  <2>2. CASE todo[d] = Closing2
    <3>1. "capturesync" \notin made[d] /\ made[d] \subseteq Parts \ {"color"}
      BY <1>3, <2>2, ClosingSteps DEF Absent, At, IsClosing, Step, Left
    <3>2. todo'[d] = Closing3 /\ Left(d, {"handle", "tick_handle", "colormcu"})'
      BY <1>1, <1>2, <2>1, <2>2, <3>1, ClosingSteps DEF Step, Left, Parts
    <3> QED
      BY <1>1, <1>2, <2>1, <3>2 DEF Place, IsClosing, Stopped
  <2>3. CASE todo[d] = Closing3
    <3>1. "colormcu" \notin made[d] /\ made[d] \subseteq {"handle", "tick_handle", "colormcu"}
      BY <1>3, <2>3, ClosingSteps DEF Absent, At, IsClosing, Step, Left
    <3>2. todo'[d] = Closing4 /\ Left(d, {"handle", "tick_handle"})'
      BY <1>1, <1>2, <2>1, <2>3, <3>1, ClosingSteps DEF Step, Left
    <3> QED
      BY <1>1, <1>2, <2>1, <3>2 DEF Place, IsClosing, Stopped
  <2>4. CASE todo[d] = Closing4
    <3>1. "tick_handle" \notin made[d] /\ made[d] \subseteq {"handle", "tick_handle"}
      BY <1>3, <2>4, ClosingSteps DEF Absent, At, IsClosing, Step, Left
    <3>2. todo'[d] = Closing5 /\ Has(d, {"handle"})'
      BY <1>1, <1>2, <2>1, <2>4, <3>1, ClosingSteps DEF Step, Has
    <3> QED
      BY <1>1, <1>2, <2>1, <3>2 DEF Place, IsClosing, Stopped
  <2> QED
    BY <1>6, <2>2, <2>3, <2>4
<1>7. todo[d] # Closing5
  BY ClosingSteps DEF Absent, At, Step
<1> QED
  BY <1>3, <1>4, <1>5, <1>6, <1>7 DEF IsClosing

(* The steps of stop_cameras.                                              *)
LEMMA StopKeeps ==
  ASSUME NEW d, Before(d), SyncStop(d) \/ ColorStop(d)
  PROVE  Kept(d)
<1> USE DEF Before, Kept
<1>1. CASE SyncStop(d)
  <2>1. (todo[d] = Stopping /\ IsRunning(d)) \/ (todo[d] = Closing /\ IsClosing(d))
    BY <1>1, OpeningSteps, RunningSteps, ClosingSteps
       DEF SyncStop, At, Idle, Place, AtRest, IsOpening, IsRunning, IsClosing, Step
  <2>2. DeviceTypes' /\ Elsewhere(d) /\ Streams(d)' /\ Stopped(d)' /\ todo'[d] = Tail(todo[d])
    BY <1>1 DEF SyncStop, Done, Go, DeviceTypes, Elsewhere, Streams, Stopped
  <2>3. CASE todo[d] = Stopping /\ IsRunning(d)
    BY <1>1, <2>2, <2>3, RunningSteps DEF SyncStop, Place, IsRunning, Has, Step
  <2>4. CASE todo[d] = Closing /\ IsClosing(d)
    <3>1. Left(d, Parts)
      BY <2>4, ClosingSteps DEF IsClosing, Left, Step, Has, Parts
    <3> QED
      BY <1>1, <2>2, <2>4, <3>1, ClosingSteps DEF SyncStop, Place, IsClosing, Left, Step
  <2> QED
    BY <2>1, <2>3, <2>4
<1>2. CASE ColorStop(d)
  <2>1. todo[d] = Stopping1 /\ IsRunning(d)
    BY <1>2, OpeningSteps, RunningSteps, ClosingSteps
       DEF ColorStop, At, Idle, Place, AtRest, IsOpening, IsRunning, IsClosing, Step
  <2>2. /\ DeviceTypes' /\ Elsewhere(d)
        /\ todo'[d] = <<>> /\ on'[d] = FALSE /\ color_started'[d] = FALSE
    BY <1>2, <2>1, RunningSteps
       DEF ColorStop, StartedAfterStop, Done, Go, DeviceTypes, Elsewhere, Step
  <2>3. Streams(d)'
    BY <1>2, <2>2 DEF ColorStop, Streams
  <2>4. Has(d, Parts) /\ Stopped(d)
    BY <2>1, RunningSteps DEF IsRunning, Step
  <2>5. running'[d] = FALSE /\ queued'[d] = 0 /\ Has(d, Parts)'
    BY <1>2, <2>4 DEF ColorStop, Stopped, Has, DeviceTypes
  <2>6. AtRest(d)'
    BY <2>2, <2>5 DEF AtRest
  <2> QED
    BY <2>2, <2>3, <2>6 DEF Place
<1> QED
  BY <1>1, <1>2

(* The steps of close that destroy a part.                                 *)
LEMMA DestroyKeeps ==
  ASSUME NEW d, Before(d),
         ColorDestroy(d) \/ SyncDestroy(d) \/ McuAndTickDestroy(d) \/ HandleDestroy(d)
  PROVE  Kept(d)
<1> USE DEF Before, Kept
<1>1. IsClosing(d)
  BY OpeningSteps, RunningSteps
     DEF ColorDestroy, SyncDestroy, McuAndTickDestroy, HandleDestroy, Destroys, At, Idle,
         Place, AtRest, IsOpening, IsRunning, Step
<1>2. ASSUME NEW step, NEW part, Destroys(d, step, part)
      PROVE  /\ todo[d] # <<>> /\ Head(todo[d]) = step
             /\ made'[d] = made[d] \ {part} /\ todo'[d] = Tail(todo[d])
             /\ made' \in [Devices -> SUBSET Parts]
             /\ DOMAIN todo' = Devices /\ todo' = [e \in Devices |-> todo'[e]]
             /\ \A e \in Devices \ {d} : made'[e] = made[e] /\ todo'[e] = todo[e]
  BY <1>2 DEF Destroys, At, Idle, Done, Go, DeviceTypes
<1>3. CASE ColorDestroy(d)
  <2>1. Destroys(d, "color_destroy", "color")
    BY <1>3 DEF ColorDestroy
  <2>2. todo[d] = Closing1 /\ Left(d, Parts) /\ Stopped(d)
    BY <1>1, <1>2, <2>1, ClosingSteps DEF IsClosing, Step
  <2>3. todo'[d] = Closing2 /\ made'[d] = made[d] \ {"color"}
    BY <1>2, <2>1, <2>2, ClosingSteps DEF Step
  <2>4. Left(d, Parts \ {"color"})'
    BY <2>2, <2>3 DEF Left
  <2>5. on'[d] = FALSE /\ ~delivering'[d] /\ Stopped(d)'
    BY <1>3, <2>2 DEF ColorDestroy, Stopped, DeviceTypes
  <2>6. DeviceTypes' /\ Elsewhere(d)
    BY <1>2, <1>3, <2>1 DEF ColorDestroy, DeviceTypes, Elsewhere
  <2> QED
    BY <2>3, <2>4, <2>5, <2>6 DEF Place, IsClosing, Streams
<1>4. CASE SyncDestroy(d)
  <2>1. Destroys(d, "capturesync_destroy", "capturesync")
    BY <1>4 DEF SyncDestroy
  <2>2. /\ todo[d] = Closing2 /\ Left(d, Parts \ {"color"})
        /\ Stopped(d) /\ ~on[d] /\ ~delivering[d]
    BY <1>1, <1>2, <2>1, ClosingSteps DEF IsClosing, Step
  <2>3. todo'[d] = Closing3 /\ made'[d] = made[d] \ {"capturesync"}
    BY <1>2, <2>1, <2>2, ClosingSteps DEF Step
  <2>4. Left(d, {"handle", "tick_handle", "colormcu"})'
    BY <2>2, <2>3 DEF Left, Parts
  <2>5. Stopped(d)' /\ ~on'[d] /\ ~delivering'[d]
    BY <1>4, <2>2 DEF SyncDestroy, Stopped
  <2>6. DeviceTypes' /\ Elsewhere(d)
    BY <1>2, <1>4, <2>1 DEF SyncDestroy, DeviceTypes, Elsewhere
  <2> QED
    BY <2>3, <2>4, <2>5, <2>6 DEF Place, IsClosing, Streams
<1>5. CASE McuAndTickDestroy(d)
  <2>1. DeviceTypes' /\ Elsewhere(d)
    BY <1>2, <1>5 DEF McuAndTickDestroy, DeviceTypes, Elsewhere
  <2>2. UNCHANGED <<running, queued, on, delivering>>
    BY <1>5 DEF McuAndTickDestroy
  <2>3. CASE Destroys(d, "colormcu_destroy", "colormcu")
    <3>1. /\ todo[d] = Closing3 /\ Left(d, {"handle", "tick_handle", "colormcu"})
          /\ Stopped(d) /\ ~on[d] /\ ~delivering[d]
      BY <1>1, <1>2, <2>3, ClosingSteps DEF IsClosing, Step
    <3>2. todo'[d] = Closing4 /\ Left(d, {"handle", "tick_handle"})'
      BY <1>2, <2>3, <3>1, ClosingSteps, ZenonT(40) DEF Step, Left
    <3> QED
      BY <2>1, <2>2, <3>1, <3>2 DEF Place, IsClosing, Streams, Stopped
  <2>4. CASE Destroys(d, "tickcounter_destroy", "tick_handle")
    <3>1. /\ todo[d] = Closing4 /\ Left(d, {"handle", "tick_handle"})
          /\ Stopped(d) /\ ~on[d] /\ ~delivering[d]
      BY <1>1, <1>2, <2>4, ClosingSteps DEF IsClosing, Step
    <3>2. todo'[d] = Closing5 /\ Has(d, {"handle"})'
      BY <1>2, <2>4, <3>1, ClosingSteps, ZenonT(40) DEF Step, Left, Has
    <3> QED
      BY <2>1, <2>2, <3>1, <3>2 DEF Place, IsClosing, Streams, Stopped
  <2> QED
    BY <1>5, <2>3, <2>4 DEF McuAndTickDestroy
<1>6. CASE HandleDestroy(d)
  <2>1. Destroys(d, "destroy", "handle")
    BY <1>6 DEF HandleDestroy
  <2>2. /\ todo[d] = Closing5 /\ Has(d, {"handle"})
        /\ Stopped(d) /\ ~on[d] /\ ~delivering[d]
    BY <1>1, <1>2, <2>1, ClosingSteps DEF IsClosing, Step
  <2>3. todo'[d] = <<>> /\ made'[d] = {}
    BY <1>2, <2>1, <2>2, ClosingSteps DEF Step, Has
  <2>4. Still(d)'
    BY <1>6, <2>2 DEF HandleDestroy, Still, Stopped, DeviceTypes
  <2>5. DeviceTypes' /\ Elsewhere(d)
    BY <1>2, <1>6, <2>1 DEF HandleDestroy, DeviceTypes, Elsewhere
  <2> QED
    BY <2>3, <2>4, <2>5 DEF Place, AtRest, Has, Streams, Still
<1> QED
  BY <1>3, <1>4, <1>5, <1>6

(* The reader's thread, at any moment of the above.                        *)
LEMMA ReaderKeeps ==
  ASSUME NEW d, Before(d), ReaderStep(d)
  PROVE  Kept(d)
<1> USE DEF Before, Kept
<1>1. CASE Deliver(d)
  <2>1. on[d] /\ ~delivering[d]
        /\ UNCHANGED <<made, color_started, running, queued, on, todo>>
    BY <1>1 DEF Deliver
  <2>2. DeviceTypes' /\ Elsewhere(d) /\ Streams(d)'
    BY <1>1 DEF Deliver, DeviceTypes, Elsewhere, Streams
  <2>3. Place(d)'
    BY <2>1 DEF Place, AtRest, IsOpening, IsRunning, IsClosing, Still, Stopped, Has, Left
  <2> QED
    BY <2>2, <2>3
<1>2. CASE color_capture_ready(d)
  <2>1. /\ delivering[d] /\ ~delivering'[d]
        /\ queued'[d] = queued[d] \/ running[d]
        /\ UNCHANGED <<made, color_started, running, on, todo>>
    BY <1>2 DEF color_capture_ready, DeviceTypes
  <2>2. DeviceTypes' /\ Elsewhere(d) /\ Streams(d)'
    BY <1>2 DEF color_capture_ready, DeviceTypes, Elsewhere, Streams
  <2>3. on[d]
    BY <2>1 DEF Streams
  <2>4. Place(d)'
    BY <2>1, <2>3 DEF Place, AtRest, IsOpening, IsRunning, IsClosing, Still, Stopped, Has, Left
  <2> QED
    BY <2>2, <2>4
<1> QED
  BY <1>1, <1>2 DEF ReaderStep

LEMMA StepKeepsPlaces ==
  ASSUME NEW d \in Devices, DeviceTypes, Places, Begins(d) \/ GoesOn(d) \/ ReaderStep(d)
  PROVE  DeviceTypes' /\ Places'
<1>1. Before(d)
  BY DEF Before, Places
<1>2. Kept(d)
  BY <1>1, BeginsKeeps, OpenStepKeeps, StartKeeps, AbsentKeeps, StopKeeps, DestroyKeeps,
     ReaderKeeps DEF GoesOn
<1> QED
  BY <1>2, OthersKeepTheirPlace DEF Kept

-----------------------------------------------------------------------------
(* The sessions of the allocator.                                          *)

LEMMA InUseFinite == IsFiniteSet(InUse) /\ Cardinality(InUse) \in Nat
<1>1. InUse \subseteq Devices
  BY DEF InUse
<1>2. IsFiniteSet(InUse)
  BY <1>1, DeviceAssumption, FS_Subset
<1> QED
  BY <1>2, FS_CardinalityType

LEMMA StepKeepsSessions ==
  ASSUME NEW d \in Devices, DeviceInv, Begins(d) \/ GoesOn(d) \/ ReaderStep(d)
  PROVE  sessions' = lost' + Cardinality(InUse')
<1> DEFINE Uses(e) == Open(e) \/ ~Idle(e)
<1>1. Place(d) /\ DeviceTypes /\ DeviceTypes' /\ Before(d) /\ Kept(d)
  <2>1. Before(d)
    BY DEF DeviceInv, Before, Places
  <2> QED
    BY <2>1, BeginsKeeps, OpenStepKeeps, StartKeeps, AbsentKeeps, StopKeeps, DestroyKeeps,
       ReaderKeeps DEF GoesOn, Kept, Before
<1>2. \A e \in Devices \ {d} : Uses(e)' = Uses(e)
  BY <1>1 DEF Kept, Elsewhere, Open, Idle
<1>3. CASE zsa_device_open(d)
  <2>1. ~Uses(d) /\ Uses(d)' /\ sessions' = sessions + 1 /\ lost' = lost
    BY <1>1, <1>3, OpeningSteps DEF zsa_device_open, Go, Idle, Open, DeviceTypes, Step
  <2>2. InUse' = InUse \cup {d} /\ d \notin InUse
    BY <1>2, <2>1 DEF InUse
  <2>3. Cardinality(InUse') = Cardinality(InUse) + 1
    BY <2>2, InUseFinite, FS_AddElement
  <2> QED
    BY <2>1, <2>3, InUseFinite DEF DeviceInv, DeviceTypes
<1>4. ASSUME Uses(d), ~Uses(d)' PROVE Cardinality(InUse') = Cardinality(InUse) - 1
  <2>1. InUse' = InUse \ {d} /\ d \in InUse
    BY <1>2, <1>4 DEF InUse
  <2> QED
    BY <2>1, InUseFinite, FS_RemoveElement
<1>5. ASSUME Uses(d)' = Uses(d) PROVE InUse' = InUse
  BY <1>2, <1>5 DEF InUse
<1>6. CASE HandleDestroy(d)
  <2>1. Uses(d) /\ sessions' = sessions - 1 /\ lost' = lost
    BY <1>6 DEF HandleDestroy, Destroys, At, allocator_deinitialize
  <2>2. todo[d] = Closing5
    BY <1>1, <1>6, OpeningSteps, RunningSteps, ClosingSteps
       DEF HandleDestroy, Destroys, At, Idle, Place, AtRest, IsOpening, IsRunning, IsClosing, Step
  <2>3. todo'[d] = <<>> /\ "handle" \notin made'[d]
    BY <1>1, <1>6, <2>2, ClosingSteps DEF HandleDestroy, Destroys, Done, Go, DeviceTypes, Step
  <2>4. ~Uses(d)'
    BY <2>3 DEF Open, Idle
  <2> QED
    BY <1>4, <2>1, <2>4, InUseFinite DEF DeviceInv, DeviceTypes
<1>7. CASE OpenStep(d)
  <2>1. Uses(d) /\ sessions' = sessions
    BY <1>7 DEF OpenStep
  <2>2. CASE lost' = lost
    <3>1. Uses(d)'
      <4>1. CASE made' = [made EXCEPT ![d] = @ \cup {Head(todo[d])}] /\ Done(d)
        <5>1. IsOpening(d)
          BY <1>1, <1>7, RunningSteps, ClosingSteps
             DEF OpenStep, Parts, Idle, Place, AtRest, IsRunning, IsClosing, Step
        <5>2. made'[d] = made[d] \cup {Head(todo[d])}
          BY <1>1, <4>1 DEF DeviceTypes
        <5>3. "handle" \in made'[d]
          BY <5>1, <5>2, OpeningSteps DEF IsOpening, Has, Step
        <5> QED
          BY <5>3 DEF Open
      <4>2. CASE Open(d) /\ UNCHANGED made
        BY <4>2 DEF Open
      <4> QED
        BY <1>1, <1>7, <2>2, <4>1, <4>2 DEF OpenStep, DeviceTypes
    <3> QED
      BY <1>5, <2>1, <2>2, <3>1 DEF DeviceInv
  <2>3. CASE lost' # lost
    <3>1. lost' = lost + 1 /\ ~Open(d) /\ made' = made /\ todo'[d] = <<>>
      BY <1>1, <1>7, <2>3 DEF OpenStep, Go, DeviceTypes
    <3>2. ~Uses(d)'
      BY <3>1 DEF Open, Idle
    <3> QED
      BY <1>4, <2>1, <3>1, <3>2, InUseFinite DEF DeviceInv, DeviceTypes
  <2> QED
    BY <2>2, <2>3
<1>8. CASE ~zsa_device_open(d) /\ ~HandleDestroy(d) /\ ~OpenStep(d)
  <2>1. sessions' = sessions /\ lost' = lost
    BY <1>8 DEF Begins, GoesOn, ReaderStep, zsa_device_close, zsa_device_start_cameras,
         zsa_device_stop_cameras, StartFails, SetMode, SyncStart, ColorStart, Absent, SyncStop,
         ColorStop, ColorDestroy, SyncDestroy, McuAndTickDestroy, Deliver, color_capture_ready
  <2>2. CASE ReaderStep(d)
    <3>1. UNCHANGED <<made, todo>>
      BY <2>2 DEF ReaderStep, Deliver, color_capture_ready
    <3>2. InUse' = InUse
      BY <3>1 DEF InUse, Open, Idle
    <3> QED
      BY <2>1, <3>2 DEF DeviceInv
  <2>3. CASE ColorDestroy(d) \/ SyncDestroy(d) \/ McuAndTickDestroy(d)
    <3>1. IsClosing(d)
      BY <1>1, <2>3, OpeningSteps, RunningSteps
         DEF ColorDestroy, SyncDestroy, McuAndTickDestroy, Destroys, At, Idle,
             Place, AtRest, IsOpening, IsRunning, Step
    <3>2. PICK part \in Parts \ {"handle"} : made' = [made EXCEPT ![d] = @ \ {part}]
      BY <2>3 DEF ColorDestroy, SyncDestroy, McuAndTickDestroy, Destroys, Parts
    <3>3. Open(d) /\ Open(d)'
      BY <1>1, <3>1, <3>2 DEF IsClosing, Left, Has, Open, DeviceTypes
    <3> QED
      BY <1>5, <2>1, <3>3 DEF DeviceInv
  <2>4. CASE ~ReaderStep(d) /\ ~(ColorDestroy(d) \/ SyncDestroy(d) \/ McuAndTickDestroy(d))
    <3>1. made' = made
      BY <1>8, <2>4 DEF Begins, GoesOn, zsa_device_close, zsa_device_start_cameras,
         zsa_device_stop_cameras, StartFails, SetMode, SyncStart, ColorStart, Absent, SyncStop,
         ColorStop
    <3>2. Open(d)
      <4>1. CASE Begins(d)
        BY <1>8, <4>1 DEF Begins, zsa_device_close, zsa_device_start_cameras,
           zsa_device_stop_cameras
      <4>2. CASE StartFails(d) \/ SetMode(d) \/ SyncStart(d) \/ ColorStart(d)
                 \/ Absent(d) \/ SyncStop(d) \/ ColorStop(d)
        <5>1. IsRunning(d) \/ IsClosing(d)
          BY <1>1, <4>2, OpeningSteps
             DEF StartFails, SetMode, SyncStart, ColorStart, Absent, SyncStop, ColorStop,
                 At, Idle, Place, AtRest, IsOpening, Step
        <5> QED
          BY <5>1 DEF IsRunning, IsClosing, Has, Left, Parts, Open
      <4> QED
        BY <1>8, <2>4, <4>1, <4>2 DEF GoesOn
    <3>3. Open(d)'
      BY <3>1, <3>2 DEF Open
    <3> QED
      BY <1>5, <2>1, <3>2, <3>3 DEF DeviceInv
  <2> QED
    BY <2>2, <2>3, <2>4
<1> QED
  BY <1>3, <1>6, <1>7, <1>8

-----------------------------------------------------------------------------
(* The devices beside the logger: a message delivered changes no device.   *)

LEMMA DeviceInvStep == DeviceInv /\ [SdkNext]_<<vars, logVars>> => DeviceInv'
<1> SUFFICES ASSUME DeviceInv, [SdkNext]_<<vars, logVars>> PROVE DeviceInv'
  OBVIOUS
<1>1. CASE UNCHANGED vars
  BY <1>1 DEF vars, DeviceInv, DeviceTypes, Places, Place, AtRest, IsOpening, IsRunning,
     IsClosing, Streams, Still, Stopped, Has, Left, InUse, Open, Idle
<1>2. ASSUME NEW d \in Devices, Begins(d) \/ GoesOn(d) \/ ReaderStep(d) PROVE DeviceInv'
  BY <1>2, StepKeepsPlaces, StepKeepsSessions DEF DeviceInv
<1> QED
  BY <1>1, <1>2 DEF SdkNext

LEMMA DevicesInvariant == SdkSpec => []DeviceInv
<1>1. SdkInit => DeviceInv
  <2> SUFFICES ASSUME SdkInit PROVE DeviceInv
    OBVIOUS
  <2>1. DeviceTypes /\ Places
    BY DEF SdkInit, Init, DeviceTypes, Places, Place, AtRest, Has, Still, Stopped, Streams
  <2>2. InUse = {}
    BY DEF SdkInit, Init, InUse, Open, Idle
  <2> QED
    BY <2>1, <2>2, FS_EmptySet DEF DeviceInv, SdkInit, Init
<1> QED
  BY <1>1, DeviceInvStep, PTL DEF SdkSpec

(* The comment in zsa_device_close, "depth & color call into capturesync,  *)
(* so they need to be destroyed first": while color_capture_ready runs on  *)
(* the reader's thread, its device, capturesync and reader exist, in any   *)
(* interleaving of any number of devices that open, fail to open, start,   *)
(* stop, close and log.                                                    *)
THEOREM CallbackNeverDangles == SdkSpec => []CallbackFindsDevice
<1>1. DeviceInv => CallbackFindsDevice
  BY DEF DeviceInv, Places, Streams, CallbackFindsDevice
<1> QED
  BY <1>1, DevicesInvariant, PTL

(* Between two calls color_started agrees with what runs, after starts     *)
(* that failed at any step and after a second start as well; a stopped     *)
(* device keeps no capture.                                                *)
THEOREM FlagIsTrue == SdkSpec => []FlagTellsRunning
<1>1. DeviceInv => FlagTellsRunning
  <2> SUFFICES ASSUME DeviceInv, NEW d \in Devices, Idle(d), Open(d)
               PROVE  /\ color_started[d] = running[d]
                      /\ on[d] => color_started[d]
                      /\ ~color_started[d] => queued[d] = 0
    BY DEF FlagTellsRunning
  <2>1. AtRest(d)
    BY OpeningSteps, RunningSteps, ClosingSteps, SMTT(30)
       DEF DeviceInv, Places, Place, Idle, IsOpening, IsRunning, IsClosing, Step
  <2> QED
    BY <2>1 DEF AtRest, Has, Open
<1> QED
  BY <1>1, DevicesInvariant, PTL

(* Wherever an open fails, and in whatever state a device is closed, no    *)
(* part of it is left; and the allocator is in use exactly once for every  *)
(* device in use and every handle that could not be made.                  *)
THEOREM CloseIsComplete == SdkSpec => []ClosedLeavesNothing
<1>1. DeviceInv => ClosedLeavesNothing
  <2> SUFFICES ASSUME DeviceInv PROVE ClosedLeavesNothing
    OBVIOUS
  <2>1. ASSUME NEW d \in Devices, Idle(d), ~Open(d)
        PROVE  made[d] = {} /\ ~on[d] /\ ~delivering[d] /\ ~running[d] /\ queued[d] = 0
    <3>1. AtRest(d)
      BY <2>1, OpeningSteps, RunningSteps, ClosingSteps, SMTT(30)
         DEF DeviceInv, Places, Place, Idle, IsOpening, IsRunning, IsClosing, Step
    <3> QED
      BY <2>1, <3>1 DEF AtRest, Has, Open, Parts, Still, Stopped
  <2> QED
    BY <2>1 DEF ClosedLeavesNothing, DeviceInv, InUse
<1> QED
  BY <1>1, DevicesInvariant, PTL

-----------------------------------------------------------------------------
(* The logger                                                              *)

LogInv ==
  /\ DOMAIN logging = LogThreads /\ logging = [t \in LogThreads |-> logging[t]]
  /\ LoggersStayWhileUsed

(* Delivering changes what one thread does, and each way it may go is      *)
(* tested first.                                                           *)
LEMMA DeliveryKeepsLoggers ==
  ASSUME LogInv, NEW t \in LogThreads, LogStep(t)
  PROVE  LogInv'
<1>1. ASSUME NEW level, NEW at, Delivers(t, level, at), UNCHANGED <<user, env>>,
             at = "env" => env.logger # "none"
      PROVE  LogInv'
  <2>1. CASE at = "callback"
    BY <1>1, <2>1 DEF Delivers, LogInv, LoggersStayWhileUsed
  <2>2. CASE at = "env"
    BY <1>1, <2>2 DEF Delivers, LogInv, LoggersStayWhileUsed, Silent
  <2>3. CASE at # "callback" /\ at # "env"
    BY <1>1, <2>3 DEF Delivers, LogInv, LoggersStayWhileUsed, Silent
  <2> QED
    BY <2>1, <2>2, <2>3
<1>2. ASSUME NEW level, logger_log(t, level) PROVE LogInv'
  <2>1. ~ToUser(level) => env.logger # "none"
    BY <1>2 DEF logger_log, ToEnv
  <2> QED
    BY <1>1, <1>2, <2>1 DEF logger_log
<1>3. CASE CallbackReturns(t)
  BY <1>1, <1>3 DEF CallbackReturns, ToEnv
<1>4. CASE Written(t)
  BY <1>1, <1>4 DEF Written
<1> QED
  BY <1>2, <1>3, <1>4 DEF LogStep

(* Registering and unloading wait until nobody delivers.                   *)
LEMMA ControlKeepsLoggers ==
  ASSUME LogInv, LogControl
  PROVE  LogInv'
<1>1. WriteLock /\ logging' = logging
  BY DEF LogControl, logger_register_message_callback, logger_deinit
<1> QED
  BY <1>1 DEF WriteLock, LogInv, LoggersStayWhileUsed

(* No thread is in a callback, or writes to a logger, that is no longer    *)
(* registered: for any number of threads, callbacks, contexts and levels.  *)
THEOREM LoggersStay == SdkSpec => []LoggersStayWhileUsed
<1>1. SdkInit => LogInv
  BY DEF SdkInit, LogInit, LogInv, LoggersStayWhileUsed, Silent
<1>2. LogInv /\ [SdkNext]_<<vars, logVars>> => LogInv'
  <2> SUFFICES ASSUME LogInv, [SdkNext]_<<vars, logVars>> PROVE LogInv'
    OBVIOUS
  <2>1. CASE UNCHANGED logVars
    BY <2>1 DEF logVars, LogInv, LoggersStayWhileUsed
  <2> QED
    BY <2>1, DeliveryKeepsLoggers, ControlKeepsLoggers DEF SdkNext
<1>3. LogInv => LoggersStayWhileUsed
  BY DEF LogInv
<1> QED
  BY <1>1, <1>2, <1>3, PTL DEF SdkSpec

=============================================================================
