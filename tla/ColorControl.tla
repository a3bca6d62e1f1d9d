---------------------------- MODULE ColorControl ----------------------------
(***************************************************************************)
(* The controls of the color camera: color_get_control_capabilities,       *)
(* color_get_control and color_set_control of src/src/color/color.cpp over *)
(* UVCCameraReader and CMFCameraReader.  The device keeps what it was told *)
(* when its handle is closed (src/include/zsa/zsatypes.h); the reader's    *)
(* idea of the power line frequency and the capabilities that were read    *)
(* are those of one handle.                                                *)
(***************************************************************************)
EXTENDS Exposure

CONSTANTS
  Commands,     \* the controls of the camera
  Programs,     \* the sets of controls that programs use
  Requests,     \* control -> the values it asks for
  Limits,       \* control -> the device's minimum and maximum
  Unset

VARIABLES
  used,                 \* the controls this program uses
  backend,              \* "uvc" or "mf": which reader was built
  device,               \* control -> its mode and value in the device, in the driver's units
  m_using_60hz_power,
  control_cap,          \* control -> the capabilities that were read, or Unset
  asked                 \* history: control -> the last value set by hand through this handle, or Unset

controlVars == <<used, backend, device, m_using_60hz_power, control_cap, asked>>

MODE_AUTO == "auto"
MODE_MANUAL == "manual"

EXPOSURE_TIME == "exposure time"
WHITEBALANCE == "white balance"
POWERLINE_FREQUENCY == "powerline frequency"
EXPOSURE_PRIORITY == "auto exposure priority"
BRIGHTNESS == "brightness"
Processing == {BRIGHTNESS, "contrast", "saturation", "sharpness"}
Sensor == {"backlight compensation", "gain"}
AllCommands == Processing \cup Sensor
                 \cup {EXPOSURE_TIME, WHITEBALANCE, POWERLINE_FREQUENCY, EXPOSURE_PRIORITY}
WithMode == {EXPOSURE_TIME, WHITEBALANCE}

ASSUME CommandsAssumption ==
  /\ Commands \subseteq AllCommands
  /\ Programs \subseteq SUBSET Commands
  /\ \A c \in Commands : /\ Limits[c] \in [min : Int, max : Int]
                          /\ Limits[c].min <= Limits[c].max
                          /\ Requests[c] \subseteq Int

(* The exposure times of the device, in the units of the driver.           *)
DeviceRange(c) ==
  IF c # EXPOSURE_TIME THEN Limits[c]
  ELSE IF backend = "uvc" THEN [min |-> 5, max |-> 1333]
                           ELSE [min |-> Exponent(1), max |-> Exponent(13)]

NoHandle == [c \in Commands |-> Unset]

ControlInit ==
  /\ used \in Programs
  /\ backend \in {"uvc", "mf"}
  /\ m_using_60hz_power = TRUE
  /\ device = [c \in Commands |-> [mode |-> IF c \in WithMode THEN MODE_AUTO ELSE MODE_MANUAL,
                                   value |-> DeviceRange(c).max]]
  /\ control_cap = NoHandle
  /\ asked = NoHandle

(* color_destroy and color_create again: a new reader, nothing cached, and *)
(* the device as it was.                                                   *)
Reopen ==
  /\ m_using_60hz_power' = TRUE
  /\ control_cap' = NoHandle
  /\ asked' = NoHandle
  /\ UNCHANGED <<used, backend, device>>

(* In automatic mode the device chooses the value.                         *)
DeviceAdjusts(c) ==
  /\ device[c].mode = MODE_AUTO
  /\ \E v \in {DeviceRange(c).min, DeviceRange(c).max} : device' = [device EXCEPT ![c].value = v]
  /\ UNCHANGED <<used, backend, m_using_60hz_power, control_cap, asked>>

-----------------------------------------------------------------------------
(* Reading                                                                 *)

UvcGetExposure == [mode |-> device[EXPOSURE_TIME].mode,
                   value |-> MapLinuxExposureToK4a(device[EXPOSURE_TIME].value, m_using_60hz_power)]
UvcGetProcessing(c) == [mode |-> MODE_MANUAL, value |-> device[c].value]
UvcGetWhiteBalance == device[WHITEBALANCE]
UvcGetSensor(c) == [mode |-> MODE_MANUAL, value |-> device[c].value]
PriorityValue == [mode |-> MODE_MANUAL, value |-> 0]

UvcGetCameraControl(c) ==
  CASE c = EXPOSURE_TIME -> UvcGetExposure
    [] c = WHITEBALANCE -> UvcGetWhiteBalance
    [] c = EXPOSURE_PRIORITY -> PriorityValue
    [] c \in Processing -> UvcGetProcessing(c)
    [] OTHER -> UvcGetSensor(c)

(* One request gets the value and the mode.                                *)
GetCameraControlValue(c) == device[c]

MfGetCameraControl(c) ==
  LET got == GetCameraControlValue(c)
  IN  CASE c = EXPOSURE_TIME -> [got EXCEPT !.value = MapMfExponentToK4a(@, m_using_60hz_power)]
        [] c = EXPOSURE_PRIORITY -> PriorityValue
        [] OTHER -> got

color_get_control(c) ==
  IF backend = "uvc" THEN UvcGetCameraControl(c) ELSE MfGetCameraControl(c)

-----------------------------------------------------------------------------
(* Capabilities                                                            *)

(* hz60, with which the limits were converted, is not in the structure.    *)
Capabilities(auto, min, max) ==
  [supportAuto |-> auto, minValue |-> min, maxValue |-> max, hz60 |-> m_using_60hz_power]

UvcCapExposure ==
  LET usec(units) == MapLinuxExposureToK4a(units, m_using_60hz_power)
      r == DeviceRange(EXPOSURE_TIME)
  IN  Capabilities(TRUE, usec(r.min), usec(r.max))
UvcCapProcessing(c) == Capabilities(FALSE, Limits[c].min, Limits[c].max)
UvcCapWhiteBalance == Capabilities(TRUE, Limits[WHITEBALANCE].min, Limits[WHITEBALANCE].max)
UvcCapSensor(c) == Capabilities(FALSE, Limits[c].min, Limits[c].max)
UvcCapPowerLine == Capabilities(FALSE, Limits[POWERLINE_FREQUENCY].min, Limits[POWERLINE_FREQUENCY].max)
CapPriority == Capabilities(FALSE, 0, 0)

UvcCapabilities(c) ==
  CASE c = EXPOSURE_TIME -> UvcCapExposure
    [] c = WHITEBALANCE -> UvcCapWhiteBalance
    [] c = POWERLINE_FREQUENCY -> UvcCapPowerLine
    [] c = EXPOSURE_PRIORITY -> CapPriority
    [] c \in Processing -> UvcCapProcessing(c)
    [] OTHER -> UvcCapSensor(c)

(* Media Foundation asks the driver which controls have an automatic mode. *)
GetCameraControlCap(c) == [auto |-> c \in WithMode, min |-> DeviceRange(c).min, max |-> DeviceRange(c).max]

CapRawExposure(c) ==                                             \* mutant
  LET k == GetCameraControlCap(c) IN Capabilities(k.auto, k.min, k.max)

MfCapabilities(c) ==
  LET k == GetCameraControlCap(c)
      usec(exponent) == MapMfExponentToK4a(exponent, m_using_60hz_power)
  IN  CASE c = EXPOSURE_TIME -> Capabilities(k.auto, usec(k.min), usec(k.max))
        [] c = EXPOSURE_PRIORITY -> CapPriority
        [] OTHER -> Capabilities(k.auto, k.min, k.max)

(* Read once per handle.  A failure leaves valid unset.                    *)
color_get_control_capabilities(c) ==
  /\ control_cap[c] = Unset
  /\ control_cap' = [control_cap EXCEPT
       ![c] = IF backend = "uvc" THEN UvcCapabilities(c) ELSE MfCapabilities(c)]
  /\ UNCHANGED <<used, backend, device, m_using_60hz_power, asked>>

-----------------------------------------------------------------------------
(* Writing.  The device refuses a value out of its range, and may refuse   *)
(* any request; a request that it refused has no effect.                   *)

Accepts(c, units) == DeviceRange(c).min <= units /\ units <= DeviceRange(c).max

(* What the program may rely on after a request that succeeded.  Another   *)
(* power line frequency has other exposure times.                          *)
Succeeds(c, mode, value) ==
  asked' = [x \in Commands |-> IF x = c THEN IF mode = MODE_MANUAL THEN value ELSE Unset
                               ELSE IF x = EXPOSURE_TIME /\ c = POWERLINE_FREQUENCY THEN Unset
                               ELSE asked[x]]

(* Two requests: the mode, then the value.  The second may fail alone.     *)
UvcSetWithMode(c, mode, value, units) ==
  \/ /\ mode = MODE_MANUAL
     /\ device' = [device EXCEPT ![c].mode = MODE_MANUAL]
     /\ UNCHANGED asked
  \/ /\ mode = MODE_MANUAL
     /\ Accepts(c, units)
     /\ device' = [device EXCEPT ![c] = [mode |-> MODE_MANUAL, value |-> units]]
     /\ Succeeds(c, mode, value)
  \/ /\ mode = MODE_AUTO
     /\ device' = [device EXCEPT ![c].mode = MODE_AUTO]
     /\ Succeeds(c, mode, value)

Uint16(v) == v % 2^16
Int16(v) == ((v + 2^15) % 2^16) - 2^15
Uint8(v) == v % 2^8

UvcSetPlain(c, mode, value, units) ==
  /\ mode = MODE_MANUAL
  /\ Accepts(c, units)
  /\ device' = [device EXCEPT ![c].value = units]
  /\ Succeeds(c, mode, value)

UvcSetExposure(mode, value) ==
  /\ UvcSetWithMode(EXPOSURE_TIME, mode, value, MapK4aExposureToLinux(value, m_using_60hz_power))
  /\ UNCHANGED m_using_60hz_power

UvcSetProcessing(c, mode, value) ==
  /\ UvcSetPlain(c, mode, value, IF c = BRIGHTNESS THEN Int16(value) ELSE Uint16(value))
  /\ UNCHANGED m_using_60hz_power

UvcSetWhiteBalance(mode, value) ==
  /\ UvcSetWithMode(WHITEBALANCE, mode, value, Uint16(value))
  /\ UNCHANGED m_using_60hz_power

UvcSetSensor(c, mode, value) ==
  /\ UvcSetPlain(c, mode, value, Uint16(value))
  /\ UNCHANGED m_using_60hz_power

FrequencyKept(value) == m_using_60hz_power                       \* mutant

Uses60Hz(value) == value = 2

UvcSetPowerLine(mode, value) ==
  /\ value # 0
  /\ UvcSetPlain(POWERLINE_FREQUENCY, mode, value, Uint8(value))
  /\ m_using_60hz_power' = Uses60Hz(value)

(* Deprecated: succeeds and does nothing.                                  *)
SetPriority(mode, value) ==
  /\ Succeeds(EXPOSURE_PRIORITY, mode, Unset)
  /\ UNCHANGED <<device, m_using_60hz_power>>

UvcSetCameraControl(c, mode, value) ==
  CASE c = EXPOSURE_TIME -> UvcSetExposure(mode, value)
    [] c = WHITEBALANCE -> UvcSetWhiteBalance(mode, value)
    [] c = POWERLINE_FREQUENCY -> UvcSetPowerLine(mode, value)
    [] c = EXPOSURE_PRIORITY -> SetPriority(mode, value)
    [] c \in Processing -> UvcSetProcessing(c, mode, value)
    [] OTHER -> UvcSetSensor(c, mode, value)

(* One request sets the mode and the value.                                *)
SetCameraControlValue(c, mode, units) ==
  /\ Accepts(c, units)
  /\ device' = [device EXCEPT ![c] = [mode |-> mode, value |-> units]]

MfSetCameraControl(c, mode, value) ==
  /\ mode = MODE_AUTO => c \in WithMode
  /\ IF c = EXPOSURE_PRIORITY THEN SetPriority(mode, value)
     ELSE /\ SetCameraControlValue(c, mode, IF c = EXPOSURE_TIME
                                            THEN MapK4aExposureToMf(value, m_using_60hz_power)
                                            ELSE value)
          /\ m_using_60hz_power' = IF c = POWERLINE_FREQUENCY THEN Uses60Hz(value)
                                                              ELSE m_using_60hz_power
          /\ Succeeds(c, mode, value)

color_set_control(c, mode, value) ==
  /\ IF backend = "uvc" THEN UvcSetCameraControl(c, mode, value)
                         ELSE MfSetCameraControl(c, mode, value)
  /\ UNCHANGED <<used, backend, control_cap>>

ControlNext ==
  \/ Reopen
  \/ \E c \in used : DeviceAdjusts(c)
  \/ \E c \in used : color_get_control_capabilities(c)
  \/ \E c \in used : \E mode \in {MODE_AUTO, MODE_MANUAL}, v \in Requests[c] : color_set_control(c, mode, v)

ControlSpec == ControlInit /\ [][ControlNext]_controlVars

-----------------------------------------------------------------------------
(* Properties                                                              *)

(* The values that the driver's type can hold.  A wider one is truncated   *)
(* by UVCCameraReader::SetCameraControl and set as another value.          *)
Fits(c, v) ==
  \/ backend = "mf"
  \/ c = EXPOSURE_TIME
  \/ c = POWERLINE_FREQUENCY /\ Uint8(v) = v
  \/ c = BRIGHTNESS /\ Int16(v) = v
  \/ c \notin {EXPOSURE_TIME, POWERLINE_FREQUENCY, BRIGHTNESS} /\ Uint16(v) = v

Known(c) == c \in Commands /\ asked[c] # Unset /\ Fits(c, asked[c])

PowerLineIs60Hz == device[POWERLINE_FREQUENCY].value = 2

(* What was set is what is read, however many requests failed since: the   *)
(* value itself, and of the exposure time the first in the table of the    *)
(* device's power line frequency that is not shorter, if that frequency    *)
(* was set through this handle.                                            *)
ReadBack ==
  \A c \in Commands : Known(c) =>
    LET got == color_get_control(c)
    IN  /\ got.mode = MODE_MANUAL
        /\ c # EXPOSURE_TIME => got.value = asked[c]
        /\ c = EXPOSURE_TIME /\ Known(POWERLINE_FREQUENCY) =>
             IsNearest(got.value, asked[c], PowerLineIs60Hz)

(* What is read lies within the capabilities the handle has cached, and is *)
(* automatic only where they say so, as long as the power line frequency   *)
(* is the one they were read under.                                        *)
WithinCapabilities ==
  \A c \in Commands :
    control_cap[c] # Unset /\ control_cap[c].hz60 = m_using_60hz_power =>
      LET got == color_get_control(c)
      IN  /\ control_cap[c].minValue <= got.value /\ got.value <= control_cap[c].maxValue
          /\ got.mode = MODE_AUTO => control_cap[c].supportAuto

=============================================================================
