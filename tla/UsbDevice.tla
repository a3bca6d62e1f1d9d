----------------------------- MODULE UsbDevice -----------------------------
(***************************************************************************)
(* Finding, opening and closing the USB device behind a usbcmd_t:          *)
(* usb_cmd_create, find_libusb_device, usb_cmd_destroy and                 *)
(* usb_cmd_get_device_count of src/src/usbcommand/usbcommand.c.            *)
(*                                                                         *)
(* A device on the bus is the capabilities of its BOS descriptor and       *)
(* whether its vendor and product id are the wanted ones.  Every call into *)
(* libusb may fail; what libusb has given out and not taken back is        *)
(* recorded in lib.                                                        *)
(***************************************************************************)
EXTENDS Integers, Sequences, FiniteSets

CONSTANTS
  Buses,       \* the lists of devices that may be attached
  Ids,         \* container ids
  Indexes,     \* the device indexes asked for
  WantedIds    \* the container ids asked for

CONTAINER_ID == "LIBUSB_BT_CONTAINER_ID"

ASSUME BusAssumption ==
  \A bus \in Buses : bus \in Seq([ours : BOOLEAN, caps : Seq([type : {CONTAINER_ID, "other"}, id : Ids])])

(* Bound: the devices attached.  With more, list_index, a uint8_t, counts  *)
(* from 0 again and an index means several devices.                        *)
ASSUME FewDevices == \A bus \in Buses : Len(bus) < 256

VARIABLES
  stage,       \* how far usb_cmd_create or usb_cmd_destroy has come
  usbcmd,      \* usbcmd_context_t: lock, libusb_context, libusb
  search,      \* the locals of find_libusb_device; which descriptors failed
  lib          \* what libusb has given out

deviceVars == <<stage, usbcmd, search, lib>>

None == 0
NoId == "no container id"
Closed == [lock |-> FALSE, context |-> FALSE, libusb |-> None]
NoSearch == [bus |-> <<>>, request |-> [by |-> "index", index |-> 0],
             loop |-> 0, list_index |-> 0, unread |-> {}]
Unused == [contexts |-> {}, lists |-> {}, open |-> {}, claimed |-> FALSE]

DeviceInit ==
  /\ stage = "none"
  /\ usbcmd = Closed
  /\ search = NoSearch
  /\ lib = Unused

-----------------------------------------------------------------------------
(* usb_cmd_create                                                          *)

(* The handle and its lock.  Without a handle nothing changes; without a   *)
(* lock the handle is destroyed again.                                     *)
Create(bus, request) ==
  /\ stage = "none"
  /\ search' = [NoSearch EXCEPT !.bus = bus, !.request = request]
  /\ \/ /\ usbcmd' = [Closed EXCEPT !.lock = TRUE]
        /\ stage' = "init"
     \/ /\ usbcmd' = Closed
        /\ stage' = "undo"
  /\ UNCHANGED lib

ById(id) == [by |-> "id", id |-> id]
ByIndex(i) == [by |-> "index", index |-> i]

(* The color MCU's handle holds a usbcmd_t and nothing else; it is not     *)
(* created when the usbcmd_t is not.                                       *)
colormcu_create(bus, container_id) == Create(bus, ById(container_id))
colormcu_create_by_index(bus, device_index) == Create(bus, ByIndex(device_index))

(* libusb_init, the log level and the list of devices: one may fail.  An   *)
(* empty list is refused like a failure.                                   *)
FindBegins ==
  /\ stage = "init"
  /\ \/ /\ usbcmd' = [usbcmd EXCEPT !.context = TRUE]
        /\ lib' = [lib EXCEPT !.contexts = @ \cup {"handle"}, !.lists = @ \cup {"handle"}]
        /\ search.bus # <<>>
        /\ stage' = "find"
     \/ /\ usbcmd' = [usbcmd EXCEPT !.context = TRUE]
        /\ lib' = [lib EXCEPT !.contexts = @ \cup {"handle"}]
        /\ stage' = "undo"
     \/ /\ UNCHANGED <<usbcmd, lib>>
        /\ stage' = "undo"
  /\ UNCHANGED search

Candidate == search.bus[search.loop + 1]

(* list_index is a uint8_t, and counts the devices with the right ids.     *)
NextIndex == IF Candidate.ours THEN (search.list_index + 1) % 256 ELSE search.list_index

(* "Check if this is our device and correlates to the index number based   *)
(* on discovery order"                                                     *)
IsCandidate ==
  /\ Candidate.ours
  /\ search.request.by = "index" => search.request.index = search.list_index

(* The first container id among the capabilities of the device.            *)
populate_container_id(device) ==
  LET found == {i \in DOMAIN device.caps : device.caps[i].type = CONTAINER_ID}
  IN IF found = {} THEN NoId
     ELSE device.caps[CHOOSE i \in found : \A j \in found : i <= j].id

(* A device without a container id is not taken, whatever was asked for.   *)
IsWanted ==
  LET id == populate_container_id(Candidate)
  IN id # NoId /\ (search.request.by = "id" => search.request.id = id)

MoreDevices == stage = "find" /\ search.loop < Len(search.bus) /\ usbcmd.libusb = None

(* The descriptor cannot be read (libusb_close(NULL) does nothing), the    *)
(* device is another one, or it cannot be opened.                          *)
FindSkips ==
  /\ MoreDevices
  /\ \E described \in BOOLEAN :
       search' = [search EXCEPT
                    !.loop = @ + 1,
                    !.list_index = IF described THEN NextIndex ELSE @,
                    !.unread = IF described THEN @ ELSE @ \cup {search.loop + 1}]
  /\ UNCHANGED <<stage, usbcmd, lib>>

NotFoundStaysOpen == [lib EXCEPT !.open = @ \cup {search.loop + 1}]  \* mutant

(* "if (!found) libusb_close" *)
NotFoundCloses == lib

(* The device was opened, but its container id cannot be read or is not    *)
(* the wanted one.                                                         *)
FindRejects ==
  /\ MoreDevices
  /\ IsCandidate
  /\ lib' = NotFoundCloses
  /\ search' = [search EXCEPT !.loop = @ + 1, !.list_index = NextIndex]
  /\ UNCHANGED <<stage, usbcmd>>

FindAccepts ==
  /\ MoreDevices
  /\ IsCandidate
  /\ IsWanted
  /\ usbcmd' = [usbcmd EXCEPT !.libusb = search.loop + 1]
  /\ lib' = [lib EXCEPT !.open = @ \cup {search.loop + 1}]
  /\ search' = [search EXCEPT !.loop = @ + 1, !.list_index = NextIndex]
  /\ UNCHANGED stage

(* The list is freed, found or not.                                        *)
FindEnds ==
  /\ stage = "find" /\ ~MoreDevices
  /\ lib' = [lib EXCEPT !.lists = @ \ {"handle"}]
  /\ stage' = IF usbcmd.libusb # None THEN "configure" ELSE "undo"
  /\ UNCHANGED <<usbcmd, search>>

(* The serial number, the configuration, detaching the kernel's driver and *)
(* claiming the interface.                                                 *)
Claim ==
  /\ stage = "configure"
  /\ lib' = [lib EXCEPT !.claimed = TRUE]
  /\ stage' = "ready"
  /\ search' = NoSearch
  /\ UNCHANGED usbcmd

ConfigureFails ==
  /\ stage = "configure"
  /\ stage' = "undo"
  /\ UNCHANGED <<usbcmd, search, lib>>

-----------------------------------------------------------------------------
(* usb_cmd_destroy, after the stream was stopped and the commands waited   *)
(* for: each resource is given back if the context has it.                 *)

Release(from) ==
  /\ stage = from
  /\ lib' = [lib EXCEPT
       !.claimed  = IF usbcmd.libusb # None THEN FALSE ELSE @,
       !.open     = @ \ {usbcmd.libusb},
       !.contexts = IF usbcmd.context THEN @ \ {"handle"} ELSE @]
  /\ usbcmd' = Closed
  /\ search' = NoSearch
  /\ stage' = "none"

(* usb_cmd_create's failure path; *usbcmd_handle is NULL again.            *)
CreateFails == Release("undo")

-----------------------------------------------------------------------------
(* usb_cmd_get_device_count                                                *)

(* "Color or Depth end point my be in a bad state so we cound both and     *)
(* return the larger count": with one product id per device that is the    *)
(* number of ours.  An empty list returns early, and keeps the context and *)
(* the list.  Bound: this leak is recorded once.                           *)
CountDevices(bus) ==
  /\ stage = "none"
  /\ lib' = IF bus = <<>>
            THEN [lib EXCEPT !.contexts = @ \cup {"count"}, !.lists = @ \cup {"count"}]
            ELSE lib
  /\ UNCHANGED <<stage, usbcmd, search>>

DeviceNext ==
  \/ \E bus \in Buses, id \in WantedIds : colormcu_create(bus, id)
  \/ \E bus \in Buses, i \in Indexes : colormcu_create_by_index(bus, i)
  \/ FindBegins
  \/ FindSkips
  \/ FindRejects
  \/ FindAccepts
  \/ FindEnds
  \/ Claim
  \/ ConfigureFails
  \/ CreateFails
  \/ \E bus \in Buses : CountDevices(bus)

-----------------------------------------------------------------------------
(* Properties                                                              *)

(* Whichever step of usb_cmd_create fails, and after usb_cmd_destroy,      *)
(* libusb has everything back: an interface left claimed, or a device left *)
(* open, would keep the next usb_cmd_create, of any process, out.          *)
NothingHeldWithoutHandle ==
  stage = "none" =>
    /\ lib.open = {} /\ ~lib.claimed
    /\ "handle" \notin lib.contexts \cup lib.lists

Ours(bus, i) == Cardinality({j \in (1 .. i) \ search.unread : bus[j].ours})

(* The device that usb_cmd_create has opened is the one it was asked for,  *)
(* and the only one: the device_index-th of the matching ones in discovery *)
(* order (of those whose descriptor could be read), or one with the        *)
(* container id.                                                           *)
HandleIsRequestedDevice ==
  stage = "configure" =>
    LET i == usbcmd.libusb
        bus == search.bus
    IN  /\ lib.open = {i}
        /\ bus[i].ours
        /\ IF search.request.by = "id"
           THEN populate_container_id(bus[i]) = search.request.id
           ELSE Ours(bus, i) = search.request.index + 1

(* usb_cmd_create opens the device it was asked for or leaves nothing, and *)
(* usb_cmd_destroy gives back everything.                                  *)
OpensOneOrNothing == NothingHeldWithoutHandle /\ HandleIsRequestedDevice

=============================================================================
