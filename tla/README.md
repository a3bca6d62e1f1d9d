# Verification of the ZSA sensor SDK

TLA+ models of the SDK in this repository (a fork of the Azure Kinect Sensor SDK:
public API `zsa_*`, implementation under `src/src/`), TLC runs over small
instances of them, and TLAPS proofs for instances of every size. Paths below are
relative to the repository, so `src/queue/queue.c` is the file of the capture queue.
`PROJECT.json` maps every definition to the lines it models.

## 1. The system

A device delivers *captures*, groups of images, to an application. The callback
thread of each sensor allocates an image, puts it into a capture and gives the
capture to the synchronizer; the synchronizer pairs color and depth captures and
pushes the result into a queue; the application pops it from there.

```
 libuvc thread --> color (uvc_camerareader) --+
                                              +--> capturesync --> queue --> zsa_device_get_capture
 usb event thread --> usbstreaming --> depth -+        (two queues inside)
 application --> zsa.c --> color, color_mcu --> usbcommand --> libusb
 all of them --> image, capture, allocator (memory);  logging;  rwlock;  global
 zsa.hpp: C++ objects over the handles of zsa.h

 astra headers: plugin stream --> bin --> (library) --> StreamReader --> listeners, frames, views
```

The Astra headers (`include/astra_core`, `include/astra`) are a second, independent API
whose library is not in the repository; the classes in the headers have logic of their own.

| component | state | operations | how others meet it |
|---|---|---|---|
| queue (`queue.c`) | ring of captures, `enabled`, `stopped`, `queue_pop_blocked`, lock, condition | create, push, push_w_dropped, pop (0, finite, infinite wait), enable, disable, stop, destroy | capturesync owns three; pushed by sensor threads, popped by the application, disabled by whoever stops the device |
| capturesync (`capturesync.c`) | two slots (`frame_info_t`), three queues, `running`, clean-timestamp flag, configuration, lock | create, start, add_capture, get_capture, stop, destroy | callbacks of two sensors, the application, the controlling thread, and sensor errors that bypass the lock |
| allocator (`allocator.c`) | callbacks under a read-write lock, a leak counter per source, session count | alloc, free, set_allocator, (de)initialize, test_for_leaks | called by every producer; calls the application back |
| capture (`allocator.c`) | reference count, three image slots, read-write lock, temperature | create, inc_ref, dec_ref, get/set of each image | shared by sensor threads, queues and the application |
| image (`image.c`) | reference count, buffer with its destroy callback, metadata | create, create_from_buffer, inc_ref, dec_ref, accessors | held by captures and the application |
| usbcommand (`usbcommand.c`) | libusb handle, `transaction_id`, lock | create (search, open, claim), read and write commands, destroy, device count | color_mcu and later the depth MCU |
| usbstreaming (`usbstreaming.c`) | transfer list, `stream_going`, event thread | stream_start, event thread, transfer callback, stream_stop | libusb calls back on the event thread |
| color (`color.cpp`, `uvc_camerareader.cpp`) | the reader, `m_streaming`, callback, mutex, decoder, capabilities read, the power line frequency believed in | create, start, stop, destroy, frame callback, controls and their capabilities | libuvc's thread, the application's |
| Media Foundation reader (`mfcamerareader.cpp`) | `m_started`, `m_flushing`, the flushed event, lock, source reader | the same, over asynchronous reads and flushes | work queue threads |
| color_mcu | handle of usbcommand | one command per function; IMU start and stop also start and stop the stream | zsa.c |
| comcommand | copy of usbcommand for a serial port, transfers not written yet | | not used |
| sdk (`zsa.c`) | device context: its parts, `color_started` | open, close, start_cameras, stop_cameras, the color callback | the application, the reader's thread |
| logging (`logging.cpp`) | the registered callback, its context and level, the environment's logger and level, read-write lock | register, log, deinit | everybody |
| C++ API (`zsa.hpp`) | one handle per object, resolutions of a transformation | construct, copy, move, assign, reset, create, convert, get_capture | the application |
| Astra: plugin stream | connections, count of started ones, bin and its buffers | connections come, start, stop, go; begin and end of a frame; change of the buffer's size | the library |
| Astra: StreamReader, Frame, views | listeners, listeners added and removed during a notification, shared frames | add, remove, notify, open, copy, drop, read a frame | the application, also from inside `on_frame_ready` |
| rwlock, global, math | | wrappers, one-time initialisation, vector arithmetic | |

What is hard in it: consumers that wait on a condition with several other threads
posting and disabling; a disable loop that must bring every consumer back; ordering
and ownership of captures across three bounded queues that drop their oldest
element; timestamps with a delay of either sign and a clock that is reset during
start; sensor errors that stop queues in the middle of a match; reference counts
with failure paths; application callbacks exchanged while they run; transfers that
are cancelled while their callbacks run; answers that arrive after the command has timed
out; Stop against a frame that waits for Stop's lock, or against an asynchronous flush;
controls made of two requests of which the second fails; a device that is opened half-way;
copies and moves of handles with exceptions in between; listeners that add and remove
listeners. `PROJECT.json` lists each one under
`hazards`, at its line, with the properties that would notice it going wrong.

What makes each component correct:

* queue: no consumer sleeps beside a capture; a disabled queue gets rid of its
  consumers and its captures; destroy leaves nobody inside; references are neither
  lost nor duplicated; the order is first-in first-out with the oldest dropped.
* capturesync: images of a sensor reach the user in order and once; pairs are within
  the window the configuration asks for; with `synchronized_images_only` only pairs
  come out; nothing is stranded in a slot or carried over to the next session; every
  call returns.
* allocator, image, capture: counts are exact, each buffer has one owner and goes
  back to the callback that belongs to its allocator, the leak report tells the truth.
* usbcommand, color_mcu: the answer accepted for a command is the answer to that command;
  a handle is the device asked for, or there is none and nothing is held; the host does
  not wait for IMU data of a device that was told to stop.
* usbstreaming: no transfer is used after it was freed, stop returns and leaves silence.
* color: no frame reaches a callback outside start and stop; nothing is used after its
  release; a started stream goes on; frame memory is given back on every path; the
  camera is the device's own; what was set is what is read.
* sdk, logging: a failed open or start undoes exactly what was done; a callback finds its
  device, and a logger its callback, as long as they run.
* C++ API: counts are the number of holders, an owned handle has one owner, images hold
  the pixels their size promises.
* Astra: the stream runs while somebody listens, each listener hears each frame once, a
  frame stays while it is held.

## 2. Modules

| module | models | state and actions |
|---|---|---|
| `DropOldestQueue` | what the queue promises | `fifo`, `on`, `closing`, `out`; push, pop, an empty-handed pop, switch on, switch off, drain |
| `CaptureQueue` | `queue.c` | the fields of `queue_context_t`, the place of each thread, reference counts; one action per critical section |
| `CaptureSync` | `capturesync.c` | the fields of `capturesync_context_t`, the place of each sensor's thread and of the controlling thread, reference counts; one action per stretch between two calls into a queue |
| `CaptureMemory` | `allocator.c`, the life of an image in `image.c` | callbacks and their readers, counters, buffers, images, captures, the references each thread holds |
| `UsbStream` | `usbstreaming.c` | the streaming fields of `usbcmd_context_t`, the lock, the place of each event thread, the life of each transfer, the running callback; one action per access to shared state |
| `UsbDevice` | finding, opening and closing the device in `usbcommand.c` | the locals of the search, what libusb has given out; one action per candidate and per libusb call that may fail |
| `UsbCommand` (extends `UsbDevice`) | `usb_cmd_io` and its callers, `color_mcu.c` | lock, `transaction_id`, each caller's transaction, the device's inbox and pipe; one action per transfer |
| `ColorReader` | what start and stop promise of the sample callback | `on`, `delivering` |
| `FrameMemory` | the memory of color frames | pieces of memory by who will give them back; outcomes of a frame callback |
| `ColorApi` | `color.cpp` and what both readers share | handle, steps each thread has still to take, lock, callback, resources held |
| `UvcReader`, `MfReader` (extend `ColorApi`) | the two camera readers | libuvc's stream; reads, flush, event, `m_flushing`; one action per critical section or wait |
| `Color` | the composition, its fairness and properties | |
| `Exposure`, `ColorControl` | the exposure tables and their maps; getters, setters and capabilities of both readers | the device's controls, `m_using_60hz_power`, `control_cap` |
| `Device` | `zsa.c` | parts made, flags, steps still to take, allocator sessions |
| `Logging` | `logging.cpp` | the registration, the environment's logger, the message each thread delivers |
| `Sdk` | `Device` and `Logging` together | a call stands still while its message is delivered |
| `ImageLayout` | sizes and strides: `image_create`, `image_create_from_buffer`, the frames of both readers | pure operators |
| `CppHandles` (extends `ImageLayout`) | `zsa.hpp` | `m_handle` of every object, counts, contents; one action per member function |
| `AstraStream` | a plugin's stream, its bin and connections | members of `single_bin_stream`, the frame in front, how often it is open |
| `AstraReader` (extends `AstraStream`) | `StreamReader`, `Frame`, the views | members of `ReaderRef`, frame references, the view, the position in a notification |
| `CaptureQueueProofs`, `CaptureSyncProofs`, `CaptureMemoryProofs`, `UsbStreamProofs`, `UsbCommandProofs`, `ColorProofs`, `SdkProofs` | theorems about the module of that name (`ColorProofs`: also `Exposure` and `ColorControl`) | section 5 |
| `CppProofs` | theorems about `ImageLayout`, `CppHandles`, `AstraStream` and `AstraReader` | section 5 |
| `MC...` | | symmetry sets and constants of the instances |

Definitions marked `\* mutant` are deliberate bugs beside the definition they damage;
nothing refers to them. `PROJECT.json` names for every checked property a mutant that
violates it.

**CaptureQueue.** Every function of `queue.c` is one critical section, apart from two
places where the lock is given up: `Condition_Wait` in `queue_pop` and the 25 ms sleep
in `queue_disable`'s loop. So a pop that waits is an entering action
(`QueuePopWaits`), a state in which it may be signalled, time out or wake up
spuriously, and a resuming action (`QueuePopWoken`, `QueuePopTimedOut`); a disable is
one pass of the loop (`DisablePass`) repeated by `DisableContinues`. `queue_stop` sets
its flag in a section of its own before it disables. `Condition_Post` wakes an
arbitrary waiter or nobody. Calls start only while the handle is valid and nobody is
destroying it. `queue_create` is `Init`: its failure paths leave no queue behind.
`dropped_count` feeds a log line and is left out.

**CaptureSync** uses the queues as `DropOldestQueue` describes them (a push or a pop
with no wait is one step), which `CaptureQueue` is checked to implement.
`add_capture` holds the synchronizer's lock from `AddPassed`/`AddStored` to
`MatchEnds`; in between, each iteration of its loop is an action (`MatchDrops`,
`MatchMerges`) followed by one `Refill` per slot that was emptied. The user's
`GetCapture`, the error path (`AddFailed`, `StopQueue`) and `start` do not take the
lock and can come between. Timestamps are small integers with the clamping of
`TS_ADD` and `TS_SUBTRACT` kept; `Unclean` lies beyond ten periods, the limit of
the clean-timestamp test, and beyond every other timestamp. `disable_sync` is the case `sync_captures = FALSE`. A
session starts with cleared clocks, since the camera resets them.

**CaptureMemory.** Reference counts change atomically, and whoever brings one to zero
is alone with the object, so a release, with everything it frees, is one action. Two
operations are split: `allocator_alloc`, between its counter, the callback under the
read lock and the header (`AllocBegins`, `AllocCalls`, `BufferAllocated` ...), and
`capture_get_..._image`, between the release of the lock and the second read of the
slot (`CaptureGetImage`, `CaptureGetReturns`). Images made by
`image_create_from_buffer` here have `allocator_free` as their destroy callback, as
the SDK's own have. `SharedSetters` says whether a slot may be set while another
thread is between those two steps: the SDK's own callers do not, the functions do not
forbid it.

**UsbStream.** `StreamStart` is one action, `StreamStop` two, as the lock is held while
the event thread is joined. The event thread's three loops (set up, serve, cancel) are
actions on its place and index; it publishes a transfer before it is submitted
(`SetupPublishes`, `SetupSubmits`) and reads an entry before it cancels it
(`CancelReads`, `CancelCalls`), since the list has no lock. libusb is external: a
transfer completes at any time with any status, and its callback
(`CallbackBegins` ... `usb_cmd_release_xfr`) runs on the one thread that handles
events, an event thread or a command's (`CommandEvents`). `stream_going` is read twice
in the callback, so its two reads are different steps. Two facts about libusb are
assumed: handling events runs the callbacks of all transfers that have completed, and a
cancelled transfer completes at once; this is how its usbfs backend works. A refused
submit calls nobody back, whatever the comment in the callback says about OVERFLOW.
`Faults` selects what may fail besides transfers themselves; an instance gives the sets
to choose from (`FaultSets`).

**UsbDevice, UsbCommand.** A device on the bus is its vendor and product (ours or not) and
the capabilities of its descriptor. The search goes over the list one candidate per
action, opening and closing each, exactly as far as the code does. `list_index` is a
`uint8_t` and wraps. Every libusb call has a failing alternative; `lib` records what
libusb gave out. A transaction is one action per transfer; each may fail (time out) while
its packet still arrives. The device answers in order, as late as it likes, with data and
a response or with an error status. `IdModulus` stands for 2^32 and
is small so that ids wrap around; `NoAnswerARoundOld` says that a device does not keep an answer for
2^32 failed commands. `usb_cmd_destroy` may come while another thread is between the
transfers of a command, where the lock makes it wait; not before that thread has the
lock (`DestroyDuring`), which no code could survive.

**Color.** A thread is the sequence of steps it has still to take, so that a call that
waits in the middle is several actions. `platform` chooses the reader. In `UvcReader`
`uvc_stop_streaming` waits for libuvc's thread, which may be at `Callback`, waiting for
the mutex; in `MfReader` Stop asks for a flush and waits for the event without the lock,
while `OnReadSample` and `OnFlush` run on two work queue threads in either order.
`errors` says whether the Media Foundation pipeline may report errors: then a callback is
told so outside the lock and `Stop` may time out, and the properties that say so do not
apply. `FrameMemory` lists, for a frame, every combination of steps that fail. The
reference `ColorReader` is refined by both readers, errors included.

**ColorControl.** Controls are grouped by the code path they take. A request may fail at
the device, also the second of two. Values keep the width of the driver's types (`uint16_t`,
`uint8_t`), the exposure time goes through the tables. `Reopen` closes the handle and opens it
again: the device keeps what it was told, the reader starts with its defaults. Its own variables and
specification (`backend`, `ControlSpec`) are named apart from those of `Color`, and those of the Astra
modules (`AstraSpec`) from `CppHandles`', because one proof module extends both.

**Device, Logging, Sdk.** `todo` holds the steps of the call a device's thread is in; a
failing step replaces the rest by those of the failure path. The color reader delivers on
its own thread whenever `ColorReader` allows it. `zsa_device_open` passes a NULL container id at
present, with which `colormcu_create` and `color_create` fail; `ContainerIds` therefore has NULL
and one id, so that both what the code does today and what follows once an id is obtained are
covered. Every thread may log inside a call and then stands still until the
message is delivered. Registering a callback waits for all of them.

**ImageLayout, CppHandles.** `BufferSize` is the size computation of `image_create`; C++'s
`size_t` products do not overflow for sizes an allocation can have, so integers are
unbounded. An object that does not exist is one without a handle. A conversion creates its
image, calls the library and either returns the image or throws, whereupon the destructors
release what was made; `depth_image_to_color_camera_custom` makes two. A default-constructed
transformation has uninitialised resolutions: any value of `Garbage`.

**AstraStream, AstraReader.** Everything runs on the thread that calls `astra_update`, but
a listener may call everything from inside `on_frame_ready`, so a notification is one
action per listener (`turn`). `std::vector::erase(end())` is undefined: the model either
crashes (`NotifyCrashes`) or loses the last element (`Erased`). What the library does
between a plugin and a reader is external and stated at the head of `AstraStream`.

## 3. Runs

| run | instance | shows |
|---|---|---|
| `queue_safety` | 3 consumers, 2 controlling threads, 2 captures, ring of 2, spurious wake-ups, 3 references per capture | `NoLostWakeup`, `DisabledPopAttended`, `DestroyedQuiescent`, `RefsConserved`; the ring implements `DropOldestQueue` |
| `queue_liveness` | 3 consumers, 1 controlling thread, ring of 1, fair | `DisableCompletes`: disable and destroy return, and every blocked consumer comes back |
| `sync_safety` | period 4, delays of both signs, own queues of 1, output queue of 2, timestamps up to 8, fair | `ArrivalOrderKept`, `DeliversPairs`, `NothingStranded`, `RefsMatchHolders` over repeated sessions; `CallsReturn`: add_capture, start and stop come back |
| `memory_safety` | 2 threads, 2 images, 2 buffers, one capture with 2 slots, 2 pairs of callbacks, 1 failure | `FreedByItsAllocator`, `ImageRefsExact`, `NothingDangling`, `BuffersAccounted` |
| `usb_stream` | 2 event threads, 2 transfers, 2 slots, with submits that fail, or allocations, submits and event handling, fair | `TransfersAlive`, `StoppedIsQuiet`, `StopReturns` |
| `usb_command` | 2 callers, ids modulo 4, 5 commands, a bus of four devices and an empty one; 1.1 million states | `AnswerIsOwn`, `DeviceOutlivesCommands`, `StreamingMeansImuOn`, `OpensOneOrNothing` |
| `color` | both readers, 2 callers, 2 driver threads, 2 reads, 1 image kept, fair; 82 thousand states | `NothingUsedAfterRelease`, `StreamNeverStalls`, `FramesGivenBack`, `OwnCamera`; refines `ColorReader`; `CallsReturn` |
| `color_control` | both readers, one control of each kind, values at, between and beyond the ends of the tables and of the types; 100 thousand states | `ReadBack`, `WithinCapabilities` |
| `device` | 2 devices that share the allocator and the logger, 2 messages at a time, three environments; 1 million states | `CallbackFindsDevice`, `FlagTellsRunning`, `ClosedLeavesNothing`, `LoggersStayWhileUsed` |
| `cpp_handles` | 2 objects of each class, 3 image handles, 1 capture handle, layouts on both sides of every refusal; 168 thousand states | `CountsAreHolders`, `OwnedOnce`, `PixelsInBuffer` |
| `astra` | 2 listeners, 2 frame variables, 2 connections, 2 frames, a bin that is exchanged; 2 million states | `HeardOnce`, `StreamFollowsConnections`, `FrameStaysWhileHeld` |
| `astra_listener_kept` | as `astra` | **violated**: a removed listener is called |

*Why the bounds are enough for the cases that matter.* In the queue three consumers
are needed for a post to go to a thread that no longer needs it while another sleeps;
two controllers for a queue enabled again during somebody's disable loop; three
references so that the ring really fills and drops. Both captures may be in the ring
several times. In the synchronizer a queue of one behind each slot makes every
push after the second a dropping one; a step of 3 is within a period of 4 and at the edge
of the window, 9 leaps from the start of a session to its last timestamp; a quarter
period is 1, so the window's edges are distinct from its centre, and the delays put
either sensor first. In the memory model two slots let one image be held twice by one
capture, two threads let a set and a release overlap a get or an allocation. In the
stream the pool is larger than the list, so the list's length is what ends the set-up;
two slots let one transfer be resubmitted while the other is cancelled. Commands: a pipe of
three packets holds the data and the response of a command that timed out and one packet more;
five commands are more than `IdModulus`, so ids wrap. The bus has a foreign device, one of ours
without an id, and two with different ids; `FewDevices` says that a bus lists fewer than 256
devices, beyond which `list_index` would mean several. Color:
two callers let a Stop meet a Start or a second Stop, two driver threads let a flush overtake a
sample; two reads are what a stream restarted before its last read came back has. The
camera lists have the wanted camera alone, behind another device's, and absent beside
cameras whose properties cannot be read. Controls influence each other only through
the power line frequency, so a program uses the exposure, the power line and one more. Device: two devices
share the session count and the logger. C++: two objects and three handles let an object be
assigned while both hold something and a conversion make a third. Astra: two
listeners let one remove the other during its turn; two references let a frame be kept
while the next is announced.

*Deadlock.* `queue_*`, `usb_stream`, `color`, `color_control`, `device` and `cpp_handles` check
it. The other instances reach bounds (the last timestamp, reference, command or frame) at
which nothing is left to do, so their configurations switch the check off.

*Fairness.* In the queue every thread that is inside a call and able to proceed
eventually does, and a timed wait eventually ends: the operating system's scheduler
and `pthread_cond_timedwait` give that. No fairness is assumed of clients: nobody has
to push, pop or disable. A consumer that waits for ever is released only by a post.
In the synchronizer a sensor's thread is strongly fair, because the lock it waits for
is taken over and over by the other sensor's thread, and the operating system lets
every waiter have it eventually; the controlling thread is weakly fair. The
application does not have to take captures for calls to return. In the stream the
event thread is weakly fair, handling events ends (at its timeout, if nothing happens)
and the client's callback returns; nobody has to stop, and no transfer has to complete.
In the color component every thread is strongly fair in the steps of a call it has begun,
because the reader's lock is free between two frames and the system hands it to every
waiter eventually; Media Foundation completes a flush it has accepted. No frame has to arrive,
nobody has to start or stop.

## 4. What the violation means, and other behaviour worth knowing

`astra_listener_kept`: `notify_listeners` moves the elements of `addedListeners_` to
`listeners_` and does not clear `addedListeners_`. A listener that was added inside
`on_frame_ready` is therefore appended again before every later frame: it hears a frame
several times, and goes on hearing frames after `remove_listener`, which "Unregisters the
callback function". `HeardOnce` shows that without such an addition, and without a second
call about a listener whose removal is put off, the two lists do their work.

Visible in the models, outside what the properties claim:

* `queue.c` asserts after `Condition_Wait` that there is data or the queue is shutting
  down. With two consumers, one can take the capture between the post and the moment the
  woken one has the lock again; a build without assertions then returns `SUCCEEDED` with
  a NULL capture. `DropOldestQueue` has the empty-handed pop for it.
* `capture_get_color_image` and its copies read the slot again (`return *image`) after
  they have released the lock. If it is replaced in between, the caller gets an image
  without a reference. `SharedSetters = TRUE` makes it happen; the runs use FALSE, since the
  SDK's own threads fill a capture before they publish it.
* `allocator_alloc` increments the leak counter and does not decrement it when the callback
  returns NULL: `BuffersAccounted` counts the failures on the right-hand side.
* When one transfer cannot be set up, the event thread cancels the earlier ones with
  `stream_going` still true, and one that has just completed is submitted again; after an
  event error the thread clears `stream_going` itself, so that the next start makes a
  second thread and forgets the first. `StoppedIsQuiet` and part of `TransfersAlive` are
  stated for the fault sets without allocation and event failures (`SetupWorks`); `StopReturns` for all.
* `image_create_empty_image` releases a handle whose count is still zero when the
  allocation fails: the count becomes -1 and the handle is never destroyed (`AllocFailed`).
* A transfer whose submit failed stays in the list with its image and is overwritten by
  the next session (`SetupNotSubmitted`).
* When `image_create_from_buffer` fails, both camera readers lose the frame's buffer: its
  caller keeps it (`image.c`), and the branch that would free it belongs to the step
  before. `FramesGivenBack` counts these frames in `lost`.
* After the color handle is closed and opened again the reader believes in 60 Hz while the
  device may have kept 50 Hz, and rounds exposure times with the wrong table. `ReadBack`
  asks for the right one only when the frequency was set through the handle.
* A second `zsa_device_start_cameras` fails and stops the running cameras on its way out;
  `FlagTellsRunning` holds because the flag is cleared as well.
* `zsa_device_open` fails unconditionally at present, because no container id is obtained;
  when its handle cannot be allocated, its allocator session stays open (`lost`).
* The branch of `add_capture` that would set `running` to false at the end of the loop
  cannot be reached, as every branch before it continues.
* `usb_cmd_get_device_count` returns early without giving its context back when the list of
  devices is empty.

## 5. Proofs

All proof modules are checked by tlapm with Z3, Zenon and LS4. The assumptions are those
named in the components' modules, which TLC evaluates in their runs:

* `QueueAssumption`: the depth is in the range `queue_create` accepts, threads are finitely
  many, NULL is not a capture.
* `SyncAssumption`: the period, capacities and steps of the clock are positive, delays are integers.
* `MemoryAssumption`: finite sets, the default callbacks are among the callbacks.
* `StreamAssumption`, `ThreadAssumption`: transfers are finitely many; callers are not workers; the
  values that stand for nobody are not threads, transfers or workers.
* `BusAssumption`, `FewDevices`, `CommandAssumption`: a bus is a list of fewer than 256 devices with
  their descriptors; the controlling thread is a caller; `usb_cmd_destroy` does not come before
  another thread's command has the lock (`DestroyDuring`).
* `CameraAssumption`, `DeviceAssumption`: what a camera's properties can be, and that the device's container
  is a proper id; finitely many devices.
* `CommandsAssumption`: the controls are those of `zsa_color_control_command_t`; a control's limits are
  integers in order, and integers are asked for.
* `HandlesAssumption`: finite sets of objects, camera modes of positive sizes, even ones for NV12.
* `SizesAssumption`, `ConnectionsAssumption`, `OwnAssumption`, `RefsAssumption`: connections and frame
  references are finitely many, the reader's connection is one of them, NULL is not a reference.

The numbers of threads, callers, sensors' captures, images, buffers, slots, transfers, devices, objects
and handles, and all sizes, are arbitrary. Theorems are about `Spec` (`SdkSpec`,
`ControlSpec`, `AstraSpec`), which is what TLC runs or what its fair specifications add fairness to.

`CaptureQueueProofs`:

* `TypeCorrect` (`TypeOK`): both locations stay inside the ring. The lemma
  `IncLocation` replaces the remainder by a case distinction once and for all.
* `BlockedExact` (`BlockedCountExact`, which the proofs below rest on): by induction; each entry and exit of the wait
  changes the count and the set of threads inside by one.
* `NoWakeupIsLost` (`NoLostWakeup`): if somebody waits, there are at least as many woken
  consumers as captures in the ring. This form, with the count, is inductive; the
  obvious one (nobody waits beside a capture) is not, as a woken consumer may find its
  capture taken.
* `BlockedPopIsAttended`, `DestroyIsQuiescent`: from `BlockedExact` and the fact that a
  destroying thread is alone among the controllers (`DestroyerAlone`).
* `RefsAreConserved` (`RefsConserved`): by counting the occurrences of a capture among
  the slots in use before and after each move of a location.
* `RingImplements` (`ImplementsDropOldest`): the ring implements `DropOldestQueue`. The mapping reads
  the sequence off the ring, from the read location on; `ContentsTail` and `ContentsPush` say what moving either
  location does to it. A push into a full ring moves both and is the abstract push that drops the oldest; the
  steps between which the lock is given up are stutters, apart from the one that takes a capture
  (`PopImplements`) or comes back without one (`PassImplements`).

`CaptureMemoryProofs`:

* `FreeMatchesAlloc` (`FreedByItsAllocator`). The inductive invariant `MemoryInv` adds
  what the lock is for: a thread that has a buffer without a header is still a reader
  (`HeaderPending`), so the callbacks cannot have been exchanged. That alone is not
  inductive, because somebody else could free the buffer meanwhile; hence
  `OwnedIsAllocated` and `OneOwner`.
* `NoBufferHasTwoOwners`: `OneOwner` itself, on every path including the failing ones.
* `ImageCountsAreExact`, `ReferencesAreAlive`, `BuffersAreAccounted` (`ImageRefsExact`,
  `NothingDangling`, `BuffersAccounted`), all three with the hypothesis `~SharedSetters`: when a slot
  may be replaced between the two reads of `capture_get_..._image` they are false (section 4).
  The invariant `RefInv` says where every reference is: in how many slots and with how many
  threads, for images and for captures; in which state of an allocation a thread has no image yet;
  and that every counted buffer is out, under way or was refused. Counts alone are not inductive, because
  a count that reaches zero frees the object: it needs that nobody else's reference is left
  uncounted.

`CaptureSyncProofs`, for every period, delay of either sign, capacity and sequence of timestamps:

* `NothingIsStranded`, `PairsAreDelivered` (`NothingStranded`, `DeliversPairs`) from `SyncInv`.
  Besides the types it has the protocol of the lock: who holds it, which slots the holder still
  has to refill, and which queues somebody still has to stop or start. That is needed because the error path
  of `add_capture` stops the queues without the lock, one by one, while a match goes on: between two of
  its steps an empty slot may well have a capture behind it. The arithmetic of `TS_ADD` and `TS_SUBTRACT`
  at zero is in lemmas of its own.
* `ImagesArriveInOrder` (`ArrivalOrderKept`) from `OrderInv`: for each sensor, what the user has seen, the output
  queue, the slot, the sensor's queue, the capture that `add_capture` has just brought and the sensor's
  clock form one increasing line. The invariant as checked is not inductive without the last two.
* `RefsAreHolders` (`RefsMatchHolders`): `RefInv` with `OrderInv`, which says that a new capture's id is
  held nowhere yet. Occurrences in a queue are counted by `Count`, with a lemma for each way a queue changes.

`UsbStreamProofs`:

* `TransfersStayAlive` (`TransfersAlive`). `AliveInv` holds in every fault set: a transfer that a thread has
  published and not submitted is that thread's alone (`FoundInv`), a callback runs for a completed
  transfer (`CallbackInv`), and the image libusb writes into stays (`ImageInv`).
* `StopLeavesQuiet` (`StoppedIsQuiet`). `QuietInv`, for the fault sets of `SetupWorks`, adds that there is one thread,
  and its progress: transfers libusb has lie below the index that setting up has reached and not below the
  one cancelling has reached. At the end of the list none is left. The step over one entry holds only
  because stop keeps the lock while it joins, so that no command handles events and resubmits behind the
  cancelling thread.

`UsbCommandProofs`:

* `AnswersAreOwn` (`AnswerIsOwn`): the packets on the pipe are answers to commands in the order they were
  sent (`InOrder`), and an id tells commands apart that are less than a round old (`IdsTell`); so what
  passes the comparison of ids is the answer of the command that waits, late answers of earlier ones before it or not.
* `DeviceStays` (`DeviceOutlivesCommands`): whoever is inside a transaction has the lock that `usb_cmd_destroy` needs.
* `ImuFollowsHost` (`StreamingMeansImuOn`): `ImuInv` follows a start or stop of the IMU through the device's
  inbox: no stop that was sent is still unread when a start has been answered.
* `CreateOpensOneOrNothing` (`OpensOneOrNothing`): what libusb has given out is what the
  context and the locals of the search know of (`HeldIsKnown`), and the index counts the devices of ours
  already passed (`Counted`), `uint8_t` and all.

`ColorProofs`, for both readers:

* `ReadersImplement` (`ImplementsColorReader`): every step of either reader is a step of
  `ColorReader` or changes neither of its variables, errors included.
* `UsesWhatIsHeld`, `NeverStalls`, `CameraIsOwn` (`NothingUsedAfterRelease`, `StreamNeverStalls`, `OwnCamera`)
  from `ColorInv`: the remainders of a call that a thread can be at (`ShapeInv`), which worker has the lock
  (`LockInv`), what is held as long as it may be needed (`HandleInv`), one Stop at a time in
  `uvc_stop_streaming` (`UvcInv`), and the order of a flush (`MfInv`): requested, carried
  out, answered, reported, while one Stop waits. `MfInv` holds only without pipeline errors, as the properties say.
* `FramesAreGivenBack` (`FramesGivenBack`): every piece of memory is with the callback, its image, the application or lost
  (`MemoryInv`), and only a running callback has any of its own.
* `ControlsReadBack`, `ControlsWithinCapabilities` (`ReadBack`, `WithinCapabilities`) from `ControlInv`: what the device has is
  what the reader sent for the value last asked for (`AskedInv`, with `Units`), under the power line frequency the reader has
  now, which is what `asked` forgets the exposure time for; the device is within its range and only automatic where it
  can be (`DeviceInv`); and cached limits are the device's, converted under the frequency noted with them
  (`CapInv`). Apart from that it is a fact about the table of `color_priv.h`, for all integers: the loops end at
  the nearest row (`FirstIsNearest`), and a row survives the conversion to units of 100 microseconds and back, which
  cuts it off but not down to the row before (`LinuxRow`, with `RowOK` for the 26 entries).

`SdkProofs`:

* `CallbackNeverDangles`, `FlagIsTrue`, `CloseIsComplete` (`CallbackFindsDevice`, `FlagTellsRunning`, `ClosedLeavesNothing`)
  from `DeviceInv`: for each remainder of a call the parts that exist, and sessions of the allocator are
  the devices in use and those lost. A step of one device leaves the others alone.
* `LoggersStay` (`LoggersStayWhileUsed`): a registration waits for those who read; inductive with the types.

`CppProofs`, the C++ API:

* `CreatedImageHoldsItsLines`: what `image_create` accepts gets a buffer that holds every
  line, for all sizes. Products of variables are isolated in `LinesFit`; `ChromaLines`
  shows that the truncating division in the size of NV12 loses nothing, because its height is even.
  `PackedFits`, `PointsFit` and `FramesFit` say the same of the strides the readers and
  the conversions choose.
* `OneOwnerEach` (`OwnedOnce`): inductive together with the types (`OwnedInv`); a new handle is
  one that is not open, a move leaves nothing behind.
* `PixelsStayInBuffers` (`PixelsInBuffer`): `PixelsInv` says that every content that was
  ever stored fits its buffer, also of handles no longer in use, since a handle is reused
  only by storing a new content; that objects have handles of their own class; and that
  resolutions are integers, which is all that is known of uninitialised ones. `image_create`'s
  refusals do the rest.
* `CountsAreExact` (`CountsAreHolders`). A member function takes several library calls, and between them a count is
  ahead of or behind the holders. `Extra` is that difference, each helper of the model has a lemma saying how it shifts
  it, and every action adds up to zero. A capture without references holds no images
  (`Emptied`), so that a release that frees it gives its images back once.

`CppProofs`, the Astra classes:

* `ConnectionsFollowed` (`StreamFollowsConnections`) from `StreamInv`: inductive with the types and with the
  set of connections the stream knows. Each call of the library into the stream has a lemma
  (`StartedFollows`, `RemovedFollows`, `RelinkedFollows`, ...), and a connection that is removed while
  started passes through two of them.
* `FramesStay` (`FrameStaysWhileHeld`) from `FrameInv`: besides the count of locks it says
  that a reference lent to a listener exists exactly during a notification and is the only one of its kind
  (`RefsInv`), that there is a stream while a frame is ready or open (`LocksInv`), and that a view's frame is open (`ViewInv`).
* `ListenersHearOnce` (`HeardOnce`) from `ListenersInv`: while nothing disturbed the lists, they are without duplicates,
  what is to be removed is in the list, and nothing is added while a notification runs. `Lists`, the list
  after a number of the erasures of `notify_listeners`, is a recursive function; that it loses exactly the elements to be removed
  and reaches no `erase(end())` is shown by looking at the least number for which it fails (`Smallest`).

Only model-checked, because the prover has no rule for liveness under fairness: `DisableCompletes`, `CallsReturn`
of the synchronizer and of the color component, `StopReturns`. Every invariant and both refinements
that the passing runs check are theorems as well.

## 6. Not modelled

* `comcommand`: a copy of `usbcommand` for a serial port; its search, commands and
  transfers are stubs that return without doing anything, and it is not called.
* `laser_mcu`: a copy of `color_mcu` that is not built.
* `math`: floating-point vector arithmetic, which TLA+ integers do not express; for the same
  reason the calibration functions of `zsa.hpp`.
* `rwlock`, `global`: wrappers around the system's lock and `pthread_once`, idealised in
  their users.
* Fields that are written and read and decide nothing: image metadata, temperature, serial
  number, firmware version, KS metadata of samples, parameters of Astra streams. Log formatting.
* The `_with_status` variants of commands, which hand the device's status to a caller that
  does not exist.
* A stream callback that sends a command, and a message callback that registers another:
  each waits for a lock its caller holds; no callback of this repository does it.
* Third-party code under `extern/`, the Astra library, libusb, libuvc, Media Foundation: modelled
  as far as the code uses them, and marked external in the map.

The depth sensor has no producer in `zsa.c` yet; `CaptureSync` models it because
`capturesync.c` handles it.

## 7. Plan

Done, in this order: `CaptureQueue` with `DropOldestQueue`, `CaptureSync`, `CaptureMemory`; `UsbStream`; `UsbCommand` with `UsbDevice`; the color component with
`ColorReader`; `ColorControl`; `Device`, `Logging` and their composition; `CppHandles` with
`ImageLayout`; the Astra classes.

The theorems of all components followed: every invariant and every refinement of the passing runs
is proved for all values of the constants.

Left: the depth sensor, once `zsa.c` has one; liveness, once the prover has rules for it.
