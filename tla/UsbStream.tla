----------------------------- MODULE UsbStream -----------------------------
(***************************************************************************)
(* Streaming over libusb: src/src/usbcommand/usbstreaming.c.               *)
(*                                                                         *)
(* usb_cmd_stream_start makes an event thread, which submits the transfers *)
(* and then serves libusb until stream_going is cleared; usb_cmd_stream_   *)
(* stop clears it and joins the thread, all of it with the command lock.   *)
(* libusb runs the callback of a completed transfer on whichever thread is *)
(* handling its events: the event thread, or a thread that waits for the   *)
(* answer to a command.                                                    *)
(***************************************************************************)
EXTENDS Integers, FiniteSets

CONSTANTS
  Threads,     \* event threads
  Transfers,   \* usb_async_transfer_data_t together with its bulk_transfer
  Slots,       \* USB_CMD_MAX_XFR_COUNT
  Pool,        \* how many transfers of stream_size fit into the memory pool
  FaultSets,   \* sets of what may fail in a run: "alloc", "submit", "events"
  None

ASSUME StreamAssumption ==
  /\ Slots \in Nat /\ Pool \in Nat
  /\ IsFiniteSet(Transfers)
  /\ FaultSets \subseteq SUBSET {"alloc", "submit", "events"}
  /\ None \notin Threads \cup Transfers \cup {"stop", "command"}
  /\ "command" \notin Threads

VARIABLES
  faults,        \* what may fail in this run
  stream_going, stream_handle, transfer_list,  \* usbcmd_context_t
  lock,          \* who holds usbcmd->lock: the user in stop, a command, nobody
  thread,        \* where each event thread is
  transfer,      \* each transfer: its life, list_index, image and status
  handler,       \* the thread inside libusb_handle_events
  cb             \* the transfer whose callback it is running, and where that is

context == <<stream_going, stream_handle, transfer_list>>
vars == <<faults, context, lock, thread, transfer, handler, cb>>

Indices == 0 .. Slots - 1
Command == "command"
Free == [at |-> "free", list_index |-> 0, image |-> FALSE, status |-> None]
NoThread == [at |-> "none", i |-> 0, found |-> None, result |-> "SUCCEEDED"]
NoCallback == [of |-> None, at |-> "none"]

(* The thread's place, its index into the list, the transfer it has just   *)
(* put or found there, and its result.                                     *)
Goto(t, at, i) ==
  thread' = [thread EXCEPT ![t].at = at, ![t].i = i, ![t].found = None]

Fail(t, at, i) ==
  thread' = [thread EXCEPT ![t] = [at |-> at, i |-> i, found |-> None, result |-> "FAILED"]]

Init ==
  /\ faults \in FaultSets
  /\ stream_going = FALSE
  /\ stream_handle = None
  /\ transfer_list = [i \in Indices |-> None]
  /\ lock = None
  /\ thread = [t \in Threads |-> NoThread]
  /\ transfer = [x \in Transfers |-> Free]
  /\ handler = None
  /\ cb = NoCallback

-----------------------------------------------------------------------------
(* usb_cmd_stream_start and usb_cmd_stream_stop                            *)

NotGoing == ~stream_going

(* Bound: the instance has transfers enough for another session. *)
EnoughTransfers == Cardinality({x \in Transfers : transfer[x].at = "free"}) >= Slots

(* A start that is refused, or cannot make the thread, changes nothing.    *)
StreamStart(t) ==
  /\ lock = None
  /\ NotGoing /\ EnoughTransfers
  /\ thread[t].at = "none"
  /\ stream_going' = TRUE
  /\ stream_handle' = t
  /\ thread' = [thread EXCEPT ![t] = [NoThread EXCEPT !.at = "setup"]]
  /\ UNCHANGED <<transfer_list, lock, transfer, handler, cb>>

(* The lock is held while the thread is joined. *)
StopLocks == lock' = "stop"

StreamStop ==
  /\ lock = None
  /\ stream_going' = FALSE
  /\ IF stream_handle = None THEN UNCHANGED lock ELSE StopLocks
  /\ UNCHANGED <<stream_handle, transfer_list, thread, transfer, handler, cb>>

Joined(t) == thread[t].at = "exited"

StopJoins ==
  /\ lock = "stop"
  /\ Joined(stream_handle)
  /\ thread' = [thread EXCEPT ![stream_handle] = NoThread]
  /\ stream_handle' = None
  /\ lock' = None
  /\ UNCHANGED <<stream_going, transfer_list, transfer, handler, cb>>

-----------------------------------------------------------------------------
(* A command: its synchronous transfers handle the events of the same      *)
(* libusb context, with the lock held.                                     *)

CommandBegins ==
  /\ lock = None
  /\ lock' = Command
  /\ UNCHANGED <<context, thread, transfer, handler, cb>>

CommandEvents ==
  /\ lock = Command
  /\ handler = None
  /\ handler' = Command
  /\ UNCHANGED <<context, lock, thread, transfer, cb>>

CommandEnds ==
  /\ lock = Command
  /\ handler # Command
  /\ lock' = None
  /\ UNCHANGED <<context, thread, transfer, handler, cb>>

-----------------------------------------------------------------------------
(* The event thread: setting up the transfers                              *)

SetupLoop(t) == thread[t].at = "setup" /\ thread[t].i < Slots /\ thread[t].i < Pool

SetupPublishes(t, x) ==
  /\ SetupLoop(t)
  /\ transfer[x].at = "free"
  /\ transfer' = [transfer EXCEPT ![x] =
                    [Free EXCEPT !.at = "allocated", !.list_index = thread[t].i]]
  /\ transfer_list' = [transfer_list EXCEPT ![thread[t].i] = x]
  /\ thread' = [thread EXCEPT ![t].at = "submit", ![t].found = x]
  /\ UNCHANGED <<stream_going, stream_handle, lock, handler, cb>>

(* The transfer cannot be allocated, or its size does not fit an int.      *)
SetupAllocFails(t) ==
  /\ SetupLoop(t)
  /\ "alloc" \in faults
  /\ transfer_list' = [transfer_list EXCEPT ![thread[t].i] = None]
  /\ Fail(t, "cancel", 0)
  /\ UNCHANGED <<stream_going, stream_handle, lock, transfer, handler, cb>>

(* An image or a bulk transfer cannot be allocated, or the first submit    *)
(* fails: the loop ends, and the event loop is left out.                   *)
SetupFails(t) ==
  /\ thread[t].at = "submit"
  /\ "alloc" \in faults \/ ("submit" \in faults /\ thread[t].i = 0)
  /\ transfer' = [transfer EXCEPT ![thread[t].found] = Free]
  /\ transfer_list' = [transfer_list EXCEPT ![thread[t].i] = None]
  /\ Fail(t, "cancel", 0)
  /\ UNCHANGED <<stream_going, stream_handle, lock, handler, cb>>

SetupSubmits(t) ==
  /\ thread[t].at = "submit"
  /\ transfer' = [transfer EXCEPT ![thread[t].found].at = "submitted",
                                  ![thread[t].found].image = TRUE]
  /\ Goto(t, "setup", thread[t].i + 1)
  /\ UNCHANGED <<context, lock, handler, cb>>

(* A later submit fails: the transfer stays in the list, and the loop goes *)
(* on.  libusb calls nobody back for a transfer it has not accepted.       *)
SetupNotSubmitted(t) ==
  /\ thread[t].at = "submit"
  /\ "submit" \in faults /\ thread[t].i > 0
  /\ transfer' = [transfer EXCEPT ![thread[t].found].image = TRUE]
  /\ Goto(t, "setup", thread[t].i + 1)
  /\ UNCHANGED <<context, lock, handler, cb>>

SetupEnds(t) ==
  /\ thread[t].at = "setup" /\ ~SetupLoop(t)
  /\ Goto(t, "loop", 0)
  /\ UNCHANGED <<context, lock, transfer, handler, cb>>

-----------------------------------------------------------------------------
(* The event thread: the event loop, and cancelling what is left           *)

LoopForever == FALSE                                             \* mutant

LoopDone == ~stream_going

LoopEvents(t) ==
  /\ thread[t].at = "loop" /\ stream_going
  /\ handler = None
  /\ handler' = t
  /\ UNCHANGED <<context, lock, thread, transfer, cb>>

LoopEnds(t) ==
  /\ thread[t].at = "loop" /\ handler # t
  /\ LoopDone
  /\ Goto(t, "cancel", 0)
  /\ UNCHANGED <<context, lock, transfer, handler, cb>>

CancelReads(t) ==
  /\ thread[t].at = "cancel" /\ thread[t].i < Slots
  /\ IF transfer_list[thread[t].i] = None
     THEN Goto(t, "cancel", thread[t].i + 1)
     ELSE thread' = [thread EXCEPT ![t].at = "cancelling",
                                   ![t].found = transfer_list[thread[t].i]]
  /\ UNCHANGED <<context, lock, transfer, handler, cb>>

CancelOnly(t) == Goto(t, "cancel", thread[t].i + 1)              \* mutant

(* After each cancellation the library is served once. *)
CancelThenServe(t) == Goto(t, "serve", thread[t].i)

(* libusb_cancel_transfer does nothing for a transfer that is not, or no   *)
(* longer, submitted.                                                      *)
CancelCalls(t) ==
  /\ thread[t].at = "cancelling"
  /\ transfer' = [x \in Transfers |->
       IF x = thread[t].found /\ transfer[x].at = "submitted"
       THEN [transfer[x] EXCEPT !.at = "done", !.status = "CANCELLED"]
       ELSE transfer[x]]
  /\ CancelThenServe(t)
  /\ UNCHANGED <<context, lock, handler, cb>>

CancelEvents(t) ==
  /\ thread[t].at = "serve"
  /\ handler = None
  /\ handler' = t
  /\ UNCHANGED <<context, lock, thread, transfer, cb>>

(* While another thread handles the events, this one only waits for it, or *)
(* for the timeout.                                                        *)
CancelWaits(t) ==
  /\ thread[t].at = "serve"
  /\ handler \notin {None, t}
  /\ Goto(t, "cancel", thread[t].i + 1)
  /\ UNCHANGED <<context, lock, transfer, handler, cb>>

CancelEnds(t) ==
  /\ thread[t].at = "cancel" /\ thread[t].i = Slots
  /\ Goto(t, "exited", 0)
  /\ UNCHANGED <<context, lock, transfer, handler, cb>>

-----------------------------------------------------------------------------
(* libusb: transfers complete at any time, in any order.  Handling events  *)
(* runs the callbacks of all that have completed, which includes those     *)
(* cancelled before, and returns when there are none left or at its        *)
(* timeout.  (With usbfs a cancelled URB can be reaped as soon as the      *)
(* cancellation returns, and the library reaps until nothing is left.)     *)

Complete(x, status) ==
  /\ transfer[x].at = "submitted"
  /\ transfer' = [transfer EXCEPT ![x].at = "done", ![x].status = status]
  /\ UNCHANGED <<context, lock, thread, handler, cb>>

EventsReturn ==
  /\ handler # None
  /\ cb = NoCallback
  /\ \A x \in Transfers : transfer[x].at # "done"
  /\ IF handler \in Threads /\ thread[handler].at = "serve"
     THEN Goto(handler, "cancel", thread[handler].i + 1)
     ELSE UNCHANGED thread
  /\ handler' = None
  /\ UNCHANGED <<context, lock, transfer, cb>>

(* An error ends the event loop; while cancelling it is only logged.       *)
EventsFail ==
  /\ "events" \in faults
  /\ handler \in Threads
  /\ cb = NoCallback
  /\ IF thread[handler].at = "serve"
     THEN /\ Fail(handler, "cancel", thread[handler].i + 1)
          /\ UNCHANGED stream_going
     ELSE /\ Fail(handler, "loop", 0)
          /\ stream_going' = FALSE
  /\ handler' = None
  /\ UNCHANGED <<stream_handle, transfer_list, lock, transfer, cb>>

-----------------------------------------------------------------------------
(* usb_cmd_libusb_cb                                                       *)

(* The status and stream_going decide whether a frame is delivered to the  *)
(* client, the transfer only used again, or neither.                       *)
CallbackBegins(x) ==
  /\ handler # None
  /\ cb = NoCallback
  /\ transfer[x].at = "done"
  /\ cb' = [of |-> x,
            at |-> IF ~stream_going \/ transfer[x].status \notin {"COMPLETED", "TIMED_OUT"}
                   THEN "fail"
                   ELSE IF transfer[x].status = "COMPLETED" THEN "deliver" ELSE "reuse"]
  /\ UNCHANGED <<context, lock, thread, transfer, handler>>

CallbackDelivered ==
  /\ cb.at = "deliver"
  /\ cb' = [cb EXCEPT !.at = "reuse"]
  /\ UNCHANGED <<context, lock, thread, transfer, handler>>

(* The image is released; a new one is allocated and submitted ...         *)
CallbackResubmits ==
  /\ cb.at = "reuse"
  /\ transfer' = [transfer EXCEPT ![cb.of].at = "submitted", ![cb.of].status = None]
  /\ cb' = NoCallback
  /\ UNCHANGED <<context, lock, thread, handler>>

(* ... or not.                                                             *)
CallbackResubmitFails ==
  /\ cb.at = "reuse"
  /\ faults \cap {"alloc", "submit"} # {}
  /\ transfer' = [transfer EXCEPT ![cb.of].image = FALSE]
  /\ cb' = [cb EXCEPT !.at = "fail"]
  /\ UNCHANGED <<context, lock, thread, handler>>

(* The client hears of an error while streaming, unless it is expected.    *)
Expected == {"CANCELLED", "OVERFLOW"}

CallbackReports ==
  /\ cb.at = "fail"
  /\ stream_going /\ transfer[cb.of].status \notin Expected
  /\ cb' = [cb EXCEPT !.at = "report"]
  /\ UNCHANGED <<context, lock, thread, transfer, handler>>

ClearNever(x) ==                                                 \* mutant
  UNCHANGED transfer_list

(* The list forgets the transfer, if it has not been given another one.    *)
ClearEntry(x) ==
  LET i == transfer[x].list_index
  IN  transfer_list' =
        IF transfer_list[i] = x THEN [transfer_list EXCEPT ![i] = None] ELSE transfer_list

usb_cmd_release_xfr ==
  /\ \/ cb.at = "report"
     \/ cb.at = "fail" /\ ~(stream_going /\ transfer[cb.of].status \notin Expected)
  /\ ClearEntry(cb.of)
  /\ transfer' = [transfer EXCEPT ![cb.of] = Free]
  /\ cb' = NoCallback
  /\ UNCHANGED <<stream_going, stream_handle, lock, thread, handler>>

-----------------------------------------------------------------------------
EventThread(t) ==
  \/ \E x \in Transfers : SetupPublishes(t, x)
  \/ SetupAllocFails(t)
  \/ SetupFails(t)
  \/ SetupSubmits(t)
  \/ SetupNotSubmitted(t)
  \/ SetupEnds(t)
  \/ LoopEvents(t)
  \/ LoopEnds(t)
  \/ CancelReads(t)
  \/ CancelCalls(t)
  \/ CancelEvents(t)
  \/ CancelWaits(t)
  \/ CancelEnds(t)

Events ==
  \/ EventsReturn
  \/ EventsFail
  \/ \E x \in Transfers : CallbackBegins(x)
  \/ CallbackDelivered
  \/ CallbackResubmits
  \/ CallbackResubmitFails
  \/ CallbackReports
  \/ usb_cmd_release_xfr

Steps ==
  \/ \E t \in Threads : StreamStart(t)
  \/ StreamStop
  \/ StopJoins
  \/ CommandBegins
  \/ CommandEvents
  \/ CommandEnds
  \/ \E t \in Threads : EventThread(t)
  \/ \E x \in Transfers, s \in {"COMPLETED", "TIMED_OUT", "ERROR", "OVERFLOW"} :
       Complete(x, s)
  \/ Events

Next == Steps /\ UNCHANGED faults

Spec == Init /\ [][Next]_vars

(* The scheduler runs the event thread, handling events ends at its        *)
(* timeout, the client's callback returns, and so does a join.             *)
Fairness ==
  /\ \A t \in Threads : WF_vars(EventThread(t) /\ UNCHANGED faults)
  /\ WF_vars(Events /\ UNCHANGED faults)
  /\ WF_vars(StopJoins /\ UNCHANGED faults)

FairSpec == Spec /\ Fairness

-----------------------------------------------------------------------------
(* Properties                                                              *)

(* No entry of transfer_list outlives its transfer, which would be         *)
(* cancelled after it was freed, and libusb has no transfer that was       *)
(* freed or has lost the image it writes into.                             *)
NothingDangling ==
  /\ \A i \in Indices : transfer_list[i] # None =>
       /\ transfer[transfer_list[i]].at # "free"
       /\ transfer[transfer_list[i]].list_index = i
  /\ \A x \in Transfers : transfer[x].at = "submitted" => transfer[x].image

(* Every transfer of the run can be set up and no event call fails. When   *)
(* one does, stream_going stays set while the thread gives up by itself,   *)
(* and the properties below that name SetupWorks are known not to hold.    *)
SetupWorks == faults \subseteq {"submit"}

(* Between the moment the cancelling thread finds a transfer in the list   *)
(* and the moment it cancels it, nobody releases the transfer: the lock    *)
(* that stop holds keeps every other handler of events out.  A thread that *)
(* gave up by itself (its result is FAILED) has no such protection.        *)
CancelsOnlyLiving ==
  SetupWorks => \A t \in Threads :
    thread[t].at = "cancelling" /\ thread[t].result = "SUCCEEDED" =>
      transfer[thread[t].found].at # "free"

(* Nobody uses a transfer that was freed: not the list, not libusb, and    *)
(* not the thread that cancels what it found in the list.                  *)
TransfersAlive == NothingDangling /\ CancelsOnlyLiving

Stopped == ~stream_going /\ stream_handle = None

(* "This function will block until the stream is stopped": when stop has   *)
(* returned, libusb has none of the transfers any more (usb_cmd_destroy    *)
(* frees what their callback uses next), no callback is running, so the    *)
(* client gets no frame and no error afterwards, and there is no thread:   *)
(* "This function is the only place that kills the thread so this should   *)
(* be safe", for the thread it joins is at any time the only one there is. *)
StoppedIsQuiet ==
  SetupWorks =>
    /\ \A t \in Threads : thread[t].at # "none" => stream_handle = t
    /\ Stopped => /\ \A x \in Transfers : transfer[x].at \in {"free", "allocated"}
                  /\ cb = NoCallback

(* Stop returns: the thread notices, and its cancel loop ends.             *)
StopReturns == lock = "stop" ~> lock # "stop"

=============================================================================
