-------------------------- MODULE UsbStreamProofs ---------------------------
(***************************************************************************)
(* Proofs about streaming over libusb: nobody uses a transfer that was     *)
(* freed, and when usb_cmd_stream_stop has returned, libusb has none of    *)
(* the transfers and there is no thread and no callback.                   *)
(*                                                                         *)
(* The second needs to know how far the thread has come: the transfers     *)
(* libusb has are in the list below the index that setting up has reached, *)
(* and not below the index that cancelling has reached.                    *)
(***************************************************************************)
EXTENDS UsbStream, TLAPS

Cancel == {"cancel", "cancelling", "serve"}
Statuses == {"COMPLETED", "TIMED_OUT", "ERROR", "OVERFLOW"}

ThreadType ==
  [at : {"none", "setup", "submit", "loop", "exited"} \cup Cancel, i : Nat,
   found : Transfers \cup {None}, result : {"SUCCEEDED", "FAILED"}]

TransferType ==
  [at : {"free", "allocated", "submitted", "done"}, list_index : Nat, image : BOOLEAN,
   status : {None, "CANCELLED"} \cup Statuses]

StreamTypes ==
  /\ stream_going \in BOOLEAN
  /\ stream_handle \in Threads \cup {None}
  /\ transfer_list \in [Indices -> Transfers \cup {None}]
  /\ lock \in {None, "stop", Command}
  /\ thread \in [Threads -> ThreadType]
  /\ transfer \in [Transfers -> TransferType]
  /\ handler \in Threads \cup {None, Command}
  /\ cb \in [of : Transfers \cup {None}, at : {"none", "deliver", "reuse", "fail", "report"}]

(* libusb has the transfer, or has its callback to run.                    *)
Live(x) == transfer[x].at \in {"submitted", "done"}

(* The transfer a thread has just put in the list is that thread's alone.  *)
FoundInv ==
  \A t \in Threads :
    /\ thread[t].at = "submit" =>
         /\ thread[t].found \in Transfers /\ thread[t].i \in Indices
         /\ transfer[thread[t].found].at = "allocated"
         /\ transfer[thread[t].found].list_index = thread[t].i
         /\ \A u \in Threads : thread[u].at = "submit" /\ thread[u].found = thread[t].found => u = t
    /\ thread[t].at = "cancelling" => thread[t].found \in Transfers

(* A callback runs for a completed transfer, in a thread that handles      *)
(* events.                                                                 *)
CallbackInv ==
  /\ cb.of = None <=> cb.at = "none"
  /\ cb.of # None => transfer[cb.of].at = "done" /\ handler # None
  /\ handler \in Threads => thread[handler].at \in {"loop", "serve"}
  /\ handler = Command => lock = Command

(* What libusb writes into stays until the callback gives it up.           *)
ImageInv ==
  \A x \in Transfers :
    /\ transfer[x].at = "submitted" => transfer[x].image
    /\ transfer[x].at = "done" /\ (cb.of # x \/ cb.at \in {"deliver", "reuse"}) => transfer[x].image
    /\ transfer[x].at # "free" => transfer[x].list_index \in Indices

AliveInv == StreamTypes /\ NothingDangling /\ FoundInv /\ CallbackInv /\ ImageInv

(* One thread at a time, and who may have cleared stream_going.            *)
OneThread ==
  /\ \A t \in Threads : thread[t].at # "none" => stream_handle = t
  /\ ~stream_going /\ lock # "stop" => stream_handle = None
  /\ lock = "stop" => ~stream_going /\ stream_handle # None
  /\ \A t \in Threads :
       /\ thread[t].at \in {"setup", "submit", "loop"} => thread[t].result = "SUCCEEDED"
       /\ thread[t].at \in Cancel \cup {"exited"} /\ thread[t].result = "SUCCEEDED" => ~stream_going

(* Every live transfer is in the list, and how far the thread has come.    *)
Progress(t) ==
  /\ thread[t].at \in {"setup", "submit"} =>
       \A x \in Transfers : Live(x) => transfer[x].list_index < thread[t].i
  /\ thread[t].at = "submit" => transfer_list[thread[t].i] = thread[t].found
  /\ thread[t].at \in Cancel =>
       \A x \in Transfers : Live(x) => thread[t].i <= transfer[x].list_index
  /\ thread[t].at = "cancelling" /\ thread[t].result = "SUCCEEDED" =>
       transfer_list[thread[t].i] = thread[t].found
  /\ thread[t].at = "cancelling" => thread[t].i \in Indices
  /\ thread[t].at = "serve" =>
       /\ \A x \in Transfers : Live(x) /\ transfer[x].list_index = thread[t].i => transfer[x].at = "done"
       /\ thread[t].result = "SUCCEEDED" => cb.at \in {"none", "fail"}
  /\ \/ thread[t].at = "exited"
     \/ thread[t].at \in Cancel /\ thread[t].result = "FAILED"
     => \A x \in Transfers : ~Live(x)

ListInv ==
  /\ \A x \in Transfers : Live(x) => transfer_list[transfer[x].list_index] = x
  /\ stream_handle = None => \A x \in Transfers : ~Live(x)

QuietInv == SetupWorks => OneThread /\ ListInv /\ \A t \in Threads : Progress(t)

StreamInv == AliveInv /\ QuietInv

-----------------------------------------------------------------------------
(* Types                                                                   *)

LEMMA TypesInit == Init => StreamTypes
<1> SUFFICES ASSUME Init PROVE StreamTypes
  OBVIOUS
<1>1. NoThread \in ThreadType /\ Free \in TransferType
  BY DEF NoThread, ThreadType, Free, TransferType
<1>2. cb \in [of : Transfers \cup {None}, at : {"none", "deliver", "reuse", "fail", "report"}]
  BY DEF Init, NoCallback
<1> QED
  BY <1>1, <1>2 DEF Init, StreamTypes

(* What the steps do to the thread and to the transfers.                   *)
LEMMA GotoType ==
  ASSUME StreamTypes, NEW t \in Threads, NEW i \in Nat,
         NEW at \in {"none", "setup", "submit", "loop", "exited"} \cup Cancel,
         Goto(t, at, i) \/ Fail(t, at, i)
  PROVE  thread' \in [Threads -> ThreadType]
BY DEF StreamTypes, Goto, Fail, ThreadType

LEMMA TransferUpdates ==
  ASSUME StreamTypes, NEW x
  PROVE  /\ [transfer EXCEPT ![x].at = "submitted", ![x].image = TRUE] \in [Transfers -> TransferType]
         /\ [transfer EXCEPT ![x].at = "submitted", ![x].status = None] \in [Transfers -> TransferType]
<1> DEFINE f == [transfer EXCEPT ![x].at = "submitted", ![x].image = TRUE]
           g == [transfer EXCEPT ![x].at = "submitted", ![x].status = None]
<1>1. CASE x \in Transfers
  <2>1. transfer[x] \in TransferType
    BY <1>1 DEF StreamTypes
  <2>2. /\ [transfer[x] EXCEPT !.at = "submitted", !.image = TRUE] \in TransferType
        /\ [transfer[x] EXCEPT !.at = "submitted", !.status = None] \in TransferType
    BY <2>1 DEF TransferType
  <2>3. /\ f = [transfer EXCEPT ![x] = [transfer[x] EXCEPT !.at = "submitted", !.image = TRUE]]
        /\ g = [transfer EXCEPT ![x] = [transfer[x] EXCEPT !.at = "submitted", !.status = None]]
    BY <1>1 DEF StreamTypes
  <2> HIDE DEF f, g
  <2>4. f \in [Transfers -> TransferType] /\ g \in [Transfers -> TransferType]
    BY <1>1, <2>2, <2>3 DEF StreamTypes
  <2> QED
    BY <2>4 DEF f, g
<1>2. CASE x \notin Transfers
  <2>1. f = transfer /\ g = transfer
    BY <1>2 DEF StreamTypes
  <2> QED
    BY <2>1 DEF StreamTypes
<1> QED
  BY <1>1, <1>2

LEMMA TypesStep == StreamTypes /\ Steps => StreamTypes'
<1> SUFFICES ASSUME StreamTypes, Steps PROVE StreamTypes'
  OBVIOUS
<1> USE DEF context
<1>1. ASSUME NEW t \in Threads, StreamStart(t) PROVE StreamTypes'
  <2>1. [NoThread EXCEPT !.at = "setup"] \in ThreadType
    BY DEF NoThread, ThreadType
  <2> QED
    BY <1>1, <2>1 DEF StreamStart, StreamTypes
<1>2. CASE StreamStop
  BY <1>2 DEF StreamStop, StopLocks, StreamTypes
<1>3. CASE StopJoins
  <2>1. NoThread \in ThreadType
    BY DEF NoThread, ThreadType
  <2> QED
    BY <1>3, <2>1 DEF StopJoins, StreamTypes
<1>4. CASE CommandBegins \/ CommandEvents \/ CommandEnds
  BY <1>4 DEF CommandBegins, CommandEvents, CommandEnds, StreamTypes
<1>5. ASSUME NEW t \in Threads, NEW x \in Transfers, SetupPublishes(t, x) PROVE StreamTypes'
  <2>1. thread[t] \in ThreadType /\ thread[t].i \in Nat /\ thread[t].i \in Indices
    BY <1>5, StreamAssumption DEF StreamTypes, ThreadType, SetupPublishes, SetupLoop, Indices
  <2>2. [Free EXCEPT !.at = "allocated", !.list_index = thread[t].i] \in TransferType
    BY <2>1 DEF Free, TransferType
  <2>3. thread' \in [Threads -> ThreadType]
    <3>1. [thread[t] EXCEPT !.at = "submit", !.found = x] \in ThreadType
      BY <2>1 DEF ThreadType
    <3>2. thread' = [thread EXCEPT ![t] = [thread[t] EXCEPT !.at = "submit", !.found = x]]
      BY <1>5 DEF SetupPublishes, StreamTypes
    <3> QED
      BY <3>1, <3>2 DEF StreamTypes
  <2> QED
    BY <1>5, <2>1, <2>2, <2>3 DEF SetupPublishes, StreamTypes
<1>6. ASSUME NEW t \in Threads, SetupAllocFails(t) PROVE StreamTypes'
  <2>1. thread' \in [Threads -> ThreadType]
    BY <1>6, GotoType DEF SetupAllocFails, Cancel
  <2> QED
    BY <1>6, <2>1 DEF SetupAllocFails, StreamTypes
<1>7. ASSUME NEW t \in Threads, SetupFails(t) PROVE StreamTypes'
  <2>1. thread' \in [Threads -> ThreadType]
    BY <1>7, GotoType DEF SetupFails, Cancel
  <2>2. Free \in TransferType
    BY DEF Free, TransferType
  <2> QED
    BY <1>7, <2>1, <2>2 DEF SetupFails, StreamTypes
<1>8. ASSUME NEW t \in Threads, SetupSubmits(t) \/ SetupNotSubmitted(t) PROVE StreamTypes'
  <2>0. thread[t].i + 1 \in Nat
    BY DEF StreamTypes, ThreadType
  <2>1. thread' \in [Threads -> ThreadType]
    BY <1>8, <2>0, GotoType DEF SetupSubmits, SetupNotSubmitted
  <2>2. transfer' \in [Transfers -> TransferType]
    <3>1. CASE SetupSubmits(t)
      BY <3>1, TransferUpdates DEF SetupSubmits
    <3>2. CASE SetupNotSubmitted(t)
      BY <3>2, ZenonT(40) DEF SetupNotSubmitted, StreamTypes, TransferType
    <3> QED
      BY <1>8, <3>1, <3>2
  <2> QED
    BY <1>8, <2>1, <2>2 DEF SetupSubmits, SetupNotSubmitted, StreamTypes
<1>9. ASSUME NEW t \in Threads,
             SetupEnds(t) \/ LoopEnds(t) \/ CancelWaits(t) \/ CancelEnds(t)
      PROVE  StreamTypes'
  <2>0. thread[t].i + 1 \in Nat
    BY DEF StreamTypes, ThreadType
  <2>1. thread' \in [Threads -> ThreadType]
    BY <1>9, <2>0, GotoType DEF SetupEnds, LoopEnds, CancelWaits, CancelEnds, Cancel
  <2> QED
    BY <1>9, <2>1 DEF SetupEnds, LoopEnds, CancelWaits, CancelEnds, StreamTypes
<1>10. ASSUME NEW t \in Threads, LoopEvents(t) \/ CancelEvents(t) PROVE StreamTypes'
  BY <1>10 DEF LoopEvents, CancelEvents, StreamTypes
<1>11. ASSUME NEW t \in Threads, CancelReads(t) PROVE StreamTypes'
  <2>0. thread[t].i + 1 \in Nat /\ thread[t].i \in Indices
    BY <1>11, StreamAssumption DEF StreamTypes, ThreadType, CancelReads, Indices
  <2>1. CASE transfer_list[thread[t].i] = None
    <3>1. thread' \in [Threads -> ThreadType]
      BY <1>11, <2>0, <2>1, GotoType DEF CancelReads, Cancel
    <3> QED
      BY <1>11, <3>1 DEF CancelReads, StreamTypes
  <2>2. CASE transfer_list[thread[t].i] # None
    <3>1. thread' \in [Threads -> ThreadType]
      BY <1>11, <2>0, <2>2 DEF CancelReads, Cancel, StreamTypes, ThreadType
    <3> QED
      BY <1>11, <3>1 DEF CancelReads, StreamTypes
  <2> QED
    BY <2>1, <2>2
<1>12. ASSUME NEW t \in Threads, CancelCalls(t) PROVE StreamTypes'
  <2>0. thread[t].i \in Nat
    BY DEF StreamTypes, ThreadType
  <2>1. thread' \in [Threads -> ThreadType]
    BY <1>12, <2>0, GotoType DEF CancelCalls, CancelThenServe, Cancel
  <2>2. transfer' \in [Transfers -> TransferType]
    BY <1>12, ZenonT(40) DEF CancelCalls, StreamTypes, TransferType
  <2> QED
    BY <1>12, <2>1, <2>2 DEF CancelCalls, StreamTypes
<1>13. ASSUME NEW x \in Transfers, NEW s \in Statuses, Complete(x, s) PROVE StreamTypes'
  <2>1. transfer' \in [Transfers -> TransferType]
    BY <1>13, ZenonT(40) DEF Complete, StreamTypes, TransferType
  <2> QED
    BY <1>13, <2>1 DEF Complete, StreamTypes
<1>14. CASE EventsReturn \/ EventsFail
  <2>0. handler \in Threads => thread[handler].i + 1 \in Nat
    BY DEF StreamTypes, ThreadType
  <2>1. CASE EventsReturn
    <3>1. thread' \in [Threads -> ThreadType]
      <4>1. CASE handler \in Threads /\ thread[handler].at = "serve"
        BY <2>0, <2>1, <4>1, GotoType DEF EventsReturn, Cancel
      <4>2. CASE ~(handler \in Threads /\ thread[handler].at = "serve")
        BY <2>1, <4>2 DEF EventsReturn, StreamTypes
      <4> QED
        BY <4>1, <4>2
    <3> QED
      BY <2>1, <3>1 DEF EventsReturn, StreamTypes
  <2>2. CASE EventsFail
    <3>1. thread' \in [Threads -> ThreadType]
      <4>1. CASE thread[handler].at = "serve"
        BY <2>0, <2>2, <4>1, GotoType DEF EventsFail, Cancel
      <4>2. CASE thread[handler].at # "serve"
        BY <2>2, <4>2, GotoType DEF EventsFail
      <4> QED
        BY <4>1, <4>2
    <3>2. stream_going' \in BOOLEAN
      BY <2>2 DEF EventsFail, StreamTypes
    <3> QED
      BY <2>2, <3>1, <3>2 DEF EventsFail, StreamTypes
  <2> QED
    BY <1>14, <2>1, <2>2
<1>15. ASSUME NEW x \in Transfers, CallbackBegins(x) PROVE StreamTypes'
  BY <1>15 DEF CallbackBegins, StreamTypes
<1>16. CASE CallbackDelivered \/ CallbackReports
  BY <1>16 DEF CallbackDelivered, CallbackReports, StreamTypes
<1>17. CASE CallbackResubmits \/ CallbackResubmitFails
  <2>1. transfer' \in [Transfers -> TransferType]
    <3>1. CASE CallbackResubmits
      BY <3>1, TransferUpdates DEF CallbackResubmits
    <3>2. CASE CallbackResubmitFails
      BY <3>2, ZenonT(40) DEF CallbackResubmitFails, StreamTypes, TransferType
    <3> QED
      BY <1>17, <3>1, <3>2
  <2>2. cb' \in [of : Transfers \cup {None}, at : {"none", "deliver", "reuse", "fail", "report"}]
    BY <1>17 DEF CallbackResubmits, CallbackResubmitFails, StreamTypes, NoCallback
  <2> QED
    BY <1>17, <2>1, <2>2 DEF CallbackResubmits, CallbackResubmitFails, StreamTypes
<1>18. CASE usb_cmd_release_xfr
  <2>1. Free \in TransferType
    BY DEF Free, TransferType
  <2>2. transfer' \in [Transfers -> TransferType]
    BY <1>18, <2>1 DEF usb_cmd_release_xfr, StreamTypes
  <2>3. cb' \in [of : Transfers \cup {None}, at : {"none", "deliver", "reuse", "fail", "report"}]
    BY <1>18 DEF usb_cmd_release_xfr, NoCallback
  <2>4. transfer_list' \in [Indices -> Transfers \cup {None}]
    BY <1>18 DEF usb_cmd_release_xfr, ClearEntry, StreamTypes
  <2> QED
    BY <1>18, <2>2, <2>3, <2>4 DEF usb_cmd_release_xfr, StreamTypes
<1> QED
  BY <1>1, <1>2, <1>3, <1>4, <1>5, <1>6, <1>7, <1>8, <1>9, <1>10, <1>11, <1>12, <1>13, <1>14,
     <1>15, <1>16, <1>17, <1>18
     DEF Steps, EventThread, Events, Statuses

-----------------------------------------------------------------------------
(* The transfers that are in use, whatever fails                           *)

(* A step of a thread, and of a transfer.                                  *)
ThreadIs(t, at, i, found, result) ==
  /\ thread'[t].at = at /\ thread'[t].i = i /\ thread'[t].found = found /\ thread'[t].result = result
  /\ \A u \in Threads : u # t => thread'[u] = thread[u]

TransferIs(x, at, index, image) ==
  /\ transfer'[x].at = at /\ transfer'[x].list_index = index /\ (transfer'[x].image <=> image)
  /\ \A y \in Transfers : y # x => transfer'[y] = transfer[y]

LEMMA GotoIs ==
  ASSUME StreamTypes, NEW t \in Threads, NEW at, NEW i
  PROVE  /\ Goto(t, at, i) => ThreadIs(t, at, i, None, thread[t].result)
         /\ Fail(t, at, i) => ThreadIs(t, at, i, None, "FAILED")
BY DEF StreamTypes, ThreadType, Goto, Fail, ThreadIs

LEMMA Fields ==
  ASSUME StreamTypes
  PROVE  /\ \A t \in Threads :
              /\ thread[t].at \in {"none", "setup", "submit", "loop", "exited"} \cup Cancel
              /\ thread[t].i \in Nat /\ thread[t].found \in Transfers \cup {None}
              /\ thread[t].result \in {"SUCCEEDED", "FAILED"}
         /\ \A x \in Transfers :
              /\ transfer[x].at \in {"free", "allocated", "submitted", "done"}
              /\ transfer[x].list_index \in Nat /\ transfer[x].image \in BOOLEAN
         /\ \A i \in Indices : transfer_list[i] \in Transfers \cup {None}
         /\ cb.of \in Transfers \cup {None}
         /\ cb.at \in {"none", "deliver", "reuse", "fail", "report"}
BY DEF StreamTypes, ThreadType, TransferType

LEMMA SetupStepsAre ==
  ASSUME StreamTypes, NEW t \in Threads
  PROVE  /\ \A x \in Transfers : SetupPublishes(t, x) =>
              /\ ThreadIs(t, "submit", thread[t].i, x, thread[t].result)
              /\ TransferIs(x, "allocated", thread[t].i, FALSE)
         /\ SetupSubmits(t) /\ thread[t].found \in Transfers =>
              /\ ThreadIs(t, "setup", thread[t].i + 1, None, thread[t].result)
              /\ TransferIs(thread[t].found, "submitted", transfer[thread[t].found].list_index, TRUE)
         /\ SetupNotSubmitted(t) /\ thread[t].found \in Transfers =>
              /\ ThreadIs(t, "setup", thread[t].i + 1, None, thread[t].result)
              /\ TransferIs(thread[t].found, transfer[thread[t].found].at,
                            transfer[thread[t].found].list_index, TRUE)
         /\ SetupFails(t) /\ thread[t].found \in Transfers =>
              /\ ThreadIs(t, "cancel", 0, None, "FAILED")
              /\ TransferIs(thread[t].found, "free", 0, FALSE)
<1>1. thread[t] \in ThreadType /\ thread \in [Threads -> ThreadType]
  BY DEF StreamTypes
<1>2. transfer \in [Transfers -> TransferType]
  BY DEF StreamTypes
<1>3. ASSUME NEW x \in Transfers, SetupPublishes(t, x)
      PROVE  /\ ThreadIs(t, "submit", thread[t].i, x, thread[t].result)
             /\ TransferIs(x, "allocated", thread[t].i, FALSE)
  <2>1. thread' = [thread EXCEPT ![t].at = "submit", ![t].found = x]
    BY <1>3 DEF SetupPublishes
  <2>2. transfer' = [transfer EXCEPT ![x] = [Free EXCEPT !.at = "allocated", !.list_index = thread[t].i]]
    BY <1>3 DEF SetupPublishes
  <2>3. ThreadIs(t, "submit", thread[t].i, x, thread[t].result)
    BY <1>1, <2>1 DEF ThreadIs, ThreadType
  <2> QED
    BY <1>2, <2>2, <2>3 DEF TransferIs, Free
<1>4. ASSUME SetupSubmits(t), thread[t].found \in Transfers
      PROVE  /\ ThreadIs(t, "setup", thread[t].i + 1, None, thread[t].result)
             /\ TransferIs(thread[t].found, "submitted", transfer[thread[t].found].list_index, TRUE)
  <2>1. ThreadIs(t, "setup", thread[t].i + 1, None, thread[t].result)
    BY <1>4, GotoIs DEF SetupSubmits
  <2>2. PICK x \in Transfers : x = thread[t].found
    BY <1>4
  <2>3. transfer' = [transfer EXCEPT ![x].at = "submitted", ![x].image = TRUE]
    BY <1>4, <2>2 DEF SetupSubmits
  <2>4. TransferIs(x, "submitted", transfer[x].list_index, TRUE)
    BY <1>2, <2>3 DEF TransferIs, TransferType
  <2> QED
    BY <2>1, <2>2, <2>4
<1>5. ASSUME SetupNotSubmitted(t), thread[t].found \in Transfers
      PROVE  /\ ThreadIs(t, "setup", thread[t].i + 1, None, thread[t].result)
             /\ TransferIs(thread[t].found, transfer[thread[t].found].at,
                           transfer[thread[t].found].list_index, TRUE)
  <2>1. ThreadIs(t, "setup", thread[t].i + 1, None, thread[t].result)
    BY <1>5, GotoIs DEF SetupNotSubmitted
  <2>2. PICK x \in Transfers : x = thread[t].found
    BY <1>5
  <2>3. transfer' = [transfer EXCEPT ![x].image = TRUE]
    BY <1>5, <2>2 DEF SetupNotSubmitted
  <2>4. TransferIs(x, transfer[x].at, transfer[x].list_index, TRUE)
    BY <1>2, <2>3 DEF TransferIs, TransferType
  <2> QED
    BY <2>1, <2>2, <2>4
<1>6. ASSUME SetupFails(t), thread[t].found \in Transfers
      PROVE  /\ ThreadIs(t, "cancel", 0, None, "FAILED")
             /\ TransferIs(thread[t].found, "free", 0, FALSE)
  <2>1. ThreadIs(t, "cancel", 0, None, "FAILED")
    BY <1>6, GotoIs DEF SetupFails
  <2>2. transfer' = [transfer EXCEPT ![thread[t].found] = Free]
    BY <1>6 DEF SetupFails
  <2> QED
    BY <1>2, <1>6, <2>1, <2>2 DEF TransferIs, Free
<1> QED
  BY <1>3, <1>4, <1>5, <1>6

LEMMA CallbackStepsAre ==
  ASSUME StreamTypes
  PROVE  /\ CallbackResubmits /\ cb.of \in Transfers =>
              TransferIs(cb.of, "submitted", transfer[cb.of].list_index, transfer[cb.of].image)
         /\ CallbackResubmitFails /\ cb.of \in Transfers =>
              TransferIs(cb.of, transfer[cb.of].at, transfer[cb.of].list_index, FALSE)
         /\ usb_cmd_release_xfr /\ cb.of \in Transfers => TransferIs(cb.of, "free", 0, FALSE)
         /\ \A x \in Transfers, s \in Statuses : Complete(x, s) =>
              TransferIs(x, "done", transfer[x].list_index, transfer[x].image)
<1>2. transfer \in [Transfers -> TransferType]
  BY DEF StreamTypes
<1>3. ASSUME CallbackResubmits, cb.of \in Transfers
      PROVE  TransferIs(cb.of, "submitted", transfer[cb.of].list_index, transfer[cb.of].image)
  <2>1. PICK x \in Transfers : x = cb.of
    BY <1>3
  <2>2. transfer' = [transfer EXCEPT ![x].at = "submitted", ![x].status = None]
    BY <1>3, <2>1 DEF CallbackResubmits
  <2>3. TransferIs(x, "submitted", transfer[x].list_index, transfer[x].image)
    BY <1>2, <2>2 DEF TransferIs, TransferType
  <2> QED
    BY <2>1, <2>3
<1>4. ASSUME CallbackResubmitFails, cb.of \in Transfers
      PROVE  TransferIs(cb.of, transfer[cb.of].at, transfer[cb.of].list_index, FALSE)
  BY <1>2, <1>4 DEF CallbackResubmitFails, TransferIs, TransferType
<1>5. ASSUME usb_cmd_release_xfr, cb.of \in Transfers PROVE TransferIs(cb.of, "free", 0, FALSE)
  BY <1>2, <1>5 DEF usb_cmd_release_xfr, TransferIs, Free
<1>6. ASSUME NEW x \in Transfers, NEW s \in Statuses, Complete(x, s)
      PROVE  TransferIs(x, "done", transfer[x].list_index, transfer[x].image)
  <2>1. transfer' = [transfer EXCEPT ![x].at = "done", ![x].status = s]
    BY <1>6 DEF Complete
  <2> QED
    BY <1>2, <2>1 DEF TransferIs, TransferType
<1> QED
  BY <1>3, <1>4, <1>5, <1>6

LEMMA ReadsIs ==
  ASSUME StreamTypes, NEW t \in Threads, CancelReads(t)
  PROVE  /\ thread[t].i \in Indices
         /\ \/ /\ transfer_list[thread[t].i] = None
               /\ ThreadIs(t, "cancel", thread[t].i + 1, None, thread[t].result)
            \/ /\ transfer_list[thread[t].i] \in Transfers
               /\ ThreadIs(t, "cancelling", thread[t].i, transfer_list[thread[t].i], thread[t].result)
<1>1. thread[t].i \in Indices
  BY StreamAssumption DEF StreamTypes, ThreadType, CancelReads, Indices
<1>2. CASE transfer_list[thread[t].i] = None
  BY <1>1, <1>2, GotoIs DEF CancelReads
<1>3. CASE transfer_list[thread[t].i] # None
  <2>1. thread' = [thread EXCEPT ![t].at = "cancelling", ![t].found = transfer_list[thread[t].i]]
    BY <1>3 DEF CancelReads
  <2>2. transfer_list[thread[t].i] \in Transfers
    BY <1>1, <1>3 DEF StreamTypes
  <2> QED
    BY <1>1, <2>1, <2>2 DEF ThreadIs, StreamTypes, ThreadType
<1> QED
  BY <1>2, <1>3, <1>1

(* Steps that leave transfers, list and callback alone.                    *)
LEMMA ThreadOnly ==
  ASSUME AliveInv, StreamTypes', UNCHANGED <<transfer_list, transfer, cb>>, CallbackInv',
         NEW t \in Threads, \A u \in Threads : u # t => thread'[u] = thread[u],
         thread'[t].at # "submit",
         thread'[t].at = "cancelling" => thread'[t].found \in Transfers
  PROVE  AliveInv'
<1>1. NothingDangling' /\ ImageInv'
  BY DEF AliveInv, NothingDangling, ImageInv
<1>2. FoundInv'
  BY DEF AliveInv, FoundInv
<1> QED
  BY <1>1, <1>2 DEF AliveInv

LEMMA NoThreadMoves ==
  ASSUME AliveInv, StreamTypes', UNCHANGED <<transfer_list, transfer, thread>>, CallbackInv',
         \A x \in Transfers : transfer[x].at = "done" /\ (cb'.of # x \/ cb'.at \in {"deliver", "reuse"})
                                => transfer[x].image
  PROVE  AliveInv'
<1>1. NothingDangling' /\ FoundInv'
  BY DEF AliveInv, NothingDangling, FoundInv
<1>2. ImageInv'
  BY DEF AliveInv, ImageInv
<1> QED
  BY <1>1, <1>2 DEF AliveInv

LEMMA Alive_StartStop ==
  ASSUME AliveInv, StreamTypes',
         \/ (\E t \in Threads : StreamStart(t)) \/ StreamStop \/ StopJoins
         \/ CommandBegins \/ CommandEvents \/ CommandEnds
  PROVE  AliveInv'
<1> USE DEF context
<1>0. StreamTypes /\ CallbackInv /\ ImageInv /\ None \notin Threads /\ Command \notin Threads /\ Command # "stop"
      /\ None # Command
  BY StreamAssumption DEF AliveInv, Command
<1>1. ASSUME NEW t \in Threads, StreamStart(t) PROVE AliveInv'
  <2>1. ThreadIs(t, "setup", 0, None, "SUCCEEDED")
    BY <1>0, <1>1 DEF StreamStart, ThreadIs, NoThread, StreamTypes
  <2>2. CallbackInv'
    BY <1>0, <1>1, <2>1 DEF StreamStart, CallbackInv, ThreadIs
  <2> QED
    BY <1>1, <2>1, <2>2, ThreadOnly DEF ThreadIs, StreamStart
<1>2. CASE StopJoins
  <2>1. stream_handle \in Threads \/ stream_handle = None
    BY <1>0 DEF StreamTypes
  <2>2. CASE stream_handle \in Threads
    <3>1. ThreadIs(stream_handle, "none", 0, None, "SUCCEEDED")
      BY <1>0, <1>2, <2>2 DEF StopJoins, ThreadIs, NoThread, StreamTypes
    <3>2. CallbackInv'
      BY <1>0, <1>2, <2>2, <3>1 DEF StopJoins, CallbackInv, ThreadIs, Joined
    <3> QED
      BY <1>2, <2>2, <3>1, <3>2, ThreadOnly DEF ThreadIs, StopJoins
  <2>3. CASE stream_handle = None
    <3>1. thread' = thread
      BY <1>0, <1>2, <2>3 DEF StopJoins, StreamTypes
    <3>2. CallbackInv'
      BY <1>0, <1>2, <3>1 DEF StopJoins, CallbackInv
    <3> QED
      BY <1>0, <1>2, <3>1, <3>2, NoThreadMoves DEF StopJoins, ImageInv
  <2> QED
    BY <2>1, <2>2, <2>3
<1>3. CASE StreamStop \/ CommandBegins \/ CommandEvents \/ CommandEnds
  <2>1. CallbackInv'
    BY <1>0, <1>3 DEF StreamStop, StopLocks, CommandBegins, CommandEvents, CommandEnds, CallbackInv, StreamTypes
  <2> QED
    BY <1>0, <1>3, <2>1, NoThreadMoves
       DEF StreamStop, CommandBegins, CommandEvents, CommandEnds, ImageInv
<1> QED
  BY <1>1, <1>2, <1>3

LEMMA Alive_Setup ==
  ASSUME AliveInv, StreamTypes', NEW t \in Threads,
         \/ (\E x \in Transfers : SetupPublishes(t, x)) \/ SetupAllocFails(t) \/ SetupFails(t)
         \/ SetupSubmits(t) \/ SetupNotSubmitted(t)
  PROVE  AliveInv'
<1> USE DEF context
<1>0. StreamTypes /\ CallbackInv /\ ImageInv /\ FoundInv /\ NothingDangling
      /\ None \notin Threads /\ None \notin Transfers
  BY StreamAssumption DEF AliveInv
<1>1. ASSUME NEW x \in Transfers, SetupPublishes(t, x) PROVE AliveInv'
  <2>1. /\ ThreadIs(t, "submit", thread[t].i, x, thread[t].result)
        /\ TransferIs(x, "allocated", thread[t].i, FALSE)
    BY <1>0, <1>1, SetupStepsAre
  <2>2. thread[t].i \in Indices /\ transfer[x].at = "free" /\ thread[t].at = "setup"
    <3>1. thread[t].i < Slots /\ transfer[x].at = "free" /\ thread[t].at = "setup"
      BY <1>1 DEF SetupPublishes, SetupLoop
    <3>2. thread[t].i \in Nat
      BY <1>0, Fields
    <3> QED
      BY <3>1, <3>2, StreamAssumption DEF Indices
  <2>3. cb' = cb /\ handler' = handler /\ lock' = lock
        /\ transfer_list' = [transfer_list EXCEPT ![thread[t].i] = x]
    BY <1>1 DEF SetupPublishes
  <2>4. CallbackInv'
    BY <1>0, <2>1, <2>2, <2>3 DEF CallbackInv, ThreadIs, TransferIs, StreamTypes
  <2>5. ImageInv'
    BY <1>0, <2>1, <2>2, <2>3 DEF ImageInv, TransferIs
  <2>6. NothingDangling'
    BY <1>0, <2>1, <2>2, <2>3 DEF NothingDangling, TransferIs, StreamTypes
  <2>7. FoundInv'
    <3>1. ASSUME NEW u \in Threads, u # t, thread[u].at = "submit" PROVE thread[u].found # x
      BY <1>0, <2>2, <3>1 DEF FoundInv
    <3> QED
      BY <1>0, <2>1, <2>2, <3>1 DEF FoundInv, ThreadIs, TransferIs
  <2> QED
    BY <2>4, <2>5, <2>6, <2>7 DEF AliveInv
<1>2. CASE SetupAllocFails(t)
  <2>1. ThreadIs(t, "cancel", 0, None, "FAILED")
    BY <1>0, <1>2, GotoIs DEF SetupAllocFails
  <2>2. thread[t].at = "setup" /\ cb' = cb /\ handler' = handler /\ lock' = lock /\ transfer' = transfer
        /\ transfer_list' = [transfer_list EXCEPT ![thread[t].i] = None]
    BY <1>2 DEF SetupAllocFails, SetupLoop
  <2>3. CallbackInv'
    BY <1>0, <2>1, <2>2 DEF CallbackInv, ThreadIs, StreamTypes
  <2>4. NothingDangling' /\ ImageInv'
    BY <1>0, <2>2 DEF NothingDangling, ImageInv, StreamTypes
  <2>5. FoundInv'
    BY <1>0, <2>1, <2>2 DEF FoundInv, ThreadIs
  <2> QED
    BY <2>3, <2>4, <2>5 DEF AliveInv
<1>3. CASE SetupFails(t) \/ SetupSubmits(t) \/ SetupNotSubmitted(t)
  <2> DEFINE x == thread[t].found
  <2>0. thread[t].at = "submit" /\ cb' = cb /\ handler' = handler /\ lock' = lock
    BY <1>3 DEF SetupFails, SetupSubmits, SetupNotSubmitted
  <2>1. /\ x \in Transfers /\ thread[t].i \in Indices
        /\ transfer[x].at = "allocated" /\ transfer[x].list_index = thread[t].i
        /\ \A u \in Threads : thread[u].at = "submit" /\ thread[u].found = x => u = t
    BY <1>0, <2>0 DEF FoundInv
  <2>2. \/ /\ SetupFails(t)
           /\ ThreadIs(t, "cancel", 0, None, "FAILED") /\ TransferIs(x, "free", 0, FALSE)
           /\ transfer_list' = [transfer_list EXCEPT ![thread[t].i] = None]
        \/ /\ ThreadIs(t, "setup", thread[t].i + 1, None, thread[t].result)
           /\ TransferIs(x, "submitted", transfer[x].list_index, TRUE) \/ TransferIs(x, transfer[x].at, transfer[x].list_index, TRUE)
           /\ transfer_list' = transfer_list
    BY <1>0, <1>3, <2>1, SetupStepsAre DEF SetupFails, SetupSubmits, SetupNotSubmitted
  <2> HIDE DEF x
  <2>3. CallbackInv'
    BY <1>0, <2>0, <2>1, <2>2 DEF CallbackInv, ThreadIs, TransferIs, StreamTypes
  <2>4. ImageInv'
    BY <1>0, <2>0, <2>1, <2>2 DEF ImageInv, TransferIs
  <2>5. NothingDangling'
    BY <1>0, <2>1, <2>2 DEF NothingDangling, TransferIs, ImageInv, StreamTypes
  <2>6. FoundInv'
    BY <1>0, <2>1, <2>2 DEF FoundInv, ThreadIs, TransferIs
  <2> QED
    BY <2>3, <2>4, <2>5, <2>6 DEF AliveInv
<1> QED
  BY <1>1, <1>2, <1>3

LEMMA Alive_Thread ==
  ASSUME AliveInv, StreamTypes', NEW t \in Threads,
         \/ SetupEnds(t) \/ LoopEvents(t) \/ LoopEnds(t) \/ CancelReads(t)
         \/ CancelCalls(t) \/ CancelEvents(t) \/ CancelWaits(t) \/ CancelEnds(t)
  PROVE  AliveInv'
<1> USE DEF context
<1>0. StreamTypes /\ CallbackInv /\ ImageInv /\ FoundInv /\ NothingDangling
      /\ None \notin Threads /\ None \notin Transfers /\ Command \notin Threads /\ None # Command
  BY StreamAssumption DEF AliveInv, Command
<1>1. CASE SetupEnds(t) \/ LoopEnds(t) \/ CancelWaits(t) \/ CancelEnds(t)
  <2>1. \E at \in {"loop", "cancel", "exited"} : \E i : ThreadIs(t, at, i, None, thread[t].result)
    BY <1>0, <1>1, GotoIs DEF SetupEnds, LoopEnds, CancelWaits, CancelEnds
  <2>2. handler # t
    BY <1>0, <1>1 DEF SetupEnds, LoopEnds, CancelWaits, CancelEnds, CallbackInv
  <2>3. UNCHANGED <<transfer_list, transfer, cb, handler, lock>>
    BY <1>1 DEF SetupEnds, LoopEnds, CancelWaits, CancelEnds
  <2>4. CallbackInv'
    BY <1>0, <2>1, <2>2, <2>3 DEF CallbackInv, ThreadIs, StreamTypes
  <2> QED
    BY <2>1, <2>3, <2>4, ThreadOnly DEF ThreadIs
<1>2. CASE CancelReads(t)
  <2>1. \/ ThreadIs(t, "cancel", thread[t].i + 1, None, thread[t].result)
        \/ /\ transfer_list[thread[t].i] \in Transfers
           /\ ThreadIs(t, "cancelling", thread[t].i, transfer_list[thread[t].i], thread[t].result)
    BY <1>0, <1>2, ReadsIs
  <2>2. handler # t
    BY <1>0, <1>2 DEF CancelReads, CallbackInv
  <2>3. UNCHANGED <<transfer_list, transfer, cb, handler, lock>>
    BY <1>2 DEF CancelReads
  <2>4. CallbackInv'
    BY <1>0, <2>1, <2>2, <2>3 DEF CallbackInv, ThreadIs, StreamTypes
  <2> QED
    BY <2>1, <2>3, <2>4, ThreadOnly DEF ThreadIs
<1>3. CASE LoopEvents(t) \/ CancelEvents(t)
  <2>1. CallbackInv'
    BY <1>0, <1>3 DEF LoopEvents, CancelEvents, CallbackInv, StreamTypes
  <2> QED
    BY <1>0, <1>3, <2>1, NoThreadMoves DEF LoopEvents, CancelEvents, ImageInv
<1>4. CASE CancelCalls(t)
  <2>1. ThreadIs(t, "serve", thread[t].i, None, thread[t].result) /\ thread[t].at = "cancelling"
    BY <1>0, <1>4, GotoIs DEF CancelCalls, CancelThenServe
  <2>2. ASSUME NEW x \in Transfers
        PROVE  /\ transfer'[x].list_index = transfer[x].list_index
               /\ transfer'[x].image <=> transfer[x].image
               /\ transfer[x].at \in {"free", "allocated", "done"} => transfer'[x].at = transfer[x].at
               /\ transfer[x].at = "submitted" =>
                    transfer'[x].at = IF x = thread[t].found THEN "done" ELSE "submitted"
    BY <1>0, <1>4, ZenonT(40) DEF CancelCalls, StreamTypes, TransferType
  <2>3. UNCHANGED <<transfer_list, cb, handler, lock>>
    BY <1>4 DEF CancelCalls
  <2>4. handler # t
    BY <1>0, <2>1 DEF CallbackInv
  <2>5. CallbackInv'
    BY <1>0, <2>1, <2>2, <2>3, <2>4 DEF CallbackInv, ThreadIs, StreamTypes
  <2>6. ImageInv'
    BY <1>0, <2>2, <2>3, Fields DEF ImageInv, CallbackInv
  <2>7. NothingDangling'
    BY <1>0, <2>2, <2>3, Fields DEF NothingDangling, ImageInv
  <2>8. FoundInv'
    BY <1>0, <2>1, <2>2, <2>3 DEF FoundInv, ThreadIs
  <2> QED
    BY <2>5, <2>6, <2>7, <2>8 DEF AliveInv
<1> QED
  BY <1>1, <1>2, <1>3, <1>4

LEMMA Alive_Events ==
  ASSUME AliveInv, StreamTypes', EventsReturn \/ EventsFail
  PROVE  AliveInv'
<1> USE DEF context
<1>0. StreamTypes /\ CallbackInv /\ ImageInv /\ None \notin Threads
  BY StreamAssumption DEF AliveInv
<1>1. /\ UNCHANGED <<transfer_list, transfer, cb, lock>> /\ handler' = None
      /\ cb.of = None
  BY DEF EventsReturn, EventsFail, NoCallback
<1>2. CASE UNCHANGED thread
  <2>1. CallbackInv'
    BY <1>0, <1>1, <1>2, StreamAssumption DEF CallbackInv, Command
  <2> QED
    BY <1>0, <1>1, <1>2, <2>1, NoThreadMoves DEF ImageInv
<1>3. ASSUME handler \in Threads, NEW at \in {"loop", "cancel"}, NEW i, NEW result,
             ThreadIs(handler, at, i, None, result)
      PROVE  AliveInv'
  <2>1. CallbackInv'
    BY <1>0, <1>1, StreamAssumption DEF CallbackInv, Command
  <2> QED
    BY <1>1, <1>3, <2>1, ThreadOnly DEF ThreadIs
<1>4. CASE EventsReturn
  BY <1>0, <1>2, <1>3, <1>4, GotoIs DEF EventsReturn
<1>5. CASE EventsFail
  BY <1>0, <1>3, <1>5, GotoIs DEF EventsFail
<1> QED
  BY <1>4, <1>5

LEMMA Alive_Callback ==
  ASSUME AliveInv, StreamTypes',
         \/ \E x \in Transfers : CallbackBegins(x)
         \/ CallbackDelivered \/ CallbackReports
         \/ CallbackResubmits \/ CallbackResubmitFails \/ usb_cmd_release_xfr
  PROVE  AliveInv'
<1> USE DEF context
<1>0. StreamTypes /\ CallbackInv /\ ImageInv /\ FoundInv /\ NothingDangling
      /\ None \notin Threads /\ None \notin Transfers
  BY StreamAssumption DEF AliveInv
<1>1. ASSUME NEW x \in Transfers, CallbackBegins(x) PROVE AliveInv'
  <2>1. /\ handler # None /\ transfer[x].at = "done" /\ cb.of = None
        /\ UNCHANGED <<context, lock, thread, transfer, handler>>
    BY <1>1 DEF CallbackBegins, NoCallback
  <2>2. cb'.of = x /\ cb'.at \in {"fail", "deliver", "reuse"}
    BY <1>1 DEF CallbackBegins
  <2>3. CallbackInv'
    BY <1>0, <2>1, <2>2 DEF CallbackInv
  <2>4. \A y \in Transfers : transfer[y].at = "done" => transfer[y].image
    BY <1>0, <2>1 DEF ImageInv
  <2> QED
    BY <2>1, <2>3, <2>4, NoThreadMoves
<1>2. CASE CallbackDelivered \/ CallbackReports
  <2>1. /\ cb'.of = cb.of /\ UNCHANGED <<context, lock, thread, transfer, handler>>
        /\ \/ cb.at = "deliver" /\ cb'.at = "reuse"
           \/ cb.at = "fail" /\ cb'.at = "report"
    BY <1>0, <1>2 DEF CallbackDelivered, CallbackReports, StreamTypes
  <2>2. CallbackInv'
    BY <1>0, <2>1 DEF CallbackInv
  <2>3. \A x \in Transfers : transfer[x].at = "done" /\ (cb'.of # x \/ cb'.at \in {"deliver", "reuse"})
                               => transfer[x].image
    BY <1>0, <2>1 DEF ImageInv
  <2> QED
    BY <2>1, <2>2, <2>3, NoThreadMoves
<1>3. CASE CallbackResubmits \/ CallbackResubmitFails \/ usb_cmd_release_xfr
  <2> DEFINE x == cb.of
  <2>1. cb.at # "none" /\ UNCHANGED <<lock, thread, handler>>
    BY <1>3 DEF CallbackResubmits, CallbackResubmitFails, usb_cmd_release_xfr
  <2>2. x \in Transfers /\ transfer[x].at = "done" /\ handler # None
    BY <1>0, <2>1, Fields DEF CallbackInv
  <2>3. \/ /\ cb.at = "reuse" /\ TransferIs(x, "submitted", transfer[x].list_index, transfer[x].image)
           /\ cb'.of = None /\ cb'.at = "none" /\ transfer_list' = transfer_list
        \/ /\ TransferIs(x, transfer[x].at, transfer[x].list_index, FALSE)
           /\ cb'.of = x /\ cb'.at = "fail" /\ transfer_list' = transfer_list
        \/ /\ TransferIs(x, "free", 0, FALSE) /\ ClearEntry(x)
           /\ cb'.of = None /\ cb'.at = "none"
    <3>1. CASE CallbackResubmits
      BY <1>0, <2>2, <3>1, CallbackStepsAre DEF CallbackResubmits, NoCallback
    <3>2. CASE CallbackResubmitFails
      BY <1>0, <2>2, <3>2, CallbackStepsAre DEF CallbackResubmitFails, StreamTypes
    <3>3. CASE usb_cmd_release_xfr
      BY <1>0, <2>2, <3>3, CallbackStepsAre DEF usb_cmd_release_xfr, NoCallback
    <3> QED
      BY <1>3, <3>1, <3>2, <3>3
  <2> HIDE DEF x
  <2>4. cb.of = x
    BY DEF x
  <2>5. CallbackInv'
    BY <1>0, <2>1, <2>2, <2>3, <2>4 DEF CallbackInv, TransferIs
  <2>6. ImageInv'
    BY <1>0, <2>2, <2>3, <2>4 DEF ImageInv, TransferIs
  <2>7. NothingDangling'
    BY <1>0, <2>2, <2>3, Fields DEF NothingDangling, ImageInv, TransferIs, ClearEntry, StreamTypes
  <2>8. FoundInv'
    BY <1>0, <2>1, <2>2, <2>3 DEF FoundInv, TransferIs
  <2> QED
    BY <2>5, <2>6, <2>7, <2>8 DEF AliveInv
<1> QED
  BY <1>1, <1>2, <1>3

LEMMA Alive_Complete ==
  ASSUME AliveInv, StreamTypes', NEW x \in Transfers, NEW s \in Statuses, Complete(x, s)
  PROVE  AliveInv'
<1>0. StreamTypes /\ CallbackInv /\ ImageInv /\ FoundInv /\ NothingDangling
  BY DEF AliveInv
<1>1. TransferIs(x, "done", transfer[x].list_index, transfer[x].image)
  BY <1>0, CallbackStepsAre
<1>2. transfer[x].at = "submitted" /\ UNCHANGED <<context, lock, thread, handler, cb>>
  BY DEF Complete
<1>3. CallbackInv' /\ ImageInv'
  <2>1. cb.of # x
    BY <1>0, <1>2, StreamAssumption DEF CallbackInv
  <2>2. CallbackInv'
    BY <1>0, <1>1, <1>2, <2>1, Fields DEF CallbackInv, TransferIs
  <2>3. ImageInv'
    BY <1>0, <1>1, <1>2, <2>1 DEF ImageInv, TransferIs
  <2> QED
    BY <2>2, <2>3
<1>4. NothingDangling'
  BY <1>0, <1>1, <1>2, Fields DEF NothingDangling, TransferIs, context
<1>5. FoundInv'
  BY <1>0, <1>1, <1>2 DEF FoundInv, TransferIs
<1> QED
  BY <1>3, <1>4, <1>5 DEF AliveInv

LEMMA AliveStep ==
  ASSUME AliveInv, Steps
  PROVE  AliveInv'
<1>1. StreamTypes'
  BY TypesStep DEF AliveInv
<1>2. ASSUME NEW t \in Threads, EventThread(t) PROVE AliveInv'
  BY <1>1, <1>2, Alive_Setup, Alive_Thread DEF EventThread
<1>3. CASE Events
  BY <1>1, <1>3, Alive_Events, Alive_Callback DEF Events
<1>4. ASSUME NEW x \in Transfers, NEW s \in Statuses, Complete(x, s) PROVE AliveInv'
  BY <1>1, <1>4, Alive_Complete
<1> QED
  BY <1>1, <1>2, <1>3, <1>4, Alive_StartStop DEF Steps, Statuses

LEMMA AliveInit == Init => AliveInv
<1> SUFFICES ASSUME Init PROVE AliveInv
  OBVIOUS
<1>1. StreamTypes
  BY TypesInit
<1>2. NothingDangling /\ FoundInv
  BY DEF Init, NothingDangling, FoundInv, NoThread, Free
<1>3. CallbackInv /\ ImageInv
  BY StreamAssumption DEF Init, CallbackInv, ImageInv, NoCallback, Free, Command
<1> QED
  BY <1>1, <1>2, <1>3 DEF AliveInv

-----------------------------------------------------------------------------
(* Stop leaves nothing behind                                              *)

QuietNow == OneThread /\ ListInv /\ \A t \in Threads : Progress(t)

LEMMA Others ==
  ASSUME OneThread, NEW t \in Threads, thread[t].at # "none",
         \A u \in Threads : u # t => thread'[u] = thread[u]
  PROVE  \A u \in Threads : u # t => thread'[u].at = "none" /\ Progress(u)'
BY DEF OneThread, Progress, Cancel

(* While the thread cancels, stop waits for it with the lock: nobody else  *)
(* handles events.                                                         *)
LEMMA Alone ==
  ASSUME AliveInv, OneThread, NEW t \in Threads, thread[t].at \in Cancel \cup {"exited"},
         thread[t].result = "SUCCEEDED"
  PROVE  /\ lock = "stop" /\ ~stream_going
         /\ handler \in {None, t}
         /\ thread[t].at # "serve" => handler = None /\ cb.at = "none"
<1>0. StreamTypes /\ CallbackInv
  BY DEF AliveInv
<1>1. stream_handle = t /\ ~stream_going /\ t # None
  BY StreamAssumption DEF OneThread, Cancel
<1>2. lock = "stop"
  BY <1>1 DEF OneThread
<1>3. handler # Command
  BY <1>0, <1>2 DEF CallbackInv, Command
<1>4. ASSUME handler \in Threads PROVE handler = t /\ thread[t].at = "serve"
  BY <1>0, <1>1, <1>4 DEF CallbackInv, OneThread, Cancel
<1>5. handler \in {None, t} /\ (thread[t].at # "serve" => handler = None)
  BY <1>0, <1>3, <1>4 DEF StreamTypes
<1>6. handler = None => cb.at = "none"
  BY <1>0 DEF CallbackInv
<1> QED
  BY <1>1, <1>2, <1>5, <1>6

LEMMA Quiet_StartStop ==
  ASSUME AliveInv, QuietNow,
         \/ (\E t \in Threads : StreamStart(t)) \/ StreamStop \/ StopJoins
         \/ CommandBegins \/ CommandEvents \/ CommandEnds
  PROVE  QuietNow'
<1> USE DEF context
<1>0. StreamTypes /\ OneThread /\ ListInv /\ (\A t \in Threads : Progress(t))
      /\ None \notin Threads /\ None # "stop" /\ Command # "stop"
  BY StreamAssumption DEF AliveInv, QuietNow, Command
<1>1. ASSUME NEW t \in Threads, StreamStart(t) PROVE QuietNow'
  <2>1. ThreadIs(t, "setup", 0, None, "SUCCEEDED")
    BY <1>0, <1>1 DEF StreamStart, ThreadIs, NoThread, StreamTypes
  <2>2. stream_handle = None /\ lock = None
    BY <1>0, <1>1 DEF StreamStart, NotGoing, OneThread
  <2>3. \A u \in Threads : thread[u].at = "none"
    BY <1>0, <2>2 DEF OneThread
  <2>4. \A x \in Transfers : ~Live(x)
    BY <1>0, <2>2 DEF ListInv
  <2>5. /\ stream_going' /\ stream_handle' = t
        /\ UNCHANGED <<transfer_list, lock, transfer, handler, cb>>
    BY <1>1 DEF StreamStart
  <2>6. OneThread'
    BY <1>0, <2>1, <2>2, <2>3, <2>5 DEF OneThread, ThreadIs, Cancel
  <2>7. \A x \in Transfers : ~Live(x)'
    BY <2>4, <2>5 DEF Live
  <2>8. ListInv'
    BY <2>7 DEF ListInv
  <2>9. ASSUME NEW u \in Threads PROVE Progress(u)'
    BY <2>1, <2>3, <2>7 DEF Progress, ThreadIs, Cancel
  <2> QED
    BY <2>6, <2>8, <2>9 DEF QuietNow
<1>2. CASE StopJoins
  <2>1. lock = "stop" /\ thread[stream_handle].at = "exited" /\ stream_handle \in Threads
    BY <1>0, <1>2 DEF StopJoins, Joined, OneThread, StreamTypes
  <2>2. ThreadIs(stream_handle, "none", 0, None, "SUCCEEDED")
    BY <1>0, <1>2, <2>1 DEF StopJoins, ThreadIs, NoThread, StreamTypes
  <2>3. \A u \in Threads : thread'[u].at = "none"
    BY <1>0, <2>1, <2>2 DEF OneThread, ThreadIs
  <2>4. \A x \in Transfers : ~Live(x)
    BY <1>0, <2>1 DEF Progress
  <2>5. /\ ~stream_going' /\ stream_handle' = None /\ lock' = None /\ UNCHANGED transfer
    BY <1>0, <1>2, <2>1 DEF StopJoins, OneThread
  <2>6. OneThread'
    BY <1>0, <2>3, <2>5 DEF OneThread, Cancel
  <2>7. \A x \in Transfers : ~Live(x)'
    BY <2>4, <2>5 DEF Live
  <2>8. ListInv'
    BY <2>7 DEF ListInv
  <2>9. ASSUME NEW u \in Threads PROVE Progress(u)'
    BY <2>3 DEF Progress, Cancel
  <2> QED
    BY <2>6, <2>8, <2>9 DEF QuietNow
<1>3. CASE StreamStop \/ CommandBegins \/ CommandEvents \/ CommandEnds
  <2>1. UNCHANGED <<stream_handle, transfer_list, thread, transfer, cb>>
    BY <1>3 DEF StreamStop, CommandBegins, CommandEvents, CommandEnds
  <2>2. ListInv' /\ \A t \in Threads : Progress(t)'
    BY <1>0, <2>1 DEF ListInv, Progress, Live
  <2>3. OneThread'
    BY <1>0, <1>3, <2>1 DEF StreamStop, StopLocks, CommandBegins, CommandEvents, CommandEnds, OneThread
  <2> QED
    BY <2>2, <2>3 DEF QuietNow
<1> QED
  BY <1>1, <1>2, <1>3

LEMMA Quiet_Setup ==
  ASSUME AliveInv, QuietNow, SetupWorks, NEW t \in Threads,
         \/ (\E x \in Transfers : SetupPublishes(t, x)) \/ SetupAllocFails(t) \/ SetupFails(t)
         \/ SetupSubmits(t) \/ SetupNotSubmitted(t) \/ SetupEnds(t)
  PROVE  QuietNow'
<1> USE DEF context
<1>0. StreamTypes /\ OneThread /\ ListInv /\ Progress(t) /\ FoundInv /\ ImageInv
      /\ None \notin Threads /\ None \notin Transfers
  BY StreamAssumption DEF AliveInv, QuietNow
<1>01. thread[t].i \in Nat /\ \A x \in Transfers : transfer[x].list_index \in Nat
  BY <1>0, Fields
<1>02. UNCHANGED <<stream_going, stream_handle, lock, cb>> /\ thread[t].at \in {"setup", "submit"}
  BY DEF SetupPublishes, SetupLoop, SetupAllocFails, SetupFails, SetupSubmits, SetupNotSubmitted, SetupEnds
<1>1. ASSUME NEW x \in Transfers, SetupPublishes(t, x) PROVE QuietNow'
  <2>1. /\ ThreadIs(t, "submit", thread[t].i, x, thread[t].result)
        /\ TransferIs(x, "allocated", thread[t].i, FALSE)
    BY <1>0, <1>1, SetupStepsAre
  <2>2. thread[t].i \in Indices /\ transfer[x].at = "free" /\ thread[t].at = "setup"
    <3>1. thread[t].i < Slots /\ transfer[x].at = "free" /\ thread[t].at = "setup"
      BY <1>1 DEF SetupPublishes, SetupLoop
    <3> QED
      BY <1>01, <3>1, StreamAssumption DEF Indices
  <2>3. transfer_list' = [transfer_list EXCEPT ![thread[t].i] = x]
    BY <1>1 DEF SetupPublishes
  <2>4. /\ \A u \in Threads : u # t => thread'[u].at = "none" /\ Progress(u)'
        /\ stream_handle = t
    BY <1>0, <2>1, <2>2, Others DEF ThreadIs, OneThread
  <2>5. OneThread'
    BY <1>0, <1>02, <2>1, <2>2, <2>4 DEF OneThread, ThreadIs, Cancel
  <2>6. \A y \in Transfers : Live(y)' => Live(y) /\ y # x /\ transfer'[y].list_index = transfer[y].list_index
    BY <2>1 DEF Live, TransferIs
  <2>7. \A y \in Transfers : Live(y)' => transfer'[y].list_index < thread[t].i
    BY <1>0, <2>2, <2>6 DEF Progress
  <2>8. ListInv'
    <3>1. ASSUME NEW y \in Transfers, Live(y)' PROVE transfer_list'[transfer'[y].list_index] = y
      <4>1. /\ transfer_list[transfer[y].list_index] = y /\ transfer[y].list_index # thread[t].i
            /\ transfer[y].list_index \in Indices /\ transfer'[y].list_index = transfer[y].list_index
        BY <1>0, <1>01, <2>6, <2>7, <3>1 DEF ListInv, ImageInv, Live
      <4> QED
        BY <1>0, <2>3, <4>1 DEF StreamTypes
    <3> QED
      BY <1>0, <1>02, <2>4, <3>1 DEF ListInv
  <2>9. Progress(t)'
    BY <1>0, <2>1, <2>2, <2>3, <2>7 DEF Progress, ThreadIs, Cancel, StreamTypes
  <2> QED
    BY <2>4, <2>5, <2>8, <2>9 DEF QuietNow
<1>2. CASE SetupAllocFails(t)
  BY <1>2 DEF SetupAllocFails, SetupWorks
<1>3. CASE SetupFails(t)
  <2> DEFINE x == thread[t].found
  <2>1. x \in Transfers /\ thread[t].i = 0 /\ thread[t].at = "submit"
    BY <1>0, <1>3 DEF SetupFails, SetupWorks, FoundInv
  <2>2. ThreadIs(t, "cancel", 0, None, "FAILED") /\ TransferIs(x, "free", 0, FALSE)
    BY <1>0, <1>3, <2>1, SetupStepsAre
  <2>3. /\ \A u \in Threads : u # t => thread'[u].at = "none" /\ Progress(u)'
        /\ stream_handle = t
    BY <1>0, <2>1, <2>2, Others DEF ThreadIs, OneThread
  <2> HIDE DEF x
  <2>4. OneThread'
    BY <1>0, <1>02, <2>1, <2>2, <2>3 DEF OneThread, ThreadIs, Cancel
  <2>5. \A y \in Transfers : ~Live(y)
    BY <1>0, <1>01, <2>1 DEF Progress
  <2>6. \A y \in Transfers : ~Live(y)'
    BY <2>2, <2>5 DEF Live, TransferIs
  <2>7. ListInv' /\ Progress(t)'
    BY <2>2, <2>6 DEF ListInv, Progress, ThreadIs, Cancel
  <2> QED
    BY <2>3, <2>4, <2>7 DEF QuietNow
<1>4. CASE SetupSubmits(t) \/ SetupNotSubmitted(t)
  <2> DEFINE x == thread[t].found
  <2>1. /\ x \in Transfers /\ thread[t].at = "submit" /\ transfer[x].at = "allocated"
        /\ transfer[x].list_index = thread[t].i
    BY <1>0, <1>4 DEF SetupSubmits, SetupNotSubmitted, FoundInv
  <2>2. /\ ThreadIs(t, "setup", thread[t].i + 1, None, thread[t].result)
        /\ \/ TransferIs(x, "submitted", transfer[x].list_index, TRUE)
           \/ TransferIs(x, transfer[x].at, transfer[x].list_index, TRUE)
        /\ transfer_list' = transfer_list
    BY <1>0, <1>4, <2>1, SetupStepsAre DEF SetupSubmits, SetupNotSubmitted
  <2>3. /\ \A u \in Threads : u # t => thread'[u].at = "none" /\ Progress(u)'
        /\ stream_handle = t
    BY <1>0, <2>1, <2>2, Others DEF ThreadIs, OneThread
  <2>4. x = thread[t].found
    OBVIOUS
  <2> HIDE DEF x
  <2>5. OneThread'
    BY <1>0, <1>02, <2>1, <2>2, <2>3 DEF OneThread, ThreadIs, Cancel
  <2>6. \A y \in Transfers : /\ transfer'[y].list_index = transfer[y].list_index
                             /\ Live(y)' => Live(y) \/ y = x
    BY <2>2 DEF Live, TransferIs
  <2>7. ListInv'
    BY <1>0, <1>02, <2>1, <2>2, <2>3, <2>4, <2>6 DEF ListInv, Progress
  <2>8. \A y \in Transfers : Live(y)' => transfer'[y].list_index < thread[t].i + 1
    BY <1>0, <1>01, <2>1, <2>6 DEF Progress
  <2>9. Progress(t)'
    BY <2>2, <2>8 DEF Progress, ThreadIs, Cancel
  <2> QED
    BY <2>3, <2>5, <2>7, <2>9 DEF QuietNow
<1>5. CASE SetupEnds(t)
  <2>1. ThreadIs(t, "loop", 0, None, thread[t].result) /\ thread[t].at = "setup"
        /\ UNCHANGED <<transfer_list, transfer>>
    BY <1>0, <1>5, GotoIs DEF SetupEnds
  <2>2. /\ \A u \in Threads : u # t => thread'[u].at = "none" /\ Progress(u)'
        /\ stream_handle = t
    BY <1>0, <2>1, Others DEF ThreadIs, OneThread
  <2>3. OneThread'
    BY <1>0, <1>02, <2>1, <2>2 DEF OneThread, ThreadIs, Cancel
  <2>4. ListInv' /\ Progress(t)'
    BY <1>0, <1>02, <2>1 DEF ListInv, Progress, ThreadIs, Cancel, Live
  <2> QED
    BY <2>2, <2>3, <2>4 DEF QuietNow
<1> QED
  BY <1>1, <1>2, <1>3, <1>4, <1>5

LEMMA Quiet_Cancel ==
  ASSUME AliveInv, QuietNow, NEW t \in Threads,
         \/ LoopEvents(t) \/ LoopEnds(t) \/ CancelReads(t) \/ CancelCalls(t)
         \/ CancelEvents(t) \/ CancelWaits(t) \/ CancelEnds(t)
  PROVE  QuietNow'
<1> USE DEF context
<1>0. StreamTypes /\ OneThread /\ ListInv /\ Progress(t) /\ FoundInv /\ ImageInv
      /\ None \notin Threads /\ None \notin Transfers
  BY StreamAssumption DEF AliveInv, QuietNow
<1>01. /\ thread[t].i \in Nat /\ thread[t].result \in {"SUCCEEDED", "FAILED"}
       /\ \A x \in Transfers : transfer[x].list_index \in Nat
  BY <1>0, Fields
<1>02. /\ UNCHANGED <<stream_going, stream_handle, lock, cb, transfer_list>>
       /\ thread[t].at \in Cancel \cup {"loop"} /\ thread[t].at # "none"
  BY DEF LoopEvents, LoopEnds, CancelReads, CancelCalls, CancelEvents, CancelWaits, CancelEnds, Cancel
<1>03. stream_handle = t
  BY <1>0, <1>02 DEF OneThread
(* The thread moves on, to a place where its progress is kept.             *)
<1>1. ASSUME NEW at \in Cancel \cup {"exited"}, NEW i, NEW found,
             ThreadIs(t, at, i, found, thread[t].result), UNCHANGED transfer,
             thread[t].result = "SUCCEEDED" => ~stream_going,
             Progress(t)'
      PROVE  QuietNow'
  <2>1. \A u \in Threads : u # t => thread'[u].at = "none" /\ Progress(u)'
    BY <1>0, <1>02, <1>1, Others DEF ThreadIs
  <2>2. OneThread'
    BY <1>0, <1>02, <1>03, <1>1, <2>1 DEF OneThread, ThreadIs, Cancel
  <2>3. ListInv'
    BY <1>0, <1>02, <1>1 DEF ListInv, Live
  <2> QED
    BY <1>1, <2>1, <2>2, <2>3 DEF QuietNow
<1>2. CASE LoopEvents(t) \/ CancelEvents(t)
  <2>1. UNCHANGED <<thread, transfer>>
    BY <1>2 DEF LoopEvents, CancelEvents
  <2> QED
    BY <1>02, <2>1 DEF QuietNow, OneThread, ListInv, Progress, Live
<1>3. CASE LoopEnds(t)
  <2>1. /\ ThreadIs(t, "cancel", 0, None, thread[t].result) /\ UNCHANGED transfer
        /\ ~stream_going /\ thread[t].at = "loop" /\ thread[t].result = "SUCCEEDED"
    BY <1>0, <1>3, GotoIs DEF LoopEnds, LoopDone, OneThread
  <2>2. Progress(t)'
    BY <1>01, <2>1 DEF Progress, ThreadIs, Cancel
  <2> QED
    BY <1>1, <2>1, <2>2 DEF Cancel
<1>4. CASE CancelReads(t)
  <2>1. /\ thread[t].i \in Indices /\ thread[t].at = "cancel" /\ UNCHANGED transfer
        /\ \/ /\ transfer_list[thread[t].i] = None
              /\ ThreadIs(t, "cancel", thread[t].i + 1, None, thread[t].result)
           \/ ThreadIs(t, "cancelling", thread[t].i, transfer_list[thread[t].i], thread[t].result)
    BY <1>0, <1>4, ReadsIs DEF CancelReads
  <2>2. \A x \in Transfers : Live(x) => thread[t].i <= transfer[x].list_index
    BY <1>0, <2>1 DEF Progress, Cancel
  <2>3. \A x \in Transfers : Live(x)' <=> Live(x)
    BY <2>1 DEF Live
  <2>4. thread[t].result = "FAILED" => \A x \in Transfers : ~Live(x)
    BY <1>0, <2>1 DEF Progress, Cancel
  <2>5. CASE /\ transfer_list[thread[t].i] = None
             /\ ThreadIs(t, "cancel", thread[t].i + 1, None, thread[t].result)
    <3>1. ASSUME NEW x \in Transfers, Live(x) PROVE thread[t].i + 1 <= transfer[x].list_index
      <4>1. transfer[x].list_index # thread[t].i
        BY <1>0, <2>5, <3>1 DEF ListInv
      <4> QED
        BY <1>01, <2>2, <3>1, <4>1
    <3>2. Progress(t)'
      BY <2>1, <2>3, <2>4, <2>5, <3>1 DEF Progress, ThreadIs, Cancel
    <3> QED
      BY <1>0, <1>1, <2>1, <2>5, <3>2 DEF OneThread, Cancel
  <2>6. CASE ThreadIs(t, "cancelling", thread[t].i, transfer_list[thread[t].i], thread[t].result)
    <3>1. Progress(t)'
      BY <1>02, <2>1, <2>2, <2>3, <2>4, <2>6 DEF Progress, ThreadIs, Cancel
    <3> QED
      BY <1>0, <1>1, <2>1, <2>6, <3>1 DEF OneThread, Cancel
  <2> QED
    BY <2>1, <2>5, <2>6
<1>5. CASE CancelCalls(t)
  <2>1. ThreadIs(t, "serve", thread[t].i, None, thread[t].result) /\ thread[t].at = "cancelling"
    BY <1>0, <1>5, GotoIs DEF CancelCalls, CancelThenServe
  <2>2. ASSUME NEW x \in Transfers
        PROVE  /\ transfer'[x].list_index = transfer[x].list_index
               /\ Live(x)' <=> Live(x)
               /\ x = thread[t].found /\ Live(x) => transfer'[x].at = "done"
    BY <1>0, <1>5, Fields DEF CancelCalls, StreamTypes, TransferType, Live
  <2>3. \A u \in Threads : u # t => thread'[u].at = "none" /\ Progress(u)'
    BY <1>0, <1>02, <2>1, Others DEF ThreadIs
  <2>4. OneThread'
    BY <1>0, <1>02, <1>03, <2>1, <2>3 DEF OneThread, ThreadIs, Cancel
  <2>5. ListInv'
    BY <1>0, <1>02, <2>2 DEF ListInv
  <2>6. thread[t].result = "SUCCEEDED" => cb.at = "none" /\ transfer_list[thread[t].i] = thread[t].found
    BY <1>0, <2>1, Alone DEF Progress, Cancel
  <2>7. thread[t].result = "FAILED" => \A x \in Transfers : ~Live(x)
    BY <1>0, <2>1 DEF Progress, Cancel
  <2>8. ASSUME NEW x \in Transfers, Live(x), transfer[x].list_index = thread[t].i
        PROVE  transfer'[x].at = "done"
    BY <1>0, <1>01, <2>2, <2>6, <2>7, <2>8 DEF ListInv
  <2>9. \A x \in Transfers : Live(x) => thread[t].i <= transfer[x].list_index
    BY <1>0, <2>1 DEF Progress, Cancel
  <2>10. Progress(t)'
    BY <1>01, <1>02, <2>1, <2>2, <2>6, <2>7, <2>8, <2>9 DEF Progress, ThreadIs, Cancel
  <2> QED
    BY <2>3, <2>4, <2>5, <2>10 DEF QuietNow
<1>6. CASE CancelWaits(t)
  <2>1. /\ ThreadIs(t, "cancel", thread[t].i + 1, None, thread[t].result) /\ UNCHANGED transfer
        /\ thread[t].at = "serve" /\ handler \notin {None, t}
    BY <1>0, <1>6, GotoIs DEF CancelWaits
  <2>2. thread[t].result = "FAILED"
    BY <1>0, <1>01, <2>1, Alone DEF Cancel
  <2>3. \A x \in Transfers : ~Live(x)'
    BY <1>0, <2>1, <2>2 DEF Progress, Cancel, Live
  <2>4. Progress(t)'
    BY <2>1, <2>3 DEF Progress, ThreadIs, Cancel
  <2> QED
    BY <1>1, <2>1, <2>2, <2>4 DEF Cancel
<1>7. CASE CancelEnds(t)
  <2>1. /\ ThreadIs(t, "exited", 0, None, thread[t].result) /\ UNCHANGED transfer
        /\ thread[t].at = "cancel" /\ thread[t].i = Slots
    BY <1>0, <1>7, GotoIs DEF CancelEnds
  <2>2. ASSUME NEW x \in Transfers, Live(x) PROVE FALSE
    <3>1. Slots <= transfer[x].list_index
      BY <1>0, <2>1, <2>2 DEF Progress, Cancel
    <3>2. transfer[x].list_index \in 0 .. Slots - 1
      BY <1>0, <2>2 DEF ImageInv, Live, Indices
    <3> QED
      BY <3>1, <3>2, StreamAssumption
  <2>3. \A x \in Transfers : ~Live(x)'
    BY <2>1, <2>2 DEF Live
  <2>4. Progress(t)'
    BY <2>1, <2>3 DEF Progress, ThreadIs, Cancel
  <2> QED
    BY <1>0, <1>1, <2>1, <2>4 DEF OneThread, Cancel
<1> QED
  BY <1>2, <1>3, <1>4, <1>5, <1>6, <1>7

LEMMA Quiet_Events ==
  ASSUME AliveInv, QuietNow, SetupWorks, EventsReturn \/ EventsFail
  PROVE  QuietNow'
<1> USE DEF context
<1>0. StreamTypes /\ OneThread /\ ListInv
  BY DEF AliveInv, QuietNow
<1>1. EventsReturn
  BY DEF EventsFail, SetupWorks
<1>2. UNCHANGED <<stream_going, stream_handle, lock, cb, transfer_list, transfer>>
  BY <1>1 DEF EventsReturn
<1>3. ListInv'
  BY <1>0, <1>2 DEF ListInv, Live
<1>4. CASE handler \in Threads /\ thread[handler].at = "serve"
  <2>0. PICK t \in Threads : t = handler
    BY <1>4
  <2>1. /\ ThreadIs(t, "cancel", thread[t].i + 1, None, thread[t].result)
        /\ \A x \in Transfers : transfer[x].at # "done"
    BY <1>0, <1>1, <1>4, <2>0, GotoIs DEF EventsReturn
  <2>2. Progress(t) /\ thread[t].at = "serve"
    BY <1>4, <2>0 DEF QuietNow
  <2>3. /\ \A u \in Threads : u # t => thread'[u].at = "none" /\ Progress(u)'
        /\ stream_handle = t
    BY <1>0, <2>1, <2>2, Others DEF ThreadIs, OneThread
  <2>4. OneThread'
    BY <1>0, <1>2, <2>1, <2>2, <2>3 DEF OneThread, ThreadIs, Cancel
  <2>5. ASSUME NEW x \in Transfers, Live(x) PROVE thread[t].i + 1 <= transfer[x].list_index
    <3>1. thread[t].i <= transfer[x].list_index /\ transfer[x].list_index # thread[t].i
      BY <2>1, <2>2, <2>5 DEF Progress, Cancel
    <3>2. thread[t].i \in Nat /\ transfer[x].list_index \in Nat
      BY <1>0, <2>2, Fields
    <3> QED
      BY <3>1, <3>2
  <2>6. \A x \in Transfers : Live(x)' <=> Live(x)
    BY <1>2 DEF Live
  <2>7. thread[t].result = "FAILED" => \A x \in Transfers : ~Live(x)
    BY <2>2 DEF Progress, Cancel
  <2>8. Progress(t)'
    BY <1>2, <2>1, <2>5, <2>6, <2>7 DEF Progress, ThreadIs, Cancel
  <2> QED
    BY <1>3, <2>3, <2>4, <2>8 DEF QuietNow
<1>5. CASE ~(handler \in Threads /\ thread[handler].at = "serve")
  <2>1. UNCHANGED thread
    BY <1>1, <1>5 DEF EventsReturn
  <2> QED
    BY <1>2, <2>1 DEF QuietNow, OneThread, ListInv, Progress, Live
<1> QED
  BY <1>4, <1>5

LEMMA Quiet_Callback ==
  ASSUME AliveInv, QuietNow,
         \/ \E x \in Transfers : CallbackBegins(x)
         \/ CallbackDelivered \/ CallbackReports
         \/ CallbackResubmits \/ CallbackResubmitFails \/ usb_cmd_release_xfr
         \/ \E x \in Transfers, s \in Statuses : Complete(x, s)
  PROVE  QuietNow'
<1> USE DEF context
<1>0. StreamTypes /\ OneThread /\ ListInv /\ CallbackInv /\ FoundInv /\ ImageInv
      /\ (\A t \in Threads : Progress(t)) /\ None \notin Threads /\ None \notin Transfers
  BY StreamAssumption DEF AliveInv, QuietNow
<1>1. UNCHANGED <<stream_going, stream_handle, lock, thread>>
  BY DEF CallbackBegins, CallbackDelivered, CallbackReports, CallbackResubmits, CallbackResubmitFails,
         usb_cmd_release_xfr, Complete
<1>2. OneThread'
  BY <1>0, <1>1 DEF OneThread
(* Who serves libusb while it cancels has cleared stream_going.            *)
<1>3. ASSUME NEW t \in Threads, thread[t].at = "serve", thread[t].result = "SUCCEEDED"
      PROVE  ~stream_going /\ cb.at \in {"none", "fail"}
  BY <1>0, <1>3 DEF OneThread, Cancel, Progress
<1>4. CASE (\E x \in Transfers : CallbackBegins(x)) \/ CallbackDelivered \/ CallbackReports
  <2>1. UNCHANGED <<transfer_list, transfer>>
    BY <1>4 DEF CallbackBegins, CallbackDelivered, CallbackReports
  <2>2. ASSUME NEW t \in Threads, thread[t].at = "serve", thread[t].result = "SUCCEEDED"
        PROVE  cb'.at \in {"none", "fail"}
    BY <1>3, <1>4, <2>2 DEF CallbackBegins, CallbackDelivered, CallbackReports
  <2>3. ListInv'
    BY <1>0, <1>1, <2>1 DEF ListInv, Live
  <2>4. ASSUME NEW t \in Threads PROVE Progress(t)'
    BY <1>0, <1>1, <2>1, <2>2 DEF Progress, Live
  <2> QED
    BY <1>2, <2>3, <2>4 DEF QuietNow
<1>5. ASSUME NEW x \in Transfers, NEW s \in Statuses, Complete(x, s) PROVE QuietNow'
  <2>1. /\ TransferIs(x, "done", transfer[x].list_index, transfer[x].image)
        /\ transfer[x].at = "submitted" /\ UNCHANGED <<transfer_list, cb>>
    BY <1>0, <1>5, CallbackStepsAre DEF Complete
  <2>2. \A y \in Transfers : /\ transfer'[y].list_index = transfer[y].list_index
                             /\ Live(y)' <=> Live(y)
                             /\ transfer[y].at = "done" => transfer'[y].at = "done"
    BY <2>1 DEF Live, TransferIs
  <2>3. ListInv'
    BY <1>0, <1>1, <2>1, <2>2 DEF ListInv
  <2>4. ASSUME NEW t \in Threads PROVE Progress(t)'
    BY <1>0, <1>1, <2>1, <2>2 DEF Progress
  <2> QED
    BY <1>2, <2>3, <2>4 DEF QuietNow
<1>6. CASE CallbackResubmits \/ CallbackResubmitFails \/ usb_cmd_release_xfr
  <2> DEFINE x == cb.of
  <2>1. cb.at # "none"
    BY <1>6 DEF CallbackResubmits, CallbackResubmitFails, usb_cmd_release_xfr
  <2>2. x \in Transfers /\ transfer[x].at = "done" /\ Live(x)
    BY <1>0, <2>1, Fields DEF CallbackInv, Live
  (* Nobody is between finding a transfer and cancelling it; when the      *)
  (* thread serves libusb, the callback does not submit again.             *)
  <2>3. ASSUME NEW t \in Threads
        PROVE  /\ thread[t].at # "exited"
               /\ thread[t].at \in Cancel => thread[t].result = "SUCCEEDED" /\ thread[t].at = "serve"
               /\ thread[t].at = "serve" => cb.at = "fail"
    <3>1. thread[t].at # "exited"
      BY <1>0, <2>2 DEF Progress
    <3>2. thread[t].at \in Cancel => thread[t].result = "SUCCEEDED"
      BY <1>0, <2>2, Fields DEF Progress
    <3>3. thread[t].at \in Cancel => thread[t].at = "serve"
      BY <1>0, <2>1, <3>2, Alone
    <3> QED
      BY <1>3, <2>1, <3>1, <3>2, <3>3 DEF Cancel
  <2>4. \/ /\ cb.at = "reuse" /\ TransferIs(x, "submitted", transfer[x].list_index, transfer[x].image)
           /\ transfer_list' = transfer_list
        \/ /\ TransferIs(x, transfer[x].at, transfer[x].list_index, FALSE)
           /\ cb.at = "reuse" /\ transfer_list' = transfer_list
        \/ /\ TransferIs(x, "free", 0, FALSE) /\ ClearEntry(x) /\ cb'.at = "none"
    <3>1. CASE CallbackResubmits
      BY <1>0, <2>2, <3>1, CallbackStepsAre DEF CallbackResubmits
    <3>2. CASE CallbackResubmitFails
      BY <1>0, <2>2, <3>2, CallbackStepsAre DEF CallbackResubmitFails
    <3>3. CASE usb_cmd_release_xfr
      BY <1>0, <2>2, <3>3, CallbackStepsAre DEF usb_cmd_release_xfr, NoCallback
    <3> QED
      BY <1>6, <3>1, <3>2, <3>3
  <2> HIDE DEF x
  <2>5. \A y \in Transfers : Live(y)' => Live(y) /\ transfer'[y].list_index = transfer[y].list_index
    BY <2>2, <2>4 DEF Live, TransferIs
  <2>6. ASSUME NEW i \in Indices, transfer_list[i] # x PROVE transfer_list'[i] = transfer_list[i]
    BY <1>0, <2>4, <2>6 DEF ClearEntry, StreamTypes
  <2>7. CASE cb.at = "reuse" /\ transfer_list' = transfer_list
    <3>1. ListInv'
      BY <1>0, <1>1, <2>5, <2>7 DEF ListInv
    <3>2. ASSUME NEW t \in Threads PROVE Progress(t)'
      <4>1. thread[t].at \notin Cancel \cup {"exited"}
        BY <2>3, <2>7
      <4> QED
        BY <1>0, <1>1, <2>5, <2>7, <4>1 DEF Progress, Cancel
    <3> QED
      BY <1>2, <3>1, <3>2 DEF QuietNow
  <2>8. CASE TransferIs(x, "free", 0, FALSE) /\ ClearEntry(x) /\ cb'.at = "none"
    <3>1. \A y \in Transfers : Live(y)' => y # x /\ transfer'[y] = transfer[y]
      BY <2>8 DEF TransferIs, Live
    <3>2. ListInv'
      <4>1. ASSUME NEW y \in Transfers, Live(y)' PROVE transfer_list'[transfer'[y].list_index] = y
        <5>1. /\ transfer_list[transfer[y].list_index] = y /\ y # x /\ transfer[y].list_index \in Indices
              /\ transfer'[y].list_index = transfer[y].list_index
          BY <1>0, <2>5, <3>1, <4>1 DEF ListInv, ImageInv, Live
        <5> QED
          BY <2>6, <5>1
      <4> QED
        BY <1>0, <1>1, <2>5, <4>1 DEF ListInv
    <3>3. ASSUME NEW t \in Threads PROVE Progress(t)'
      <4>1. thread[t].at = "submit" => transfer_list'[thread[t].i] = thread[t].found
        <5>1. SUFFICES ASSUME thread[t].at = "submit" PROVE transfer_list'[thread[t].i] = thread[t].found
          OBVIOUS
        <5>2. /\ thread[t].i \in Indices /\ thread[t].found # x
              /\ transfer_list[thread[t].i] = thread[t].found
          BY <1>0, <2>2, <5>1 DEF FoundInv, Progress
        <5> QED
          BY <2>6, <5>2
      <4>2. thread[t].at = "serve" =>
              \A y \in Transfers : Live(y)' /\ transfer'[y].list_index = thread[t].i => transfer'[y].at = "done"
        BY <1>0, <2>5, <3>1 DEF Progress
      <4> QED
        BY <1>0, <1>1, <2>3, <2>5, <2>8, <4>1, <4>2 DEF Progress, Cancel
    <3> QED
      BY <1>2, <3>2, <3>3 DEF QuietNow
  <2> QED
    BY <2>4, <2>7, <2>8
<1> QED
  BY <1>4, <1>5, <1>6

LEMMA QuietStep ==
  ASSUME StreamInv, Steps, UNCHANGED faults
  PROVE  QuietInv'
<1> SUFFICES ASSUME SetupWorks PROVE QuietNow'
  BY DEF QuietInv, QuietNow, SetupWorks
<1>1. AliveInv /\ QuietNow
  BY DEF StreamInv, QuietInv, QuietNow
<1>2. ASSUME NEW t \in Threads, EventThread(t) PROVE QuietNow'
  BY <1>1, <1>2, Quiet_Setup, Quiet_Cancel DEF EventThread
<1>3. CASE Events
  BY <1>1, <1>3, Quiet_Events, Quiet_Callback DEF Events
<1>4. ASSUME NEW x \in Transfers, NEW s \in Statuses, Complete(x, s) PROVE QuietNow'
  BY <1>1, <1>4, Quiet_Callback
<1> QED
  BY <1>1, <1>2, <1>3, <1>4, Quiet_StartStop DEF Steps, Statuses

LEMMA StreamInductive == (Init => StreamInv) /\ (StreamInv /\ [Next]_vars => StreamInv')
<1>1. Init => StreamInv
  <2> SUFFICES ASSUME Init PROVE StreamInv
    OBVIOUS
  <2>1. AliveInv
    BY AliveInit
  <2>2. OneThread
    BY StreamAssumption DEF Init, OneThread, NoThread, Cancel
  <2>3. ListInv
    BY DEF Init, ListInv, Live, Free
  <2>4. \A t \in Threads : Progress(t)
    BY DEF Init, Progress, NoThread, Cancel
  <2> QED
    BY <2>1, <2>2, <2>3, <2>4 DEF StreamInv, QuietInv
<1>2. ASSUME StreamInv, Next PROVE StreamInv'
  BY <1>2, AliveStep, QuietStep DEF StreamInv, Next
<1>3. ASSUME StreamInv, UNCHANGED vars PROVE StreamInv'
  <2>1. AliveInv'
    BY <1>3 DEF StreamInv, AliveInv, StreamTypes, NothingDangling, FoundInv, CallbackInv, ImageInv, vars, context
  <2>2. QuietInv'
    BY <1>3 DEF StreamInv, QuietInv, SetupWorks, OneThread, ListInv, Progress, Live, vars, context
  <2> QED
    BY <2>1, <2>2 DEF StreamInv
<1> QED
  BY <1>1, <1>2, <1>3

(* Nobody uses a transfer that was freed: not an entry of transfer_list,   *)
(* not libusb, and not the thread that cancels what it found in the list,  *)
(* for any number of threads, transfers and slots, whichever allocations   *)
(* and submissions fail and whichever thread runs the callbacks.           *)
THEOREM TransfersStayAlive == Spec => []TransfersAlive
<1>1. StreamInv => TransfersAlive
  <2> SUFFICES ASSUME StreamInv PROVE NothingDangling /\ CancelsOnlyLiving
    BY DEF TransfersAlive
  <2>1. NothingDangling /\ StreamTypes /\ FoundInv
    BY DEF StreamInv, AliveInv
  <2>2. ASSUME SetupWorks, NEW t \in Threads, thread[t].at = "cancelling", thread[t].result = "SUCCEEDED"
        PROVE  transfer[thread[t].found].at # "free"
    <3>1. thread[t].i \in Indices /\ transfer_list[thread[t].i] = thread[t].found
      BY <2>2 DEF StreamInv, QuietInv, Progress
    <3>2. thread[t].found # None
      BY <2>1, <2>2, StreamAssumption DEF FoundInv
    <3> QED
      BY <2>1, <3>1, <3>2 DEF NothingDangling
  <2> QED
    BY <2>1, <2>2 DEF CancelsOnlyLiving
<1> QED
  BY <1>1, StreamInductive, PTL DEF Spec

(* "This function will block until the stream is stopped": when            *)
(* usb_cmd_stream_stop has returned, libusb has none of the transfers, no  *)
(* callback is running and there is no thread; and the thread it joins is  *)
(* the only one there is.  For any number of threads, transfers and slots, *)
(* if the transfers can be allocated and no event call fails.              *)
THEOREM StopLeavesQuiet == Spec => []StoppedIsQuiet
<1>1. StreamInv => StoppedIsQuiet
  <2> SUFFICES ASSUME StreamInv, SetupWorks
               PROVE  /\ \A t \in Threads : thread[t].at # "none" => stream_handle = t
                      /\ Stopped => /\ \A x \in Transfers : transfer[x].at \in {"free", "allocated"}
                                    /\ cb = NoCallback
    BY DEF StoppedIsQuiet
  <2>1. StreamTypes /\ CallbackInv /\ OneThread /\ ListInv
    BY DEF StreamInv, AliveInv, QuietInv
  <2>2. ASSUME Stopped, NEW x \in Transfers PROVE transfer[x].at \in {"free", "allocated"}
    BY <2>1, <2>2, Fields DEF Stopped, ListInv, Live
  <2>3. ASSUME Stopped PROVE cb = NoCallback
    <3>1. cb.of = None
      <4>1. cb.of \in Transfers => transfer[cb.of].at # "done"
        BY <2>2, <2>3
      <4> QED
        BY <2>1, <4>1, Fields DEF CallbackInv
    <3>2. cb.at = "none"
      BY <2>1, <3>1 DEF CallbackInv
    <3> QED
      BY <2>1, <3>1, <3>2 DEF StreamTypes, NoCallback
  <2> QED
    BY <2>1, <2>2, <2>3 DEF OneThread
<1> QED
  BY <1>1, StreamInductive, PTL DEF Spec
=============================================================================
