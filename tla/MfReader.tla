------------------------------ MODULE MfReader ------------------------------
(***************************************************************************)
(* CMFCameraReader of src/src/color/mfcamerareader.cpp: the reader on      *)
(* Windows.  Media Foundation answers each ReadSample by OnReadSample and  *)
(* each Flush by OnFlush, on work queue threads.                           *)
(***************************************************************************)
EXTENDS ColorApi

CONSTANTS
  MaxReads,         \* bound on the samples requested at a time
  OwnContainer,     \* the container id of the device the handle is for
  CameraLists       \* what MFEnumDeviceSources may give: sequences of
                    \* [link, color, container], by what the system tells of them

None == "none"
GUID_NULL == "GUID_NULL"

(* The container of a device has an id.                                    *)
ASSUME CameraAssumption ==
  /\ OwnContainer \notin {None, GUID_NULL}
  /\ \A cameras \in CameraLists :
       cameras \in Seq([link : BOOLEAN, color : BOOLEAN, container : STRING])

VARIABLES
  m_use_mf_buffer,  \* whether images hold Media Foundation's buffers
  camera,           \* the container id of the camera that was opened
  m_flushing,
  m_hStreamFlushed, \* the auto-reset event
  mf                \* Media Foundation: requests, a flush, the selected stream

mfVars == <<m_use_mf_buffer, camera, m_flushing, m_hStreamFlushed, mf>>

MfInit ==
  /\ m_use_mf_buffer = TRUE
  /\ camera = None
  /\ m_flushing = FALSE
  /\ m_hStreamFlushed = FALSE
  /\ mf = [reads |-> 0, flush |-> FALSE, selected |-> FALSE]

MfResources == {"startup", "source reader", "event"}

-----------------------------------------------------------------------------
(* The camera                                                              *)

(* GetDeviceProperty for the container id: a property of size 0 leaves the *)
(* caller's GUID_NULL.                                                     *)
GetDeviceProperty(property) ==
  CASE property \in {"no instance", "no node", "too large", "unreadable"} -> None
    [] property = "empty" -> GUID_NULL
    [] OTHER -> property

AnyContainer(cam, id) == cam.link /\ cam.color                    \* mutant

Matches(cam, id) == cam.link /\ cam.color /\ GetDeviceProperty(cam.container) = id

(* The first camera whose symbolic link can be read, has the identifier of *)
(* a color camera, and is in the container; the camera stands by its       *)
(* container.                                                              *)
FindEdenColorCamera(id, cameras) ==
  LET found == {i \in DOMAIN cameras : Matches(cameras[i], id)}
  IN IF found = {} THEN None
     ELSE cameras[CHOOSE i \in found : \A j \in found : i <= j].container

-----------------------------------------------------------------------------
(* RuntimeClassInitialize, which opens the camera with the container id of *)
(* the device; when a step of it fails the reader is deleted.              *)
MfInitialize(c) ==
  /\ At(c, "Init")
  /\ m_use_mf_buffer' \in BOOLEAN
  /\ \/ \E cameras \in CameraLists :
          LET found == FindEdenColorCamera(OwnContainer, cameras)
          IN /\ found # None
             /\ color' = "created"
             /\ held' = MfResources
             /\ camera' = found
             /\ Then(c, <<>>)
     \/ /\ color' = "no reader"
        /\ Then(c, Destruction)
        /\ UNCHANGED <<held, camera>>
  /\ UNCHANGED <<platform, errors, m_lock, started, m_pCallback, memory, m_flushing, m_hStreamFlushed, mf>>

(* m_started is read without the lock; a started reader is left as it is,  *)
(* with success.  The media type is looked up and set, the stream is       *)
(* selected.                                                               *)
MfStart(c) ==
  /\ At(c, "Start")
  /\ \/ /\ started
        /\ Then(c, <<>>)
        /\ UNCHANGED mf
     \/ /\ ~started
        /\ Then(c, <<"ReadFirst">>)
        /\ mf' = [mf EXCEPT !.selected = TRUE]
     \/ /\ StartFailed(c)
        /\ UNCHANGED mf
  /\ UNCHANGED <<platform, errors, color, m_use_mf_buffer, camera, m_flushing, m_hStreamFlushed>> /\ UNCHANGED_reader

(* ReadSample is refused during a flush and without a selected stream.     *)
MayRead == mf.selected /\ ~mf.flush

MfReadFirst(c) ==
  /\ At(c, "ReadFirst")
  /\ m_lock = Free
  /\ m_pCallback' = TRUE
  /\ \/ /\ MayRead
        /\ mf.reads < MaxReads
        /\ mf' = [mf EXCEPT !.reads = @ + 1]
        /\ started' = TRUE
        /\ Then(c, <<>>)
     \/ /\ StartFailed(c)
        /\ UNCHANGED <<mf, started>>
  /\ UNCHANGED <<platform, errors, color, m_lock, held, memory, m_use_mf_buffer, camera,
                 m_flushing, m_hStreamFlushed>>

(* The flush is requested under the exclusive lock; a request that fails   *)
(* is waited for all the same.                                             *)
MfStop(c) ==
  /\ At(c, "Stop")
  /\ m_lock = Free
  /\ started' = FALSE
  /\ IF started
     THEN /\ Then(c, <<"Wait">>)
          /\ \/ /\ m_flushing' = TRUE
                /\ mf' = [mf EXCEPT !.flush = TRUE]
             \/ errors /\ UNCHANGED <<m_flushing, mf>>
     ELSE Then(c, <<>>) /\ UNCHANGED <<m_flushing, mf>>
  /\ UNCHANGED <<platform, errors, color, m_lock, m_pCallback, held, memory, m_use_mf_buffer, camera,
                 m_hStreamFlushed>>

NotWaitedFor == TRUE                                             \* mutant
Flushed == m_hStreamFlushed

(* WAIT_OBJECT_0 *)
MfWaitEnds(c) ==
  /\ At(c, "Wait")
  /\ Flushed
  /\ m_hStreamFlushed' = FALSE
  /\ Then(c, <<>>)
  /\ UNCHANGED <<platform, errors, color, m_use_mf_buffer, camera, m_flushing, mf>> /\ UNCHANGED_reader

(* WAIT_TIMEOUT: waits again, without end.                                 *)
MfWaitTimesOut(c) ==
  /\ At(c, "Wait")
  /\ ~m_hStreamFlushed
  /\ UNCHANGED <<apiVars, mfVars>>

MfShutdown(c) ==
  /\ At(c, "Shutdown")
  /\ Then(c, IF color = "no reader" THEN <<>>
             ELSE IF started THEN <<"Stop", "Reset">> ELSE <<"Reset">>)
  /\ UNCHANGED <<platform, errors, color, mfVars>> /\ UNCHANGED_reader

(* The source reader is released, and with the last reference to it the    *)
(* camera reader: ~CMFCameraReader.                                        *)
MfReset(c) ==
  /\ At(c, "Reset")
  /\ held' = {}
  /\ Then(c, <<>>)
  /\ m_hStreamFlushed' = FALSE
  /\ mf' = [mf EXCEPT !.reads = 0]
  /\ camera' = None
  /\ UNCHANGED <<platform, errors, color, m_lock, started, m_pCallback, memory, m_use_mf_buffer, m_flushing>>

-----------------------------------------------------------------------------
(* OnReadSample                                                            *)

(* A request is answered, with a sample or with the pipeline's error.      *)
ReadCompletes(w) ==
  /\ mf.reads > 0
  /\ mf' = [mf EXCEPT !.reads = @ - 1]
  /\ \/ Begin(w, <<"OnReadSample">>)
     \/ errors /\ Begin(w, <<"OnReadSample failed">>)
  /\ UNCHANGED <<platform, errors, color, m_use_mf_buffer, camera, m_flushing, m_hStreamFlushed>> /\ UNCHANGED_reader

Samples == started /\ ~m_flushing

SampleIgnored(w) ==
  /\ At(w, "OnReadSample")
  /\ m_lock = Free
  /\ ~Samples
  /\ Then(w, <<>>)
  /\ UNCHANGED <<platform, errors, color, mfVars>> /\ UNCHANGED_reader

(* Without a sample or a callback, and when the frame is dropped, the next *)
(* one is asked for at once.                                               *)
SampleTaken(w) ==
  /\ At(w, "OnReadSample")
  /\ m_lock = Free
  /\ Samples
  /\ m_lock' = w
  /\ \/ Then(w, <<"ReadNext">>) /\ UNCHANGED memory
     \/ /\ m_pCallback
        /\ \E frame \in Bounded(MfFrames(m_use_mf_buffer)) :
             /\ memory' = frame.memory
             /\ Then(w, IF frame.result = "dropped" THEN <<"ReadNext">>
                        ELSE <<frame.result, "ReadNext">>)
  /\ UNCHANGED <<platform, errors, color, started, m_pCallback, held, mfVars>>

(* m_pCallback returns.                                                    *)
MfCallbackReturns(w) ==
  /\ At(w, "sample") \/ At(w, "failure")
  /\ memory' = Released(memory)
  /\ Then(w, <<>>)
  /\ UNCHANGED <<platform, errors, color, m_lock, started, m_pCallback, held, mfVars>>

ReadNext(w) ==
  /\ At(w, "ReadNext")
  /\ m_lock' = Free
  /\ \/ /\ mf.reads < MaxReads
        /\ mf' = [mf EXCEPT !.reads = @ + 1]
        /\ Then(w, <<>>)
     \/ errors /\ Then(w, <<"report">>) /\ UNCHANGED mf
  /\ UNCHANGED <<platform, errors, color, started, m_pCallback, held, memory, m_use_mf_buffer, camera,
                 m_flushing, m_hStreamFlushed>>

(* "Notify upper layers of failed status": no lock, no look at m_pCallback. *)
NotifyError(w) ==
  /\ At(w, "OnReadSample failed")
  /\ Then(w, <<"error", "report">>)
  /\ UNCHANGED <<platform, errors, color, mfVars>> /\ UNCHANGED_reader

(* "Stop and clean up", after the callback has been called again.          *)
Report(w) ==
  /\ At(w, "report")
  /\ Then(w, IF m_pCallback THEN <<"error", "Stop">> ELSE <<>>)
  /\ UNCHANGED <<platform, errors, color, mfVars>> /\ UNCHANGED_reader

ErrorReturns(w) ==
  /\ At(w, "error")
  /\ Then(w, <<>>)
  /\ UNCHANGED <<platform, errors, color, mfVars>> /\ UNCHANGED_reader

-----------------------------------------------------------------------------
(* OnFlush                                                                 *)

(* Media Foundation drops the requests, then calls OnFlush.                *)
FlushCompletes(w) ==
  /\ mf.flush
  /\ mf' = [mf EXCEPT !.flush = FALSE, !.reads = 0]
  /\ Begin(w, <<"OnFlush">>)
  /\ UNCHANGED <<platform, errors, color, m_use_mf_buffer, camera, m_flushing, m_hStreamFlushed>> /\ UNCHANGED_reader

SetEventIfDeselected(deselected) == m_hStreamFlushed \/ deselected   \* mutant

(* SetEvent(m_hStreamFlushed), whether or not the stream was deselected.   *)
SetEvent(deselected) == TRUE

(* Under the shared lock, which here only excludes the exclusive ones: a   *)
(* second flush needs a Start first, and with it the exclusive lock.       *)
OnFlush(w) ==
  /\ At(w, "OnFlush")
  /\ m_lock = Free
  /\ m_lock' = w
  /\ \/ /\ ~started
        /\ mf' = [mf EXCEPT !.selected = FALSE]
        /\ m_pCallback' = FALSE
        /\ m_hStreamFlushed' = SetEvent(TRUE)
     \/ /\ m_hStreamFlushed' = SetEvent(FALSE)
        /\ UNCHANGED <<mf, m_pCallback>>
  /\ Then(w, <<"flushed">>)
  /\ UNCHANGED <<platform, errors, color, started, held, memory, m_use_mf_buffer, camera, m_flushing>>

StillFlushing == TRUE                                            \* mutant
NotFlushing == FALSE

OnFlushReturns(w) ==
  /\ At(w, "flushed")
  /\ m_flushing' = NotFlushing
  /\ m_lock' = Free
  /\ Then(w, <<>>)
  /\ UNCHANGED <<platform, errors, color, started, m_pCallback, held, memory, m_use_mf_buffer, camera,
                 m_hStreamFlushed, mf>>

MfThread(t) ==
  \/ MfInitialize(t)
  \/ MfStart(t)
  \/ MfReadFirst(t)
  \/ MfStop(t)
  \/ MfWaitEnds(t)
  \/ MfShutdown(t)
  \/ MfReset(t)
  \/ SampleIgnored(t)
  \/ SampleTaken(t)
  \/ MfCallbackReturns(t)
  \/ ReadNext(t)
  \/ NotifyError(t)
  \/ Report(t)
  \/ ErrorReturns(t)
  \/ OnFlush(t)
  \/ OnFlushReturns(t)

MfNext ==
  \/ \E w \in Workers : Keeps(w) /\ UNCHANGED mfVars
  \/ \E t \in Threads : MfThread(t) \/ MfWaitTimesOut(t)
  \/ \E w \in Workers : ReadCompletes(w) \/ FlushCompletes(w)

=============================================================================
