----------------------------- MODULE UvcReader -----------------------------
(***************************************************************************)
(* UVCCameraReader of src/src/color/uvc_camerareader.cpp: the reader on    *)
(* Linux.  libuvc calls it back on a thread of its own; m_mutex orders the *)
(* callback against Start and Stop.                                        *)
(***************************************************************************)
EXTENDS ColorApi

VARIABLE uvc      \* the stream in libuvc: "idle", "running" or "stopping"

UvcInit == uvc = "idle"

Resources == {"context", "device", "handle"}

-----------------------------------------------------------------------------
(* Init, with uvc_init, uvc_find_device and uvc_open; a failure shuts down *)
(* what was opened.                                                        *)
UvcInitialize(c) ==
  /\ At(c, "Init")
  /\ \/ /\ color' = "created"
        /\ held' = Resources
        /\ Then(c, <<>>)
     \/ /\ color' \in {"destroying", "no reader"}
        /\ Then(c, Destruction)
        /\ UNCHANGED held
  /\ UNCHANGED <<platform, errors, m_lock, started, m_pCallback, memory, uvc>>

(* Start, all of it under m_mutex.  It fails when the stream was started,  *)
(* the format is not supported or libuvc refuses it, as it does while the  *)
(* stream still runs.                                                      *)
UvcStart(c) ==
  /\ At(c, "Start")
  /\ m_lock = Free
  /\ \/ /\ ~started
        /\ uvc = "idle"
        /\ uvc' = "running"
        /\ started' = TRUE
        /\ m_pCallback' = TRUE
        /\ Then(c, <<>>)
     \/ /\ StartFailed(c)
        /\ UNCHANGED <<uvc, started, m_pCallback>>
     \/ /\ ~started
        /\ StartFailed(c)
        /\ m_pCallback' = FALSE
        /\ UNCHANGED <<uvc, started>>
  /\ UNCHANGED <<platform, errors, color, m_lock, held, memory>>

StopUnlocked == TRUE                                             \* mutant

(* std::unique_lock<std::mutex> lock(m_mutex) in Stop *)
StopLocks == m_lock = Free

(* "Call uvc_stop_streaming() without lock": the state is cleared first.   *)
UvcStop(c) ==
  /\ At(c, "Stop")
  /\ StopLocks
  /\ started' = FALSE
  /\ m_pCallback' = IF started THEN FALSE ELSE m_pCallback
  /\ Then(c, IF started THEN <<"uvc_stop_streaming">> ELSE <<>>)
  /\ UNCHANGED <<platform, errors, color, m_lock, held, memory, uvc>>

(* uvc_stop_streaming lets no new callback begin, and returns when the     *)
(* last one has.                                                           *)
StopStreamingBegins(c) ==
  /\ At(c, "uvc_stop_streaming")
  /\ uvc = "running"
  /\ uvc' = "stopping"
  /\ UNCHANGED apiVars

StopStreamingEnds(c) ==
  /\ At(c, "uvc_stop_streaming")
  /\ uvc = "stopping"
  /\ \A w \in Workers : Idle(w)
  /\ uvc' = "idle"
  /\ Then(c, <<>>)
  /\ UNCHANGED <<platform, errors, color>> /\ UNCHANGED_reader

(* Shutdown: Stop, then everything that is there is closed.                *)
UvcShutdown(c) ==
  /\ At(c, "Shutdown")
  /\ Then(c, IF color = "no reader" THEN <<>> ELSE <<"Stop", "close">>)
  /\ UNCHANGED <<platform, errors, color, uvc>> /\ UNCHANGED_reader

UvcClose(c) ==
  /\ At(c, "close")
  /\ held' = {}
  /\ Then(c, <<>>)
  /\ UNCHANGED <<platform, errors, color, m_lock, started, m_pCallback, memory, uvc>>

-----------------------------------------------------------------------------
(* libuvc's thread.                                                        *)

FrameArrives(w) ==
  /\ uvc = "running"
  /\ \A t \in Workers : Idle(t)
  /\ Begin(w, <<"Callback">>)
  /\ UNCHANGED <<platform, errors, color, uvc>> /\ UNCHANGED_reader

(* The frame comes too late, or has the time stamp 0.                      *)
CallbackDrops(w) ==
  /\ At(w, "Callback")
  /\ m_lock = Free
  /\ Then(w, <<>>)
  /\ UNCHANGED <<platform, errors, color, uvc>> /\ UNCHANGED_reader

(* DecodeMJPEGtoBGRA32 makes the decoder when it is first needed.          *)
Decoder == held' \in {held, held \cup {"decoder"}}

(* The frame is copied or decoded into an image of a new capture; with a   *)
(* step that fails, the callback gets the failure and no capture.          *)
CallbackCalls(w) ==
  /\ At(w, "Callback")
  /\ m_lock = Free
  /\ started
  /\ Decoder
  /\ m_lock' = w
  /\ \E frame \in Bounded(UvcFrames) :
       /\ Then(w, <<frame.result>>)
       /\ memory' = frame.memory
  /\ UNCHANGED <<platform, errors, color, started, m_pCallback, uvc>>

CallbackReturns(w) ==
  /\ At(w, "sample") \/ At(w, "failure")
  /\ m_lock' = Free
  /\ memory' = Released(memory)
  /\ Then(w, <<>>)
  /\ UNCHANGED <<platform, errors, color, started, m_pCallback, held, uvc>>

UvcThread(t) ==
  \/ UvcInitialize(t)
  \/ UvcStart(t)
  \/ UvcStop(t)
  \/ StopStreamingBegins(t)
  \/ StopStreamingEnds(t)
  \/ UvcShutdown(t)
  \/ UvcClose(t)
  \/ CallbackDrops(t)
  \/ CallbackCalls(t)
  \/ CallbackReturns(t)

UvcNext ==
  \/ \E t \in Threads : UvcThread(t)
  \/ \E w \in Workers : FrameArrives(w)
  \/ \E w \in Workers : Keeps(w) /\ UNCHANGED uvc

=============================================================================
