------------------------------- MODULE Color -------------------------------
(***************************************************************************)
(* The color component: src/src/color/color.cpp over either camera reader. *)
(***************************************************************************)
EXTENDS UvcReader, MfReader

vars == <<apiVars, uvc, mfVars>>

Init == ApiInit /\ UvcInit /\ MfInit

Next ==
  \/ ApiNext /\ UNCHANGED <<uvc, mfVars>>
  \/ platform = "uvc" /\ UvcNext /\ UNCHANGED mfVars
  \/ platform = "mf" /\ MfNext /\ UNCHANGED uvc

(* A thread that can go on does; one that wants the lock gets it some day, *)
(* for it is free between two frames.  Media Foundation completes a flush. *)
Step(t) ==
  \/ t \in Callers /\ (StopsReader(t) \/ FreesContext(t)) /\ UNCHANGED <<uvc, mfVars>>
  \/ platform = "uvc" /\ UvcThread(t) /\ UNCHANGED mfVars
  \/ platform = "mf" /\ MfThread(t) /\ UNCHANGED uvc
  \/ platform = "mf" /\ t \in Workers /\ FlushCompletes(t) /\ UNCHANGED uvc

Fairness ==
  /\ \A t \in Callers : SF_vars(Step(t))
  /\ \A t \in Workers : SF_vars(Step(t))

Spec == Init /\ [][Next]_vars
FairSpec == Spec /\ Fairness

-----------------------------------------------------------------------------
(* Properties                                                              *)

Delivers(t) == At(t, "sample")

CR == INSTANCE ColorReader WITH on <- started, delivering <- \E w \in Workers : Delivers(w)

(* Both readers implement the promise of color_stop: samples come one at a *)
(* time, only while the stream is started, and Stop takes effect between   *)
(* two of them, even when the pipeline reports errors.                     *)
ImplementsColorReader == CR!Spec

(* What a call uses is there as long as the call lasts, if the pipeline    *)
(* has no errors: the callback while it runs, the device while libuvc or   *)
(* Media Foundation work for the reader; and once the handle is destroyed  *)
(* nothing is left.                                                        *)
NothingUsedAfterRelease ==
  ~errors =>
    /\ \A w \in Workers : At(w, "sample") \/ At(w, "failure") => m_pCallback
    /\ uvc # "idle" => Resources \subseteq held
    /\ mf.reads > 0 \/ mf.flush => MfResources \subseteq held
    /\ \A w \in Workers : At(w, "ReadNext") \/ At(w, "OnFlush") => MfResources \subseteq held
    /\ color = "none" => held = {}

(* A started Media Foundation stream always has a sample requested, or a   *)
(* callback that will request the next: a sample that is ignored because   *)
(* of a stale m_flushing would end the stream without an error.            *)
StreamNeverStalls ==
  platform = "mf" /\ ~errors /\ started =>
    \/ mf.reads > 0
    \/ \E w \in Workers : At(w, "ReadNext") \/ At(w, "sample") \/ At(w, "failure")
                          \/ (At(w, "OnReadSample") /\ ~m_flushing)

(* Every call returns, if the pipeline has no errors: Stop meets the flush *)
(* it waits for, and no callback and Stop wait for each other.             *)
CallsReturn == \A c \in Callers : ~errors /\ todo[c] # <<>> ~> todo[c] = <<>>

(* Between two callbacks the memory of the frames is with the images the   *)
(* application has kept, and nowhere else, whichever step of a callback    *)
(* has failed: but for the frames of which no image could be created.      *)
FramesGivenBack ==
  (\A w \in Workers : ~At(w, "sample") /\ ~At(w, "failure"))
    => memory.out = memory.kept + memory.lost

(* With several devices attached, the color camera that is streaming is    *)
(* that of the device the handle was opened for.                           *)
OwnCamera == platform = "mf" /\ started => camera = OwnContainer

=============================================================================
