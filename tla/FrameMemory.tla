---------------------------- MODULE FrameMemory ----------------------------
(***************************************************************************)
(* The memory of the color frames: the buffer the Linux reader allocates   *)
(* for a frame (UVCCameraReader::Callback), the CFrameContext that locks a *)
(* Media Foundation sample, and the buffer CreateImageCopy allocates.  An  *)
(* image gives its memory back with its last reference.                    *)
(***************************************************************************)
EXTENDS Naturals

CONSTANTS
  MaxKept,      \* bound on the images the application keeps at a time
  MaxLost       \* bound on the frames of which no image can be created

VARIABLE memory
  \* out:   pieces of memory taken and not given back
  \* own:   of these, what the running callback will delete itself
  \* image: of these, what the image of the running callback holds
  \* kept:  images the application has a reference to
  \* lost:  frames of which image_create_from_buffer failed to make an image

FrameInit == memory = [out |-> 0, own |-> 0, image |-> 0, kept |-> 0, lost |-> 0]

Taken(m) == [m EXCEPT !.out = @ + 1]
GivenBack(m) == [m EXCEPT !.out = @ - 1]
Imaged(m) == [m EXCEPT !.image = 1]
Owned(m) == [m EXCEPT !.own = 1]
Lost(m) == [m EXCEPT !.lost = @ + 1]

(* What may come of making the image and the capture of a frame: what the  *)
(* sample callback will get, and the memory.                               *)
Outcome(result, m) == [result |-> result, memory |-> m]

-----------------------------------------------------------------------------
(* UVCCameraReader                                                         *)

NoCleanup(m) == m                                                \* mutant

(* "cleanup if there was an error" *)
Cleanup(m) == GivenBack(m)

(* No buffer; no image decoded; the image not created, and nobody frees    *)
(* the buffer; no capture; or all of them.                                 *)
UvcFrames ==
  {Outcome("failure", memory),
   Outcome("failure", Cleanup(Taken(memory))),
   Outcome("failure", Lost(Taken(memory))),
   Outcome("failure", Imaged(Taken(memory))),
   Outcome("sample", Imaged(Taken(memory)))}

-----------------------------------------------------------------------------
(* CMFCameraReader                                                         *)

(* ~CFrameContext *)
DeleteContext(m) == GivenBack(m)

(* The image holds the context, FrameDestroyCallback deletes it.  When     *)
(* there is no image FrameContextRefd is set all the same.                 *)
CreateImage(m) == {Imaged(m), Lost(m)}

(* The image holds a copy, and the context is deleted after the callback;  *)
(* a buffer without an image is freed.                                     *)
CreateImageCopy(m) == {Owned(m), Owned(GivenBack(Taken(m))), Owned(Imaged(Taken(m)))}

(* No context; a time stamp of 0; no image; no capture or no device time   *)
(* stamp; or all of them.                                                  *)
MfFrames(m_use_mf_buffer) ==
  LET context == Taken(memory)
      images == IF m_use_mf_buffer THEN CreateImage(context) ELSE CreateImageCopy(context)
  IN {Outcome("failure", memory), Outcome("dropped", DeleteContext(context))}
     \cup {Outcome("failure", m) : m \in images}
     \cup {Outcome("sample", m) : m \in {i \in images : i.image = 1}}

-----------------------------------------------------------------------------

Bounded(outcomes) == {o \in outcomes : o.memory.lost <= MaxLost}

(* The callback deletes what it owns and drops its reference to the image. *)
Released(m) == [m EXCEPT !.out = @ - m.own - m.image, !.own = 0, !.image = 0]

(* The application keeps the capture it was given (capturesync does), and  *)
(* drops it on a thread of its own.                                        *)
KeepsCapture ==
  /\ memory.image = 1
  /\ memory.kept < MaxKept
  /\ memory' = [memory EXCEPT !.image = 0, !.kept = @ + 1]

DropsCapture ==
  /\ memory.kept > 0
  /\ memory' = [GivenBack(memory) EXCEPT !.kept = @ - 1]

=============================================================================
