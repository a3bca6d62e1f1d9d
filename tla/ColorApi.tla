------------------------------ MODULE ColorApi ------------------------------
(***************************************************************************)
(* color_create, color_start, color_stop and color_destroy of              *)
(* src/src/color/color.cpp, and the state the two camera readers under     *)
(* them have in common.  UvcReader and MfReader model the readers.         *)
(*                                                                         *)
(* A thread is the sequence of steps it has still to take; its first step  *)
(* is the one it is at.  A step that calls a function replaces itself by   *)
(* the function's steps.                                                   *)
(***************************************************************************)
EXTENDS Naturals, Sequences, FrameMemory

CONSTANTS
  Callers,      \* threads that use the color handle
  Workers       \* threads on which the system calls the reader back

Free == "free"

ASSUME ThreadAssumption ==
  /\ Callers \cap Workers = {}
  /\ Free \notin Workers

VARIABLES
  platform,     \* "uvc" or "mf": which reader was built
  errors,       \* whether the Media Foundation pipeline may report errors
  color,        \* whether the handle exists, and its reader
  todo,         \* thread -> the steps it has still to take
  m_lock,       \* UVCCameraReader::m_mutex, CMFCameraReader::m_lock
  started,      \* m_streaming, m_started
  m_pCallback,  \* whether it is set; m_pCallbackContext always is with it
  held          \* what the reader has got from the system

apiVars == <<platform, errors, color, todo, m_lock, started, m_pCallback, held, memory>>

Threads == Callers \cup Workers

ApiInit ==
  /\ platform \in {"uvc", "mf"}
  /\ errors \in BOOLEAN
  /\ platform = "uvc" => ~errors
  /\ color = "none"
  /\ todo = [t \in Threads |-> <<>>]
  /\ m_lock = Free
  /\ started = FALSE
  /\ m_pCallback = FALSE
  /\ held = {}
  /\ FrameInit

At(t, step) == todo[t] # <<>> /\ Head(todo[t]) = step

(* The step is done, and the given ones come next.                         *)
Then(t, steps) == todo' = [todo EXCEPT ![t] = steps \o Tail(@)]

Idle(t) == todo[t] = <<>>
Begin(t, steps) == Idle(t) /\ todo' = [todo EXCEPT ![t] = steps]

UNCHANGED_reader == UNCHANGED <<m_lock, started, m_pCallback, held, memory>>

-----------------------------------------------------------------------------

(* The context is allocated, and the reader initialised next.  Bound: the  *)
(* last callbacks to an earlier reader have returned.                      *)
color_create(c) ==
  /\ color = "none"
  /\ \A t \in Threads : Idle(t)
  /\ Begin(c, <<"Init">>)
  /\ color' = "creating"
  /\ UNCHANGED <<platform, errors>> /\ UNCHANGED_reader

(* What color_create does when Init has failed.                            *)
Destruction == <<"stop", "Shutdown", "destroy">>

(* An unknown resolution or frame rate returns at once; when the tick      *)
(* cannot be read the camera is stopped.                                   *)
color_start(c) ==
  /\ color = "created"
  /\ \/ Begin(c, <<"Start">>)
     \/ Begin(c, <<"stop">>)
  /\ UNCHANGED <<platform, errors, color>> /\ UNCHANGED_reader

(* While the sample callback runs the application may take a reference.    *)
Keeps(w) ==
  /\ At(w, "sample")
  /\ KeepsCapture
  /\ UNCHANGED <<platform, errors, color, todo, m_lock, started, m_pCallback, held>>

(* What color_start does when the reader's Start has failed.               *)
StartFailed(c) == Then(c, <<"stop">>)

color_stop(c) ==
  /\ color = "created"
  /\ Begin(c, <<"stop">>)
  /\ UNCHANGED <<platform, errors, color>> /\ UNCHANGED_reader

StopsReader(c) ==
  /\ At(c, "stop")
  /\ Then(c, IF color = "no reader" THEN <<>> ELSE <<"Stop">>)
  /\ UNCHANGED <<platform, errors, color>> /\ UNCHANGED_reader

(* The caller sees to it that nobody else uses the handle any more.        *)
color_destroy(c) ==
  /\ color = "created"
  /\ \A t \in Callers : Idle(t)
  /\ Begin(c, Destruction)
  /\ color' = "destroying"
  /\ UNCHANGED <<platform, errors>> /\ UNCHANGED_reader

FreesContext(c) ==
  /\ At(c, "destroy")
  /\ Then(c, <<>>)
  /\ color' = "none"
  /\ UNCHANGED <<platform, errors>> /\ UNCHANGED_reader

(* Two callers on Linux, where m_mutex orders Start and Stop; on Windows   *)
(* m_started is read without the lock, and one thread uses the handle.     *)
MayCall(c) == platform = "mf" => \A t \in Callers \ {c} : Idle(t)

ApiNext ==
  \E c \in Callers :
    \/ MayCall(c) /\ color_create(c)
    \/ MayCall(c) /\ color_start(c)
    \/ MayCall(c) /\ color_stop(c)
    \/ MayCall(c) /\ color_destroy(c)
    \/ StopsReader(c)
    \/ FreesContext(c)
    \/ DropsCapture /\ UNCHANGED <<platform, errors, color, todo, m_lock, started, m_pCallback, held>>

=============================================================================
