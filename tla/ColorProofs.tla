---------------------------- MODULE ColorProofs ----------------------------
(***************************************************************************)
(* Proofs about the color component (src/src/color): both camera readers   *)
(* implement ColorReader, what a callback uses is there, a started stream  *)
(* never stalls, the memory of the frames is given back, and the camera is *)
(* that of the device; and a control that was set is read as it was set.   *)
(***************************************************************************)
EXTENDS Color, ColorControl, SequenceTheorems, WellFoundedInduction, TLAPS

-----------------------------------------------------------------------------
(* Where a thread is: the step it is at, and the steps that come after.    *)

First(s) == IF s = <<>> THEN "none" ELSE Head(s)
Others(s) == IF s = <<>> THEN <<>> ELSE Tail(s)

Top(t) == First(todo[t])
Rest(t) == Others(todo[t])

Steps ==
  {"Init", "Start", "ReadFirst", "stop", "Stop", "uvc_stop_streaming", "Wait", "Shutdown",
   "close", "Reset", "destroy", "Callback", "OnReadSample", "OnReadSample failed", "sample",
   "failure", "ReadNext", "report", "error", "OnFlush", "flushed"}

ToShutdown == <<"Shutdown", "destroy">>
ToClose == <<"close", "destroy">>
ToReset == <<"Reset", "destroy">>
ToDestroy == <<"destroy">>

Stopping == {"stop", "Stop", "uvc_stop_streaming", "Wait"}

CallerShape(c) ==
  \/ Top(c) = "none" /\ Rest(c) = <<>>
  \/ color = "creating" /\ Top(c) = "Init" /\ Rest(c) = <<>>
  \/ color = "created" /\ Top(c) \in {"Start", "ReadFirst"} \cup Stopping /\ Rest(c) = <<>>
  \/ color = "no reader" /\ Top(c) = "stop" /\ Rest(c) = ToShutdown
  \/ color = "destroying" /\ Top(c) \in Stopping /\ Rest(c) \in {ToShutdown, ToClose, ToReset}
  \/ color = "destroying" /\ Top(c) \in {"close", "Reset"} /\ Rest(c) = ToDestroy
  \/ color \in {"no reader", "destroying"} /\ Top(c) = "Shutdown" /\ Rest(c) = ToDestroy
  \/ color \in {"no reader", "destroying"} /\ Top(c) = "destroy" /\ Rest(c) = <<>>

WorkerShape(w) ==
  \/ Top(w) = "none" /\ Rest(w) = <<>>
  \/ platform = "uvc" /\ Top(w) \in {"Callback", "sample", "failure"} /\ Rest(w) = <<>>
  \/ platform = "mf" /\ Top(w) \in {"OnReadSample", "ReadNext", "OnFlush", "flushed"} /\ Rest(w) = <<>>
  \/ platform = "mf" /\ Top(w) \in {"sample", "failure"} /\ Rest(w) = <<"ReadNext">>
  \/ errors /\ Top(w) \in {"OnReadSample failed", "report", "Stop", "Wait"} /\ Rest(w) = <<>>
  \/ errors /\ Top(w) = "error" /\ Rest(w) \in {<<"report">>, <<"Stop">>}

(* One thread at a time creates and destroys, and uses a handle on Windows. *)
Solo ==
  platform = "mf" \/ color # "created" =>
    \A c, d \in Callers : Top(c) # "none" /\ Top(d) # "none" => c = d

MfType == [reads : Nat, flush : BOOLEAN, selected : BOOLEAN]

ColorTypes ==
  /\ platform \in {"uvc", "mf"}
  /\ errors \in BOOLEAN /\ (platform = "uvc" => ~errors)
  /\ color \in {"none", "creating", "created", "no reader", "destroying"}
  /\ todo \in [Threads -> Seq(Steps)]
  /\ started \in BOOLEAN /\ m_pCallback \in BOOLEAN /\ m_flushing \in BOOLEAN
  /\ m_hStreamFlushed \in BOOLEAN
  /\ mf \in MfType /\ m_use_mf_buffer \in BOOLEAN

ShapeInv ==
  /\ ColorTypes
  /\ \A c \in Callers : CallerShape(c)
  /\ \A w \in Workers : WorkerShape(w)
  /\ Solo

(* The lock is held by a callback that runs, and by OnFlush.  Start and    *)
(* Stop need the lock, so started and m_pCallback stay while it is held.   *)
LockInv ==
  /\ m_lock \in Workers \cup {Free}
  /\ \A w \in Workers :
       /\ m_lock = w <=> Top(w) \in {"sample", "failure", "ReadNext", "flushed"}
       /\ Top(w) \in {"sample", "failure", "ReadNext"} => started
       /\ Top(w) \in {"sample", "failure"} => m_pCallback

(* What the reader has got from the system, as long as it may need it.     *)
HandleInv ==
  /\ started => color \in {"created", "destroying"}
  /\ \A c \in Callers :
       /\ Top(c) = "uvc_stop_streaming" /\ platform = "uvc" => ~started
       /\ Top(c) = "Wait" /\ platform = "mf" => ~started
       /\ color = "destroying" /\ Top(c) # "none" /\ Rest(c) # ToShutdown => ~started
       /\ Top(c) = "destroy" => held = {}
  /\ color \in {"none", "creating", "no reader"} => held = {}
  /\ platform = "mf" /\ (started \/ color = "created") =>
       camera = OwnContainer /\ MfResources \subseteq held
  /\ platform = "uvc" /\ (started \/ color = "created") => Resources \subseteq held

(* libuvc streams from a successful Start to the uvc_stop_streaming of the *)
(* one thread whose Stop found the stream started.                         *)
UvcInv ==
  /\ platform = "mf" => uvc = "idle"
  /\ uvc # "idle" => Resources \subseteq held
  /\ platform = "uvc" =>
       /\ started => uvc # "idle" /\ m_pCallback
       /\ uvc # "idle" => started \/ \E c \in Callers : Top(c) = "uvc_stop_streaming"
       /\ \A c, d \in Callers :
            Top(c) = "uvc_stop_streaming" =>
              uvc # "idle" /\ (Top(d) = "uvc_stop_streaming" => c = d)

(* Without errors a flush is requested, carried out, answered and reported *)
(* by the event, one after the other, while a Stop waits for it.           *)
MfInv ==
  /\ platform = "uvc" => mf.reads = 0 /\ ~mf.flush
  /\ platform = "mf" /\ ~errors =>
       /\ mf.flush => ~m_hStreamFlushed /\ \A w \in Workers : Top(w) # "OnFlush"
       /\ \A w, v \in Workers : Top(w) = "OnFlush" =>
            ~m_hStreamFlushed /\ (Top(v) = "OnFlush" => v = w)
       /\ \/ mf.flush \/ m_hStreamFlushed
          \/ \E w \in Workers : Top(w) = "OnFlush"
          => \E c \in Callers : Top(c) = "Wait" /\ MfResources \subseteq held
       /\ m_flushing => \/ mf.flush
                        \/ \E w \in Workers : Top(w) \in {"OnFlush", "flushed"}
       /\ started => ~m_flushing
       /\ mf.reads > 0 => started \/ mf.flush
       /\ started => \/ mf.reads > 0
                     \/ \E w \in Workers : Top(w) \in {"OnReadSample", "sample", "failure", "ReadNext"}

(* Every piece of memory is with the running callback, its image, an image *)
(* that was kept, or lost.                                                 *)
MemoryInv ==
  /\ memory \in [out : Nat, own : {0, 1}, image : {0, 1}, kept : Nat, lost : Nat]
  /\ memory.out = memory.own + memory.image + memory.kept + memory.lost
  /\ memory.own + memory.image > 0 => \E w \in Workers : Top(w) \in {"sample", "failure"}

ColorInv == ShapeInv /\ LockInv /\ HandleInv /\ UvcInv /\ MfInv /\ MemoryInv

-----------------------------------------------------------------------------
(* What a step does to the thread that takes it.                           *)

Moves(t, top, rest) ==
  /\ todo' \in [Threads -> Seq(Steps)]
  /\ Top(t)' = top /\ Rest(t)' = rest
  /\ \A u \in Threads \ {t} : Top(u)' = Top(u) /\ Rest(u)' = Rest(u)

LEMMA Lists ==
  /\ First(<<>>) = "none" /\ Others(<<>>) = <<>>
  /\ First(ToShutdown) = "Shutdown" /\ Others(ToShutdown) = ToDestroy
  /\ First(ToClose) = "close" /\ Others(ToClose) = ToDestroy
  /\ First(ToReset) = "Reset" /\ Others(ToReset) = ToDestroy
  /\ First(ToDestroy) = "destroy" /\ Others(ToDestroy) = <<>>
  /\ First(Destruction) = "stop" /\ Others(Destruction) = ToShutdown
  /\ Destruction \o <<>> = Destruction
  /\ \A x \in Steps : /\ First(<<x>>) = x /\ Others(<<x>>) = <<>>
                       /\ <<x>> \o <<>> = <<x>>
<1>1. /\ First(<<>>) = "none" /\ Others(<<>>) = <<>>
  BY DEF First, Others
<1>2. /\ First(ToShutdown) = "Shutdown" /\ Others(ToShutdown) = ToDestroy
      /\ First(ToClose) = "close" /\ Others(ToClose) = ToDestroy
      /\ First(ToReset) = "Reset" /\ Others(ToReset) = ToDestroy
  BY DEF First, Others, ToShutdown, ToClose, ToReset, ToDestroy
<1>3. /\ First(ToDestroy) = "destroy" /\ Others(ToDestroy) = <<>>
      BY DEF First, Others, ToClose, ToReset, ToDestroy
<1>4. /\ First(Destruction) = "stop" /\ Others(Destruction) = ToShutdown
      /\ Destruction \o <<>> = Destruction
  BY DEF First, Others, ToShutdown, Destruction
<1>5. \A x \in Steps : First(<<x>>) = x /\ Others(<<x>>) = <<>> /\ <<x>> \o <<>> = <<x>>
  BY DEF First, Others
<1> QED
  BY <1>1, <1>2, <1>3, <1>4, <1>5

LEMMA Distinct ==
  /\ ToShutdown # <<>> /\ ToClose # <<>> /\ ToReset # <<>> /\ ToDestroy # <<>>
  /\ ToShutdown # ToClose /\ ToShutdown # ToReset /\ ToShutdown # ToDestroy
BY DEF ToShutdown, ToClose, ToReset, ToDestroy

LEMMA AtTop ==
  ASSUME NEW t, NEW x, At(t, x)
  PROVE  Top(t) = x /\ todo[t] # <<>> /\ Rest(t) = Tail(todo[t])
BY DEF At, Top, Rest, First, Others

LEMMA ThenMoves ==
  ASSUME ColorTypes, NEW t \in Threads, todo[t] # <<>>, NEW steps \in Seq(Steps), Then(t, steps)
  PROVE  Moves(t, First(steps \o Rest(t)), Others(steps \o Rest(t)))
<1>1. todo \in [Threads -> Seq(Steps)] /\ todo[t] \in Seq(Steps) /\ Rest(t) = Tail(todo[t])
  BY DEF ColorTypes, Rest, Others
<1>2. Rest(t) \in Seq(Steps)
  BY <1>1
<1>3. todo' = [todo EXCEPT ![t] = steps \o Rest(t)] /\ steps \o Rest(t) \in Seq(Steps)
  BY <1>1, <1>2 DEF Then
<1> QED
  BY <1>1, <1>3 DEF Moves, Top, Rest

LEMMA ThenNone ==
  ASSUME ColorTypes, NEW t \in Threads, NEW x, At(t, x), Then(t, <<>>)
  PROVE  Top(t) = x /\ Moves(t, First(Rest(t)), Others(Rest(t)))
<1>1. Top(t) = x /\ todo[t] # <<>> /\ Rest(t) = Tail(todo[t])
  BY AtTop
<1>2. todo[t] \in Seq(Steps)
  BY DEF ColorTypes
<1>3. <<>> \o Rest(t) = Rest(t)
  BY <1>1, <1>2
<1>4. <<>> \in Seq(Steps)
  OBVIOUS
<1> QED
  BY <1>1, <1>3, <1>4, ThenMoves

LEMMA ThenOne ==
  ASSUME ColorTypes, NEW t \in Threads, NEW x, At(t, x), NEW y \in Steps, Then(t, <<y>>)
  PROVE  Top(t) = x /\ Moves(t, y, Rest(t))
<1>1. Top(t) = x /\ todo[t] # <<>> /\ Rest(t) = Tail(todo[t])
  BY AtTop
<1>2. todo[t] \in Seq(Steps)
  BY DEF ColorTypes
<1>3. Rest(t) \in Seq(Steps)
  BY <1>1, <1>2
<1>5. <<y>> \in Seq(Steps)
  OBVIOUS
<1>4. First(<<y>> \o Rest(t)) = y /\ Others(<<y>> \o Rest(t)) = Rest(t)
  BY <1>3 DEF First, Others
<1> QED
  BY <1>1, <1>4, <1>5, ThenMoves

LEMMA Appended ==
  ASSUME NEW S, NEW x \in S, NEW y \in S, NEW z \in S
  PROVE  <<x, y>> \in Seq(S) /\ <<x, y>> \o <<z>> = <<x, y, z>>
<1>1. <<x, y>> \in Seq(S)
  OBVIOUS
<1>2. <<z>> \in Seq(S)
  OBVIOUS
<1>3. <<x, y>> \o <<z>> = <<x, y, z>>
  <2> DEFINE s == <<x, y>> \o <<z>>
  <2>1. s \in Seq(S) /\ Len(s) = 3 /\ s[1] = x /\ s[2] = y /\ s[3] = z
    BY <1>1, <1>2
  <2>2. <<x, y, z>> \in Seq(S) /\ Len(<<x, y, z>>) = 3
    OBVIOUS
  <2>3. \A i \in 1 .. 3 : s[i] = <<x, y, z>>[i]
    <3> HIDE DEF s
    <3> QED
      BY <2>1
  <2> HIDE DEF s
  <2>4. s = <<x, y, z>>
    BY <2>1, <2>2, <2>3, SeqEqual
  <2> QED
    BY <2>4 DEF s
<1> QED
  BY <1>1, <1>3

LEMMA ThenTwo ==
  ASSUME ColorTypes, NEW t \in Threads, NEW x, At(t, x), NEW y \in Steps, NEW z \in Steps,
         Rest(t) = <<>>, Then(t, <<y, z>>)
  PROVE  Top(t) = x /\ Moves(t, y, <<z>>)
<1>1. Top(t) = x /\ todo[t] # <<>>
  BY AtTop
<1>2. <<y, z>> \in Seq(Steps)
  OBVIOUS
<1>3. <<y, z>> \o <<>> = <<y, z>> /\ First(<<y, z>>) = y /\ Others(<<y, z>>) = <<z>>
  BY DEF First, Others
<1> QED
  BY <1>1, <1>2, <1>3, ThenMoves

LEMMA ThenStopAnd ==
  ASSUME ColorTypes, NEW t \in Threads, NEW x, At(t, x), NEW z \in Steps,
         Rest(t) = ToDestroy, Then(t, <<"Stop", z>>)
  PROVE  Top(t) = x /\ Moves(t, "Stop", <<z, "destroy">>)
<1>1. Top(t) = x /\ todo[t] # <<>>
  BY AtTop
<1>2. "Stop" \in Steps /\ "destroy" \in Steps
  BY DEF Steps
<1>3. <<"Stop", z>> \in Seq(Steps) /\ <<"Stop", z>> \o ToDestroy = <<"Stop", z, "destroy">>
  BY <1>2, Appended DEF ToDestroy
<1>4. First(<<"Stop", z, "destroy">>) = "Stop" /\ Others(<<"Stop", z, "destroy">>) = <<z, "destroy">>
  BY DEF First, Others
<1> QED
  BY <1>1, <1>2, <1>3, <1>4, ThenMoves

LEMMA BeginMoves ==
  ASSUME ColorTypes, NEW t \in Threads, NEW steps \in Seq(Steps), Begin(t, steps)
  PROVE  Top(t) = "none" /\ Moves(t, First(steps), Others(steps))
<1>1. todo \in [Threads -> Seq(Steps)] /\ todo[t] = <<>> /\ todo' = [todo EXCEPT ![t] = steps]
  BY DEF ColorTypes, Begin, Idle
<1> QED
  BY <1>1 DEF Moves, Top, Rest, First

LEMMA BeginOne ==
  ASSUME ColorTypes, NEW t \in Threads, NEW x \in Steps, Begin(t, <<x>>)
  PROVE  Top(t) = "none" /\ Moves(t, x, <<>>)
<1>1. <<x>> \in Seq(Steps)
  OBVIOUS
<1> QED
  BY <1>1, BeginMoves, Lists

LEMMA BeginDestruction ==
  ASSUME ColorTypes, NEW t \in Threads, Begin(t, Destruction)
  PROVE  Top(t) = "none" /\ Moves(t, "stop", ToShutdown)
<1>1. Destruction \in Seq(Steps)
  BY DEF Destruction, Steps
<1> QED
  BY <1>1, BeginMoves, Lists

LEMMA ThenDestruction ==
  ASSUME ColorTypes, NEW t \in Threads, NEW x, At(t, x), Rest(t) = <<>>, Then(t, Destruction)
  PROVE  Moves(t, "stop", ToShutdown)
<1>1. Destruction \in Seq(Steps)
  BY DEF Destruction, Steps
<1> QED
  BY <1>1, AtTop, ThenMoves, Lists

LEMMA IdleTop == ASSUME NEW t, Idle(t) PROVE Top(t) = "none" /\ Rest(t) = <<>>
BY DEF Idle, Top, Rest, First, Others

(* A step moves one thread from a shape to another.                        *)
LEMMA ShapeMoves ==
  ASSUME ShapeInv, NEW t \in Threads, NEW top, NEW rest, Moves(t, top, rest),
         UNCHANGED <<platform, errors, color>>,
         ColorTypes', Top(t) = "none" => Solo',
         t \in Callers => CallerShape(t)', t \in Workers => WorkerShape(t)'
  PROVE  ShapeInv'
<1>1. Threads = Callers \cup Workers
  BY DEF Threads
<1>2. \A c \in Callers : CallerShape(c)'
  <2> SUFFICES ASSUME NEW c \in Callers, c # t PROVE CallerShape(c)'
    OBVIOUS
  <2>1. CallerShape(c) /\ Top(c)' = Top(c) /\ Rest(c)' = Rest(c)
    BY <1>1 DEF ShapeInv, Moves
  <2> QED
    BY <2>1 DEF CallerShape
<1>3. \A w \in Workers : WorkerShape(w)'
  <2> SUFFICES ASSUME NEW w \in Workers, w # t PROVE WorkerShape(w)'
    OBVIOUS
  <2>1. WorkerShape(w) /\ Top(w)' = Top(w) /\ Rest(w)' = Rest(w)
    BY <1>1 DEF ShapeInv, Moves
  <2> QED
    BY <2>1 DEF WorkerShape
<1>4. Solo'
  BY <1>1 DEF ShapeInv, Moves, Solo
<1> QED
  BY <1>2, <1>3, <1>4 DEF ShapeInv

LEMMA ThreadSets ==
  /\ Callers \subseteq Threads /\ Workers \subseteq Threads
  /\ Free \notin Workers
  /\ \A t \in Callers : t \notin Workers
  /\ \A t \in Threads : t \in Callers \/ t \in Workers
BY ThreadAssumption DEF Threads

(* Which threads may be at a step.                                         *)
LEMMA WhoseStep ==
  ASSUME ShapeInv, NEW t \in Threads
  PROVE  /\ Top(t) \in {"Init", "Start", "ReadFirst", "stop", "uvc_stop_streaming", "Shutdown",
                       "close", "Reset", "destroy"}
              => t \in Callers /\ t \notin Workers
         /\ Top(t) \in {"Stop", "Wait"} => (t \in Callers /\ t \notin Workers) \/ (t \in Workers /\ errors)
         /\ Top(t) \in {"Callback", "OnReadSample", "OnReadSample failed", "sample", "failure",
                       "ReadNext", "report", "error", "OnFlush", "flushed"}
              => t \in Workers /\ t \notin Callers
BY ThreadSets DEF ShapeInv, CallerShape, WorkerShape, Stopping

(* Where a caller is tells what the handle is.                             *)
LEMMA CallerPlace ==
  ASSUME ShapeInv, NEW t \in Callers
  PROVE  /\ Top(t) = "Init" => color = "creating" /\ Rest(t) = <<>>
         /\ Top(t) \in {"Start", "ReadFirst"} => color = "created" /\ Rest(t) = <<>>
         /\ Top(t) = "Shutdown" => color \in {"no reader", "destroying"} /\ Rest(t) = ToDestroy
         /\ Top(t) \in {"close", "Reset"} => color = "destroying" /\ Rest(t) = ToDestroy
         /\ Top(t) = "destroy" => color \in {"no reader", "destroying"} /\ Rest(t) = <<>>
         /\ Top(t) = "stop" =>
              \/ color = "created" /\ Rest(t) = <<>>
              \/ color = "no reader" /\ Rest(t) = ToShutdown
              \/ color = "destroying" /\ Rest(t) \in {ToShutdown, ToClose, ToReset}
         /\ Top(t) \in {"Stop", "Wait", "uvc_stop_streaming"} =>
              \/ color = "created" /\ Rest(t) = <<>>
              \/ color = "destroying" /\ Rest(t) \in {ToShutdown, ToClose, ToReset}
BY DEF ShapeInv, CallerShape, Stopping

LEMMA WorkerPlace ==
  ASSUME ShapeInv, NEW t \in Workers
  PROVE  /\ Top(t) \in {"sample", "failure"} =>
              Rest(t) = (IF platform = "mf" THEN <<"ReadNext">> ELSE <<>>)
         /\ Top(t) = "error" => errors /\ Rest(t) \in {<<"report">>, <<"Stop">>}
         /\ Top(t) \in {"OnReadSample failed", "report"} => errors
         /\ Top(t) \notin {"sample", "failure", "error"} => Rest(t) = <<>>
BY DEF ShapeInv, WorkerShape, ColorTypes

LEMMA Alone ==
  ASSUME ShapeInv, NEW t \in Callers, Top(t) # "none", platform = "mf" \/ color # "created"
  PROVE  \A c \in Callers \ {t} : Top(c) = "none" /\ Rest(c) = <<>>
BY DEF ShapeInv, Solo, CallerShape, Stopping

-----------------------------------------------------------------------------
(* The memory of a frame                                                   *)

Accounted(m) ==
  /\ m \in [out : Nat, own : {0, 1}, image : {0, 1}, kept : Nat, lost : Nat]
  /\ m.out = m.own + m.image + m.kept + m.lost

LEMMA FrameSteps ==
  ASSUME NEW m \in [out : Nat, own : {0, 1}, image : {0, 1}, kept : Nat, lost : Nat]
  PROVE  /\ Taken(m) = [out |-> m.out + 1, own |-> m.own, image |-> m.image, kept |-> m.kept, lost |-> m.lost]
         /\ GivenBack(m) = [out |-> m.out - 1, own |-> m.own, image |-> m.image, kept |-> m.kept, lost |-> m.lost]
         /\ Imaged(m) = [out |-> m.out, own |-> m.own, image |-> 1, kept |-> m.kept, lost |-> m.lost]
         /\ Owned(m) = [out |-> m.out, own |-> 1, image |-> m.image, kept |-> m.kept, lost |-> m.lost]
         /\ Lost(m) = [out |-> m.out, own |-> m.own, image |-> m.image, kept |-> m.kept, lost |-> m.lost + 1]
BY DEF Taken, GivenBack, Imaged, Owned, Lost

(* Whichever step of making a capture fails, its memory has a place.       *)
LEMMA UvcFramesAccounted ==
  ASSUME MemoryInv, memory.own = 0, memory.image = 0, NEW frame \in UvcFrames
  PROVE  Accounted(frame.memory)
<1> DEFINE T == Taken(memory)
<1>1. /\ Accounted(memory) /\ memory.kept \in Nat /\ memory.lost \in Nat /\ memory.out \in Nat
      /\ memory.out = memory.kept + memory.lost
  BY DEF MemoryInv, Accounted
<1>2. T = [out |-> memory.out + 1, own |-> 0, image |-> 0, kept |-> memory.kept, lost |-> memory.lost]
  BY <1>1, FrameSteps DEF Accounted
<1>3. T \in [out : Nat, own : {0, 1}, image : {0, 1}, kept : Nat, lost : Nat]
  BY <1>1, <1>2
<1>4. /\ GivenBack(T) = [out |-> memory.out, own |-> 0, image |-> 0, kept |-> memory.kept, lost |-> memory.lost]
      /\ Lost(T) = [out |-> memory.out + 1, own |-> 0, image |-> 0, kept |-> memory.kept, lost |-> memory.lost + 1]
      /\ Imaged(T) = [out |-> memory.out + 1, own |-> 0, image |-> 1, kept |-> memory.kept, lost |-> memory.lost]
  BY <1>1, <1>2, <1>3, FrameSteps
<1>5. Accounted(GivenBack(T)) /\ Accounted(Lost(T)) /\ Accounted(Imaged(T))
  BY <1>1, <1>4 DEF Accounted
<1>6. frame.memory \in {memory, GivenBack(T), Lost(T), Imaged(T)}
  BY DEF UvcFrames, Outcome, Cleanup
<1> QED
  BY <1>1, <1>5, <1>6

LEMMA MfFramesAccounted ==
  ASSUME MemoryInv, memory.own = 0, memory.image = 0, NEW use \in BOOLEAN, NEW frame \in MfFrames(use)
  PROVE  /\ Accounted(frame.memory) /\ frame.result \in {"sample", "failure", "dropped"}
         /\ frame.result = "dropped" => frame.memory.own = 0 /\ frame.memory.image = 0
<1> DEFINE T == Taken(memory)
           images == IF use THEN CreateImage(T) ELSE CreateImageCopy(T)
<1>1. /\ Accounted(memory) /\ memory.kept \in Nat /\ memory.lost \in Nat /\ memory.out \in Nat
      /\ memory.out = memory.kept + memory.lost
  BY DEF MemoryInv, Accounted
<1>2. T = [out |-> memory.out + 1, own |-> 0, image |-> 0, kept |-> memory.kept, lost |-> memory.lost]
  BY <1>1, FrameSteps DEF Accounted
<1>3. T \in [out : Nat, own : {0, 1}, image : {0, 1}, kept : Nat, lost : Nat]
  BY <1>1, <1>2
<1>4. /\ GivenBack(T) = [out |-> memory.out, own |-> 0, image |-> 0, kept |-> memory.kept, lost |-> memory.lost]
      /\ Lost(T) = [out |-> memory.out + 1, own |-> 0, image |-> 0, kept |-> memory.kept, lost |-> memory.lost + 1]
      /\ Imaged(T) = [out |-> memory.out + 1, own |-> 0, image |-> 1, kept |-> memory.kept, lost |-> memory.lost]
      /\ Owned(T) = [out |-> memory.out + 1, own |-> 1, image |-> 0, kept |-> memory.kept, lost |-> memory.lost]
      /\ Taken(T) = [out |-> memory.out + 2, own |-> 0, image |-> 0, kept |-> memory.kept, lost |-> memory.lost]
  BY <1>1, <1>2, <1>3, FrameSteps
<1>5. Taken(T) \in [out : Nat, own : {0, 1}, image : {0, 1}, kept : Nat, lost : Nat]
  BY <1>1, <1>4
<1>6. /\ GivenBack(Taken(T)) = T
      /\ Imaged(Taken(T)) = [out |-> memory.out + 2, own |-> 0, image |-> 1, kept |-> memory.kept, lost |-> memory.lost]
  BY <1>1, <1>2, <1>4, <1>5, FrameSteps
<1>7. Imaged(Taken(T)) \in [out : Nat, own : {0, 1}, image : {0, 1}, kept : Nat, lost : Nat]
  BY <1>1, <1>6
<1>8. Owned(Imaged(Taken(T)))
        = [out |-> memory.out + 2, own |-> 1, image |-> 1, kept |-> memory.kept, lost |-> memory.lost]
  BY <1>6, <1>7, FrameSteps
<1>9. /\ Accounted(GivenBack(T)) /\ Accounted(Lost(T)) /\ Accounted(Imaged(T)) /\ Accounted(Owned(T))
      /\ Accounted(Owned(Imaged(Taken(T))))
  BY <1>1, <1>4, <1>8 DEF Accounted
<1>10. images \subseteq {Imaged(T), Lost(T), Owned(T), Owned(Imaged(Taken(T)))}
  BY <1>6 DEF CreateImage, CreateImageCopy
<1>11. \/ frame = Outcome("failure", memory)
       \/ frame = Outcome("dropped", GivenBack(T))
       \/ \E m \in images : frame = Outcome("failure", m) \/ frame = Outcome("sample", m)
  BY DEF MfFrames, DeleteContext
<1> HIDE DEF T, images
<1>12. CASE frame = Outcome("dropped", GivenBack(T))
  BY <1>4, <1>9, <1>12 DEF Outcome
<1>13. CASE frame # Outcome("dropped", GivenBack(T))
  BY <1>1, <1>9, <1>10, <1>11, <1>13 DEF Outcome
<1> QED
  BY <1>12, <1>13

LEMMA ReleasedAccounted ==
  ASSUME MemoryInv
  PROVE  Accounted(Released(memory)) /\ Released(memory).own = 0 /\ Released(memory).image = 0
<1>1. /\ memory.own \in Nat /\ memory.image \in Nat /\ memory.kept \in Nat /\ memory.lost \in Nat
      /\ memory.out = memory.own + memory.image + memory.kept + memory.lost
  BY DEF MemoryInv
<1>2. Released(memory) = [out |-> memory.kept + memory.lost, own |-> 0, image |-> 0,
                          kept |-> memory.kept, lost |-> memory.lost]
  <2>1. memory.out - memory.own - memory.image = memory.kept + memory.lost
    BY <1>1
  <2>2. Released(memory) = [memory EXCEPT !.out = memory.out - memory.own - memory.image,
                                          !.own = 0, !.image = 0]
    BY DEF Released
  <2>3. memory \in [out : Nat, own : {0, 1}, image : {0, 1}, kept : Nat, lost : Nat]
    BY DEF MemoryInv
  <2> QED
    BY <2>1, <2>2, <2>3
<1> QED
  BY <1>1, <1>2 DEF Accounted

LEMMA OnlyMemory ==
  ASSUME ColorInv,
         UNCHANGED <<platform, errors, color, todo, m_lock, started, m_pCallback, held, uvc, mfVars>>
  PROVE  ShapeInv' /\ LockInv' /\ HandleInv' /\ UvcInv' /\ MfInv'
<1>1. \A t : Top(t)' = Top(t) /\ Rest(t)' = Rest(t)
  BY DEF Top, Rest
<1>2. ShapeInv'
  BY <1>1, ZenonT(40) DEF ColorInv, ShapeInv, ColorTypes, CallerShape, WorkerShape, Solo, mfVars
<1>3. LockInv' /\ HandleInv'
  BY <1>1 DEF ColorInv, LockInv, HandleInv, mfVars
<1>4. UvcInv' /\ MfInv'
  BY <1>1 DEF ColorInv, UvcInv, MfInv, mfVars
<1> QED
  BY <1>2, <1>3, <1>4

LEMMA Smallest ==
  ASSUME NEW S \in SUBSET Nat, S # {}
  PROVE  \E i \in S : \A j \in S : i <= j
<1> DEFINE less == {ss \in Nat \X Nat : ss[1] < ss[2]}
<1>1. IsWellFoundedOn(less, Nat)
  BY NatLessThanWellFounded DEF OpToRel
<1>2. \E i \in S : \A j \in S : <<j, i>> \notin less
  <2> HIDE DEF less
  <2> QED
    BY <1>1, WFMin
<1>3. PICK i \in S : \A j \in S : <<j, i>> \notin less
  BY <1>2
<1>4. \A j \in S : j \in Nat /\ i \in Nat /\ ~(j < i)
  BY <1>3
<1> QED
  BY <1>4

LEMMA MfUpdates ==
  ASSUME ColorTypes, NEW reads \in Nat, NEW flush \in BOOLEAN, NEW selected \in BOOLEAN
  PROVE  /\ mf.reads \in Nat /\ mf.flush \in BOOLEAN
         /\ [mf EXCEPT !.reads = reads] \in MfType
         /\ [mf EXCEPT !.reads = reads].reads = reads
         /\ [mf EXCEPT !.reads = reads].flush = mf.flush
         /\ [mf EXCEPT !.flush = flush] \in MfType
         /\ [mf EXCEPT !.flush = flush].reads = mf.reads
         /\ [mf EXCEPT !.flush = flush].flush = flush
         /\ [mf EXCEPT !.selected = selected] \in MfType
         /\ [mf EXCEPT !.selected = selected].reads = mf.reads
         /\ [mf EXCEPT !.selected = selected].flush = mf.flush
         /\ [mf EXCEPT !.flush = flush, !.reads = reads] \in MfType
         /\ [mf EXCEPT !.flush = flush, !.reads = reads].reads = reads
         /\ [mf EXCEPT !.flush = flush, !.reads = reads].flush = flush
<1>1. mf \in MfType
  BY DEF ColorTypes
<1> QED
  BY <1>1 DEF MfType

(* No flush is under way unless a Stop waits for it.                       *)
LEMMA NoFlush ==
  ASSUME ColorInv, platform = "mf", ~errors, \A c \in Callers : Top(c) # "Wait"
  PROVE  /\ ~mf.flush /\ ~m_hStreamFlushed
         /\ \A w \in Workers : Top(w) # "OnFlush"
         /\ m_lock = Free => ~m_flushing
<1>1. ~mf.flush /\ ~m_hStreamFlushed /\ \A w \in Workers : Top(w) # "OnFlush"
  BY DEF ColorInv, MfInv
<1>2. m_lock = Free => \A w \in Workers : Top(w) # "flushed"
  BY ThreadSets DEF ColorInv, LockInv
<1> QED
  BY <1>1, <1>2 DEF ColorInv, MfInv

(* The camera that is found for a device is in the device's container.     *)
LEMMA FindsOwn ==
  ASSUME NEW cameras \in CameraLists, FindEdenColorCamera(OwnContainer, cameras) # None
  PROVE  FindEdenColorCamera(OwnContainer, cameras) = OwnContainer
<1> DEFINE found == {i \in DOMAIN cameras : Matches(cameras[i], OwnContainer)}
           first == CHOOSE i \in found : \A j \in found : i <= j
<1>1. found # {} /\ FindEdenColorCamera(OwnContainer, cameras) = cameras[first].container
  BY DEF FindEdenColorCamera
<1>2. found \in SUBSET Nat
  <2>1. DOMAIN cameras = 1 .. Len(cameras) /\ Len(cameras) \in Nat
    BY CameraAssumption
  <2> QED
    BY <2>1
<1>3. first \in found
  <2> HIDE DEF found
  <2> QED
    BY <1>1, <1>2, Smallest
<1>4. Matches(cameras[first], OwnContainer)
  BY <1>3
<1>5. GetDeviceProperty(cameras[first].container) = OwnContainer
  BY <1>4 DEF Matches
<1> HIDE DEF first
<1>6. cameras[first].container = OwnContainer
  BY <1>5, CameraAssumption DEF GetDeviceProperty
<1> QED
  BY <1>1, <1>6

-----------------------------------------------------------------------------
(* The steps of the Linux reader                                           *)

LEMMA UvcInitializeKeeps ==
  ASSUME ColorInv, platform = "uvc", NEW t \in Threads, UvcInitialize(t), UNCHANGED mfVars
  PROVE  ColorInv'
<1>01. At(t, "Init")
  BY DEF UvcInitialize
<1>02. Top(t) = "Init"
  BY <1>01, AtTop
<1>1. /\ Top(t) = "Init" /\ t \in Callers /\ t \notin Workers
      /\ Callers \subseteq Threads /\ Workers \subseteq Threads /\ Free \notin Workers
  BY <1>02, WhoseStep, ThreadSets DEF ColorInv
<1>0. color = "creating" /\ Rest(t) = <<>>
  BY <1>1, CallerPlace, Lists DEF ColorInv, ShapeInv, ColorTypes, Steps
<1>00. \A c \in Callers \ {t} : Top(c) = "none" /\ Rest(c) = <<>>
  BY <1>1, <1>0, Alone DEF ColorInv
<1>2. \/ color' = "created" /\ held' = Resources /\ Moves(t, "none", <<>>)
      \/ color' \in {"destroying", "no reader"} /\ held' = held /\ Moves(t, "stop", ToShutdown)
  BY <1>1, <1>0, ThenNone, ThenOne, Lists, ThenDestruction, ZenonT(40) DEF ColorInv, ShapeInv, UvcInitialize
<1>3. UNCHANGED <<platform, errors, m_lock, started, m_pCallback, memory, uvc, m_use_mf_buffer, camera, m_flushing, m_hStreamFlushed, mf>>
  BY <1>1 DEF UvcInitialize, UNCHANGED_reader, mfVars, apiVars
<1>4. ColorTypes'
  BY <1>2, <1>3 DEF ColorInv, ShapeInv, ColorTypes, Moves
<1>5. (\A c \in Callers : CallerShape(c)') /\ (\A w \in Workers : WorkerShape(w)') /\ Solo'
  <2>2. \A c \in Callers \ {t} : CallerShape(c)'
    BY <1>1, <1>00, <1>2, <1>3, Lists DEF Moves, CallerShape
  <2>3. \A w \in Workers : WorkerShape(w)'
    BY <1>1, <1>2, <1>3 DEF ColorInv, ShapeInv, Moves, WorkerShape
  <2>4. Solo'
    BY <1>1, <1>00, <1>2, <1>3 DEF Moves, Solo
  <2>5. CallerShape(t)'
    BY <1>1, <1>2, <1>3 DEF Moves, CallerShape, Stopping
  <2> QED
    BY <2>2, <2>3, <2>4, <2>5
<1>6. ShapeInv'
  BY <1>4, <1>5 DEF ShapeInv
<1>7. LockInv'
  <2>1. CASE color' = "created" /\ held' = Resources /\ Moves(t, "none", <<>>)
    BY <1>1, <1>0, <1>00, <1>3, <2>1, Lists, Distinct DEF ColorInv, Moves, LockInv
  <2>2. CASE color' \in {"destroying", "no reader"} /\ held' = held /\ Moves(t, "stop", ToShutdown)
    BY <1>1, <1>0, <1>00, <1>3, <2>2, Lists, Distinct DEF ColorInv, Moves, LockInv
  <2> QED
    BY <1>2, <2>1, <2>2
<1>8. HandleInv'
  <2>1. CASE color' = "created" /\ held' = Resources /\ Moves(t, "none", <<>>)
    BY <1>1, <1>0, <1>00, <1>3, <2>1, Lists, Distinct DEF ColorInv, Moves, HandleInv
  <2>2. CASE color' \in {"destroying", "no reader"} /\ held' = held /\ Moves(t, "stop", ToShutdown)
    BY <1>1, <1>0, <1>00, <1>3, <2>2, Lists, Distinct DEF ColorInv, Moves, HandleInv
  <2> QED
    BY <1>2, <2>1, <2>2
<1>9. UvcInv'
  <2>1. CASE color' = "created" /\ held' = Resources /\ Moves(t, "none", <<>>)
    BY <1>1, <1>0, <1>00, <1>3, <2>1, Lists, Distinct DEF ColorInv, Moves, UvcInv, HandleInv
  <2>2. CASE color' \in {"destroying", "no reader"} /\ held' = held /\ Moves(t, "stop", ToShutdown)
    BY <1>1, <1>0, <1>00, <1>3, <2>2, Lists, Distinct DEF ColorInv, Moves, UvcInv, HandleInv
  <2> QED
    BY <1>2, <2>1, <2>2
<1>10. MfInv'
  <2>1. CASE color' = "created" /\ held' = Resources /\ Moves(t, "none", <<>>)
    BY <1>1, <1>0, <1>00, <1>3, <2>1, Lists, Distinct DEF ColorInv, Moves, MfInv
  <2>2. CASE color' \in {"destroying", "no reader"} /\ held' = held /\ Moves(t, "stop", ToShutdown)
    BY <1>1, <1>0, <1>00, <1>3, <2>2, Lists, Distinct DEF ColorInv, Moves, MfInv
  <2> QED
    BY <1>2, <2>1, <2>2
<1>11. MemoryInv'
  <2>1. CASE color' = "created" /\ held' = Resources /\ Moves(t, "none", <<>>)
    BY <1>1, <1>0, <1>00, <1>3, <2>1, Lists, Distinct DEF ColorInv, Moves, MemoryInv
  <2>2. CASE color' \in {"destroying", "no reader"} /\ held' = held /\ Moves(t, "stop", ToShutdown)
    BY <1>1, <1>0, <1>00, <1>3, <2>2, Lists, Distinct DEF ColorInv, Moves, MemoryInv
  <2> QED
    BY <1>2, <2>1, <2>2
<1> QED
  BY <1>6, <1>7, <1>8, <1>9, <1>10, <1>11 DEF ColorInv

LEMMA UvcStartKeeps ==
  ASSUME ColorInv, platform = "uvc", NEW t \in Threads, UvcStart(t), UNCHANGED mfVars
  PROVE  ColorInv'
<1>01. At(t, "Start")
  BY DEF UvcStart
<1>02. Top(t) = "Start"
  BY <1>01, AtTop
<1>1. /\ Top(t) = "Start" /\ t \in Callers /\ t \notin Workers
      /\ Callers \subseteq Threads /\ Workers \subseteq Threads /\ Free \notin Workers
  BY <1>02, WhoseStep, ThreadSets DEF ColorInv
<1>0. color = "created" /\ Rest(t) = <<>>
  BY <1>1, CallerPlace, Lists DEF ColorInv, ShapeInv, ColorTypes, Steps
<1>20. /\ Then(t, <<>>) => Moves(t, "none", <<>>)
       /\ Then(t, <<"stop">>) => Moves(t, "stop", <<>>)
  BY <1>1, <1>0, ThenNone, ThenOne, Lists, ZenonT(40) DEF ColorInv, ShapeInv, UvcStart, Steps
<1>2. \/ /\ ~started /\ uvc = "idle" /\ uvc' = "running"
         /\ started' = TRUE /\ m_pCallback' = TRUE /\ Moves(t, "none", <<>>)
      \/ Moves(t, "stop", <<>>) /\ UNCHANGED <<uvc, started, m_pCallback>>
      \/ Moves(t, "stop", <<>>) /\ ~started /\ m_pCallback' = FALSE /\ UNCHANGED <<uvc, started>>
  BY <1>1, <1>0, <1>20, ThenNone, ThenOne, Lists DEF ColorInv, ShapeInv, UvcStart, StartFailed, Steps
<1>3. m_lock = Free /\ UNCHANGED <<platform, errors, color, m_lock, held, memory, m_use_mf_buffer, camera, m_flushing, m_hStreamFlushed, mf>>
  BY <1>1, <1>20 DEF UvcStart, UNCHANGED_reader, mfVars, apiVars
<1>4. ColorTypes'
  BY <1>2, <1>3 DEF ColorInv, ShapeInv, ColorTypes, Moves
<1>5. CallerShape(t)'
  BY <1>1, <1>0, <1>2, <1>3, Lists, Distinct DEF ColorInv, ShapeInv, ColorTypes, CallerShape, Moves, Stopping
<1>6. ShapeInv'
  BY <1>1, <1>0, <1>2, <1>3, <1>4, <1>5, ShapeMoves DEF ColorInv
<1>7. LockInv'
  <2>1. CASE /\ ~started /\ uvc = "idle" /\ uvc' = "running"
      /\ started' = TRUE /\ m_pCallback' = TRUE /\ Moves(t, "none", <<>>)
    BY <1>1, <1>0, <1>3, <2>1, Lists, Distinct DEF ColorInv, Moves, LockInv
  <2>2. CASE Moves(t, "stop", <<>>) /\ UNCHANGED <<uvc, started, m_pCallback>>
    BY <1>1, <1>0, <1>3, <2>2, Lists, Distinct DEF ColorInv, Moves, LockInv
  <2>3. CASE Moves(t, "stop", <<>>) /\ ~started /\ m_pCallback' = FALSE /\ UNCHANGED <<uvc, started>>
    BY <1>1, <1>0, <1>3, <2>3, Lists, Distinct DEF ColorInv, Moves, LockInv
  <2> QED
    BY <1>2, <2>1, <2>2, <2>3
<1>8. HandleInv'
  <2>1. CASE /\ ~started /\ uvc = "idle" /\ uvc' = "running"
      /\ started' = TRUE /\ m_pCallback' = TRUE /\ Moves(t, "none", <<>>)
    BY <1>1, <1>0, <1>3, <2>1, Lists, Distinct DEF ColorInv, Moves, HandleInv, UvcInv
  <2>2. CASE Moves(t, "stop", <<>>) /\ UNCHANGED <<uvc, started, m_pCallback>>
    BY <1>1, <1>0, <1>3, <2>2, Lists, Distinct DEF ColorInv, Moves, HandleInv, UvcInv
  <2>3. CASE Moves(t, "stop", <<>>) /\ ~started /\ m_pCallback' = FALSE /\ UNCHANGED <<uvc, started>>
    BY <1>1, <1>0, <1>3, <2>3, Lists, Distinct DEF ColorInv, Moves, HandleInv, UvcInv
  <2> QED
    BY <1>2, <2>1, <2>2, <2>3
<1>9. UvcInv'
  <2>1. CASE /\ ~started /\ uvc = "idle" /\ uvc' = "running"
      /\ started' = TRUE /\ m_pCallback' = TRUE /\ Moves(t, "none", <<>>)
    BY <1>1, <1>0, <1>3, <2>1, Lists, Distinct DEF ColorInv, Moves, UvcInv, HandleInv
  <2>2. CASE Moves(t, "stop", <<>>) /\ UNCHANGED <<uvc, started, m_pCallback>>
    BY <1>1, <1>0, <1>3, <2>2, Lists, Distinct DEF ColorInv, Moves, UvcInv, HandleInv
  <2>3. CASE Moves(t, "stop", <<>>) /\ ~started /\ m_pCallback' = FALSE /\ UNCHANGED <<uvc, started>>
    BY <1>1, <1>0, <1>3, <2>3, Lists, Distinct DEF ColorInv, Moves, UvcInv, HandleInv
  <2> QED
    BY <1>2, <2>1, <2>2, <2>3
<1>10. MfInv'
  <2>1. CASE /\ ~started /\ uvc = "idle" /\ uvc' = "running"
      /\ started' = TRUE /\ m_pCallback' = TRUE /\ Moves(t, "none", <<>>)
    BY <1>1, <1>0, <1>3, <2>1, Lists, Distinct DEF ColorInv, Moves, MfInv
  <2>2. CASE Moves(t, "stop", <<>>) /\ UNCHANGED <<uvc, started, m_pCallback>>
    BY <1>1, <1>0, <1>3, <2>2, Lists, Distinct DEF ColorInv, Moves, MfInv
  <2>3. CASE Moves(t, "stop", <<>>) /\ ~started /\ m_pCallback' = FALSE /\ UNCHANGED <<uvc, started>>
    BY <1>1, <1>0, <1>3, <2>3, Lists, Distinct DEF ColorInv, Moves, MfInv
  <2> QED
    BY <1>2, <2>1, <2>2, <2>3
<1>11. MemoryInv'
  <2>1. CASE /\ ~started /\ uvc = "idle" /\ uvc' = "running"
      /\ started' = TRUE /\ m_pCallback' = TRUE /\ Moves(t, "none", <<>>)
    BY <1>1, <1>0, <1>3, <2>1, Lists, Distinct DEF ColorInv, Moves, MemoryInv
  <2>2. CASE Moves(t, "stop", <<>>) /\ UNCHANGED <<uvc, started, m_pCallback>>
    BY <1>1, <1>0, <1>3, <2>2, Lists, Distinct DEF ColorInv, Moves, MemoryInv
  <2>3. CASE Moves(t, "stop", <<>>) /\ ~started /\ m_pCallback' = FALSE /\ UNCHANGED <<uvc, started>>
    BY <1>1, <1>0, <1>3, <2>3, Lists, Distinct DEF ColorInv, Moves, MemoryInv
  <2> QED
    BY <1>2, <2>1, <2>2, <2>3
<1> QED
  BY <1>6, <1>7, <1>8, <1>9, <1>10, <1>11 DEF ColorInv

LEMMA UvcStopKeeps ==
  ASSUME ColorInv, platform = "uvc", NEW t \in Threads, UvcStop(t), UNCHANGED mfVars
  PROVE  ColorInv'
<1>01. At(t, "Stop")
  BY DEF UvcStop
<1>02. Top(t) = "Stop"
  BY <1>01, AtTop
<1>1. /\ Top(t) = "Stop" /\ t \in Callers /\ t \notin Workers
      /\ Callers \subseteq Threads /\ Workers \subseteq Threads /\ Free \notin Workers
  BY <1>02, WhoseStep, ThreadSets DEF ColorInv, ShapeInv, ColorTypes
<1>0. /\ Rest(t) \in {<<>>, ToShutdown, ToClose, ToReset}
      /\ First(Rest(t)) \in {"none", "Shutdown", "close", "Reset"}
  BY <1>1, CallerPlace, Lists DEF ColorInv, ShapeInv, ColorTypes, Steps
<1>2. \/ started /\ m_pCallback' = FALSE /\ Moves(t, "uvc_stop_streaming", Rest(t))
      \/ ~started /\ m_pCallback' = m_pCallback /\ Moves(t, First(Rest(t)), Others(Rest(t)))
  BY <1>1, <1>0, ThenNone, ThenOne, Lists DEF ColorInv, ShapeInv, ColorTypes, UvcStop, Steps
<1>3. m_lock = Free /\ started' = FALSE /\ UNCHANGED <<platform, errors, color, m_lock, held, memory, uvc, m_use_mf_buffer, camera, m_flushing, m_hStreamFlushed, mf>>
  BY <1>1 DEF UvcStop, UNCHANGED_reader, mfVars, apiVars, StopLocks
<1>4. ColorTypes'
  BY <1>2, <1>3 DEF ColorInv, ShapeInv, ColorTypes, Moves
<1>5. CallerShape(t)'
  BY <1>1, <1>0, <1>2, <1>3, Lists, Distinct DEF ColorInv, ShapeInv, ColorTypes, CallerShape, Moves, Stopping
<1>6. ShapeInv'
  BY <1>1, <1>0, <1>2, <1>3, <1>4, <1>5, ShapeMoves DEF ColorInv
<1>7. LockInv'
  <2>1. CASE started /\ m_pCallback' = FALSE /\ Moves(t, "uvc_stop_streaming", Rest(t))
    BY <1>1, <1>0, <1>3, <2>1, Lists, Distinct DEF ColorInv, Moves, LockInv
  <2>2. CASE ~started /\ m_pCallback' = m_pCallback /\ Moves(t, First(Rest(t)), Others(Rest(t)))
    BY <1>1, <1>0, <1>3, <2>2, Lists, Distinct DEF ColorInv, Moves, LockInv
  <2> QED
    BY <1>2, <2>1, <2>2
<1>8. HandleInv'
  <2>1. CASE started /\ m_pCallback' = FALSE /\ Moves(t, "uvc_stop_streaming", Rest(t))
    BY <1>1, <1>0, <1>3, <2>1, Lists, Distinct DEF ColorInv, Moves, HandleInv
  <2>2. CASE ~started /\ m_pCallback' = m_pCallback /\ Moves(t, First(Rest(t)), Others(Rest(t)))
    BY <1>1, <1>0, <1>3, <2>2, Lists, Distinct DEF ColorInv, Moves, HandleInv
  <2> QED
    BY <1>2, <2>1, <2>2
<1>9. UvcInv'
  <2>1. CASE started /\ m_pCallback' = FALSE /\ Moves(t, "uvc_stop_streaming", Rest(t))
    BY <1>1, <1>3, <2>1 DEF ColorInv, Moves, UvcInv, HandleInv
  <2>2. CASE ~started /\ Moves(t, First(Rest(t)), Others(Rest(t)))
    <3>1. \A c \in Callers : Top(c) = "uvc_stop_streaming" <=> Top(c)' = "uvc_stop_streaming"
      BY <1>0, <1>1, <2>2 DEF Moves
    <3> QED
      BY <1>3, <2>2, <3>1 DEF ColorInv, UvcInv
  <2> QED
    BY <1>2, <2>1, <2>2
<1>10. MfInv'
  <2>1. CASE started /\ m_pCallback' = FALSE /\ Moves(t, "uvc_stop_streaming", Rest(t))
    BY <1>1, <1>0, <1>3, <2>1, Lists, Distinct DEF ColorInv, Moves, MfInv
  <2>2. CASE ~started /\ m_pCallback' = m_pCallback /\ Moves(t, First(Rest(t)), Others(Rest(t)))
    BY <1>1, <1>0, <1>3, <2>2, Lists, Distinct DEF ColorInv, Moves, MfInv
  <2> QED
    BY <1>2, <2>1, <2>2
<1>11. MemoryInv'
  <2>1. CASE started /\ m_pCallback' = FALSE /\ Moves(t, "uvc_stop_streaming", Rest(t))
    BY <1>1, <1>0, <1>3, <2>1, Lists, Distinct DEF ColorInv, Moves, MemoryInv
  <2>2. CASE ~started /\ m_pCallback' = m_pCallback /\ Moves(t, First(Rest(t)), Others(Rest(t)))
    BY <1>1, <1>0, <1>3, <2>2, Lists, Distinct DEF ColorInv, Moves, MemoryInv
  <2> QED
    BY <1>2, <2>1, <2>2
<1> QED
  BY <1>6, <1>7, <1>8, <1>9, <1>10, <1>11 DEF ColorInv

LEMMA StopStreamingBeginsKeeps ==
  ASSUME ColorInv, platform = "uvc", NEW t \in Threads, StopStreamingBegins(t), UNCHANGED mfVars
  PROVE  ColorInv'
<1>01. At(t, "uvc_stop_streaming")
  BY DEF StopStreamingBegins
<1>02. Top(t) = "uvc_stop_streaming"
  BY <1>01, AtTop
<1>1. /\ Top(t) = "uvc_stop_streaming" /\ t \in Callers /\ t \notin Workers
      /\ Callers \subseteq Threads /\ Workers \subseteq Threads /\ Free \notin Workers
  BY <1>02, WhoseStep, ThreadSets DEF ColorInv
<1>2. Moves(t, Top(t), Rest(t))
  BY <1>1, ThenNone, ThenOne, Lists DEF StopStreamingBegins, apiVars, Moves, Top, Rest, ColorInv, ShapeInv, ColorTypes
<1>3. uvc = "running" /\ uvc' = "stopping" /\ UNCHANGED <<platform, errors, color, m_lock, started, m_pCallback, held, memory, m_use_mf_buffer, camera, m_flushing, m_hStreamFlushed, mf>>
  BY <1>1 DEF StopStreamingBegins, UNCHANGED_reader, mfVars, apiVars
<1>4. ColorTypes'
  BY <1>2, <1>3 DEF ColorInv, ShapeInv, ColorTypes, Moves
<1>5. CallerShape(t)'
  BY <1>1, <1>2, <1>3, Lists, Distinct DEF ColorInv, ShapeInv, ColorTypes, CallerShape, Moves, Stopping
<1>6. ShapeInv'
  BY <1>1, <1>2, <1>3, <1>4, <1>5, ShapeMoves DEF ColorInv
<1>7. LockInv'
  BY <1>1, <1>2, <1>3, Lists, Distinct DEF ColorInv, Moves, LockInv
<1>8. HandleInv'
  BY <1>1, <1>2, <1>3, Lists, Distinct DEF ColorInv, Moves, HandleInv
<1>9. UvcInv'
  BY <1>1, <1>2, <1>3, Lists, Distinct DEF ColorInv, Moves, UvcInv
<1>10. MfInv'
  BY <1>1, <1>2, <1>3, Lists, Distinct DEF ColorInv, Moves, MfInv
<1>11. MemoryInv'
  BY <1>1, <1>2, <1>3, Lists, Distinct DEF ColorInv, Moves, MemoryInv
<1> QED
  BY <1>6, <1>7, <1>8, <1>9, <1>10, <1>11 DEF ColorInv

LEMMA StopStreamingEndsKeeps ==
  ASSUME ColorInv, platform = "uvc", NEW t \in Threads, StopStreamingEnds(t), UNCHANGED mfVars
  PROVE  ColorInv'
<1>01. At(t, "uvc_stop_streaming")
  BY DEF StopStreamingEnds
<1>02. Top(t) = "uvc_stop_streaming"
  BY <1>01, AtTop
<1>1. /\ Top(t) = "uvc_stop_streaming" /\ t \in Callers /\ t \notin Workers
      /\ Callers \subseteq Threads /\ Workers \subseteq Threads /\ Free \notin Workers
  BY <1>02, WhoseStep, ThreadSets DEF ColorInv
<1>0. /\ Rest(t) \in {<<>>, ToShutdown, ToClose, ToReset}
      /\ First(Rest(t)) \in {"none", "Shutdown", "close", "Reset"}
  BY <1>1, CallerPlace, Lists, ZenonT(40) DEF ColorInv, ShapeInv, ColorTypes, Steps
<1>2. Moves(t, First(Rest(t)), Others(Rest(t)))
  BY <1>1, <1>0, ThenNone, ThenOne, Lists DEF ColorInv, ShapeInv, StopStreamingEnds
<1>3. uvc' = "idle" /\ UNCHANGED <<platform, errors, color, m_lock, started, m_pCallback, held, memory, m_use_mf_buffer, camera, m_flushing, m_hStreamFlushed, mf>>
  BY <1>1 DEF StopStreamingEnds, UNCHANGED_reader, mfVars, apiVars
<1>4. ColorTypes'
  BY <1>2, <1>3 DEF ColorInv, ShapeInv, ColorTypes, Moves
<1>5. CallerShape(t)'
  BY <1>1, <1>0, <1>2, <1>3, Lists, Distinct DEF ColorInv, ShapeInv, ColorTypes, CallerShape, Moves, Stopping
<1>6. ShapeInv'
  BY <1>1, <1>0, <1>2, <1>3, <1>4, <1>5, ShapeMoves DEF ColorInv
<1>7. LockInv'
  BY <1>1, <1>0, <1>2, <1>3, Lists, Distinct DEF ColorInv, Moves, LockInv
<1>8. HandleInv'
  BY <1>1, <1>0, <1>2, <1>3, Lists, Distinct DEF ColorInv, Moves, HandleInv
<1>9. UvcInv'
  BY <1>1, <1>0, <1>2, <1>3, Lists, Distinct DEF ColorInv, Moves, UvcInv, HandleInv
<1>10. MfInv'
  BY <1>1, <1>0, <1>2, <1>3, Lists, Distinct DEF ColorInv, Moves, MfInv
<1>11. MemoryInv'
  BY <1>1, <1>0, <1>2, <1>3, Lists, Distinct DEF ColorInv, Moves, MemoryInv
<1> QED
  BY <1>6, <1>7, <1>8, <1>9, <1>10, <1>11 DEF ColorInv

LEMMA UvcShutdownKeeps ==
  ASSUME ColorInv, platform = "uvc", NEW t \in Threads, UvcShutdown(t), UNCHANGED mfVars
  PROVE  ColorInv'
<1>01. At(t, "Shutdown")
  BY DEF UvcShutdown
<1>02. Top(t) = "Shutdown"
  BY <1>01, AtTop
<1>1. /\ Top(t) = "Shutdown" /\ t \in Callers /\ t \notin Workers
      /\ Callers \subseteq Threads /\ Workers \subseteq Threads /\ Free \notin Workers
  BY <1>02, WhoseStep, ThreadSets DEF ColorInv
<1>0. color \in {"no reader", "destroying"} /\ Rest(t) = ToDestroy
  BY <1>1, CallerPlace, Lists DEF ColorInv, ShapeInv, ColorTypes, Steps
<1>2. \/ color = "no reader" /\ Moves(t, "destroy", <<>>)
      \/ color # "no reader" /\ Moves(t, "Stop", ToClose)
  BY <1>1, <1>0, ThenNone, ThenOne, Lists, ThenStopAnd, ZenonT(40) DEF ColorInv, ShapeInv, UvcShutdown, ToClose, Steps
<1>3. UNCHANGED <<platform, errors, color, m_lock, started, m_pCallback, held, memory, uvc, m_use_mf_buffer, camera, m_flushing, m_hStreamFlushed, mf>>
  BY <1>1 DEF UvcShutdown, UNCHANGED_reader, mfVars, apiVars
<1>4. ColorTypes'
  BY <1>2, <1>3 DEF ColorInv, ShapeInv, ColorTypes, Moves
<1>5. CallerShape(t)'
  BY <1>1, <1>0, <1>2, <1>3, Lists, Distinct DEF ColorInv, ShapeInv, ColorTypes, CallerShape, Moves, Stopping
<1>6. ShapeInv'
  BY <1>1, <1>0, <1>2, <1>3, <1>4, <1>5, ShapeMoves DEF ColorInv
<1>7. LockInv'
  <2>1. CASE color = "no reader" /\ Moves(t, "destroy", <<>>)
    BY <1>1, <1>0, <1>3, <2>1, Lists, Distinct DEF ColorInv, Moves, LockInv
  <2>2. CASE color # "no reader" /\ Moves(t, "Stop", ToClose)
    BY <1>1, <1>0, <1>3, <2>2, Lists, Distinct DEF ColorInv, Moves, LockInv
  <2> QED
    BY <1>2, <2>1, <2>2
<1>8. HandleInv'
  <2>1. CASE color = "no reader" /\ Moves(t, "destroy", <<>>)
    BY <1>1, <1>0, <1>3, <2>1, Lists, Distinct DEF ColorInv, Moves, HandleInv
  <2>2. CASE color # "no reader" /\ Moves(t, "Stop", ToClose)
    BY <1>1, <1>0, <1>3, <2>2, Lists, Distinct DEF ColorInv, Moves, HandleInv
  <2> QED
    BY <1>2, <2>1, <2>2
<1>9. UvcInv'
  <2>1. CASE color = "no reader" /\ Moves(t, "destroy", <<>>)
    BY <1>1, <1>0, <1>3, <2>1, Lists, Distinct, ZenonT(40) DEF ColorInv, Moves, UvcInv
  <2>2. CASE color # "no reader" /\ Moves(t, "Stop", ToClose)
    BY <1>1, <1>0, <1>3, <2>2, Lists, Distinct DEF ColorInv, Moves, UvcInv
  <2> QED
    BY <1>2, <2>1, <2>2
<1>10. MfInv'
  <2>1. CASE color = "no reader" /\ Moves(t, "destroy", <<>>)
    BY <1>1, <1>0, <1>3, <2>1, Lists, Distinct DEF ColorInv, Moves, MfInv
  <2>2. CASE color # "no reader" /\ Moves(t, "Stop", ToClose)
    BY <1>1, <1>0, <1>3, <2>2, Lists, Distinct DEF ColorInv, Moves, MfInv
  <2> QED
    BY <1>2, <2>1, <2>2
<1>11. MemoryInv'
  <2>1. CASE color = "no reader" /\ Moves(t, "destroy", <<>>)
    BY <1>1, <1>0, <1>3, <2>1, Lists, Distinct DEF ColorInv, Moves, MemoryInv
  <2>2. CASE color # "no reader" /\ Moves(t, "Stop", ToClose)
    BY <1>1, <1>0, <1>3, <2>2, Lists, Distinct DEF ColorInv, Moves, MemoryInv
  <2> QED
    BY <1>2, <2>1, <2>2
<1> QED
  BY <1>6, <1>7, <1>8, <1>9, <1>10, <1>11 DEF ColorInv

LEMMA UvcCloseKeeps ==
  ASSUME ColorInv, platform = "uvc", NEW t \in Threads, UvcClose(t), UNCHANGED mfVars
  PROVE  ColorInv'
<1>01. At(t, "close")
  BY DEF UvcClose
<1>02. Top(t) = "close"
  BY <1>01, AtTop
<1>1. /\ Top(t) = "close" /\ t \in Callers /\ t \notin Workers
      /\ Callers \subseteq Threads /\ Workers \subseteq Threads /\ Free \notin Workers
  BY <1>02, WhoseStep, ThreadSets DEF ColorInv
<1>0. color = "destroying" /\ Rest(t) = ToDestroy
  BY <1>1, CallerPlace, Lists DEF ColorInv, ShapeInv, ColorTypes, Steps
<1>00. \A c \in Callers \ {t} : Top(c) = "none" /\ Rest(c) = <<>>
  BY <1>1, <1>0, Alone DEF ColorInv
<1>2. Moves(t, "destroy", <<>>)
  BY <1>1, <1>0, ThenNone, ThenOne, Lists DEF ColorInv, ShapeInv, UvcClose
<1>3. held' = {} /\ UNCHANGED <<platform, errors, color, m_lock, started, m_pCallback, memory, uvc, m_use_mf_buffer, camera, m_flushing, m_hStreamFlushed, mf>>
  BY <1>1 DEF UvcClose, UNCHANGED_reader, mfVars, apiVars
<1>4. ColorTypes'
  BY <1>2, <1>3 DEF ColorInv, ShapeInv, ColorTypes, Moves
<1>5. CallerShape(t)'
  BY <1>1, <1>0, <1>00, <1>2, <1>3, Lists, Distinct DEF ColorInv, ShapeInv, ColorTypes, CallerShape, Moves, Stopping
<1>6. ShapeInv'
  BY <1>1, <1>0, <1>00, <1>2, <1>3, <1>4, <1>5, ShapeMoves DEF ColorInv
<1>7. LockInv'
  BY <1>1, <1>0, <1>00, <1>2, <1>3, Lists, Distinct DEF ColorInv, Moves, LockInv
<1>8. HandleInv'
  BY <1>1, <1>0, <1>00, <1>2, <1>3, Lists, Distinct DEF ColorInv, Moves, HandleInv
<1>9. UvcInv'
  BY <1>1, <1>0, <1>00, <1>2, <1>3, Lists, Distinct DEF ColorInv, Moves, UvcInv, HandleInv
<1>10. MfInv'
  BY <1>1, <1>0, <1>00, <1>2, <1>3, Lists, Distinct DEF ColorInv, Moves, MfInv
<1>11. MemoryInv'
  BY <1>1, <1>0, <1>00, <1>2, <1>3, Lists, Distinct DEF ColorInv, Moves, MemoryInv
<1> QED
  BY <1>6, <1>7, <1>8, <1>9, <1>10, <1>11 DEF ColorInv

LEMMA CallbackDropsKeeps ==
  ASSUME ColorInv, platform = "uvc", NEW t \in Threads, CallbackDrops(t), UNCHANGED mfVars
  PROVE  ColorInv'
<1>01. At(t, "Callback")
  BY DEF CallbackDrops
<1>02. Top(t) = "Callback"
  BY <1>01, AtTop
<1>1. /\ Top(t) = "Callback" /\ t \in Workers /\ t \notin Callers
      /\ Callers \subseteq Threads /\ Workers \subseteq Threads /\ Free \notin Workers
  BY <1>02, WhoseStep, ThreadSets DEF ColorInv
<1>0. Rest(t) = <<>>
  BY <1>1, WorkerPlace, Lists DEF ColorInv, ShapeInv, ColorTypes, Steps
<1>2. Moves(t, "none", <<>>)
  BY <1>1, <1>0, ThenNone, ThenOne, Lists DEF ColorInv, ShapeInv, CallbackDrops
<1>3. UNCHANGED <<platform, errors, color, m_lock, started, m_pCallback, held, memory, uvc, m_use_mf_buffer, camera, m_flushing, m_hStreamFlushed, mf>>
  BY <1>1 DEF CallbackDrops, UNCHANGED_reader, mfVars, apiVars
<1>4. ColorTypes'
  BY <1>2, <1>3 DEF ColorInv, ShapeInv, ColorTypes, Moves
<1>5. WorkerShape(t)'
  BY <1>1, <1>0, <1>2, <1>3, Lists, Distinct DEF ColorInv, ShapeInv, ColorTypes, WorkerShape, Moves, Stopping
<1>6. ShapeInv'
  BY <1>1, <1>0, <1>2, <1>3, <1>4, <1>5, ShapeMoves DEF ColorInv
<1>7. LockInv'
  BY <1>1, <1>0, <1>2, <1>3, Lists, Distinct DEF ColorInv, Moves, LockInv
<1>8. HandleInv'
  BY <1>1, <1>0, <1>2, <1>3, Lists, Distinct DEF ColorInv, Moves, HandleInv
<1>9. UvcInv'
  BY <1>1, <1>0, <1>2, <1>3, Lists, Distinct DEF ColorInv, Moves, UvcInv
<1>10. MfInv'
  BY <1>1, <1>0, <1>2, <1>3, Lists, Distinct DEF ColorInv, Moves, MfInv
<1>11. MemoryInv'
  BY <1>1, <1>0, <1>2, <1>3, Lists, Distinct DEF ColorInv, Moves, MemoryInv
<1> QED
  BY <1>6, <1>7, <1>8, <1>9, <1>10, <1>11 DEF ColorInv

LEMMA CallbackCallsKeeps ==
  ASSUME ColorInv, platform = "uvc", NEW t \in Threads, CallbackCalls(t), UNCHANGED mfVars
  PROVE  ColorInv'
<1>01. At(t, "Callback")
  BY DEF CallbackCalls
<1>02. Top(t) = "Callback"
  BY <1>01, AtTop
<1>1. /\ Top(t) = "Callback" /\ t \in Workers /\ t \notin Callers
      /\ Callers \subseteq Threads /\ Workers \subseteq Threads /\ Free \notin Workers
  BY <1>02, WhoseStep, ThreadSets DEF ColorInv
<1>0. Rest(t) = <<>>
  BY <1>1, WorkerPlace, Lists DEF ColorInv, ShapeInv, ColorTypes, Steps
<1>20. Then(t, <<"sample">>) \/ Then(t, <<"failure">>)
  BY DEF CallbackCalls, Bounded, UvcFrames, Outcome
<1>2. \/ Moves(t, "sample", <<>>)
      \/ Moves(t, "failure", <<>>)
  BY <1>1, <1>0, <1>20, ThenNone, ThenOne, Lists DEF ColorInv, ShapeInv, CallbackCalls, Steps
<1>3. /\ m_lock = Free /\ m_lock' = t /\ started
      /\ held \subseteq held' /\ memory' \in {frame.memory : frame \in UvcFrames}
      /\ UNCHANGED <<platform, errors, color, started, m_pCallback, uvc, m_use_mf_buffer, camera, m_flushing, m_hStreamFlushed, mf>>
  BY <1>1, <1>20 DEF CallbackCalls, UNCHANGED_reader, mfVars, apiVars, Decoder, Bounded
<1>30. \A c \in Callers : Top(c) # "destroy"
  BY <1>3, CallerPlace, Distinct DEF ColorInv, HandleInv
<1>4. ColorTypes'
  BY <1>2, <1>3 DEF ColorInv, ShapeInv, ColorTypes, Moves
<1>5. WorkerShape(t)'
  BY <1>1, <1>0, <1>2, <1>3, <1>30, Lists, Distinct DEF ColorInv, ShapeInv, ColorTypes, WorkerShape, Moves, Stopping
<1>6. ShapeInv'
  BY <1>1, <1>0, <1>2, <1>3, <1>30, <1>4, <1>5, ShapeMoves DEF ColorInv
<1>7. LockInv'
  <2>1. CASE Moves(t, "sample", <<>>)
    BY <1>1, <1>0, <1>3, <1>30, <2>1, Lists, Distinct DEF ColorInv, Moves, LockInv, UvcInv
  <2>2. CASE Moves(t, "failure", <<>>)
    BY <1>1, <1>0, <1>3, <1>30, <2>2, Lists, Distinct DEF ColorInv, Moves, LockInv, UvcInv
  <2> QED
    BY <1>2, <2>1, <2>2
<1>8. HandleInv'
  <2>1. CASE Moves(t, "sample", <<>>)
    BY <1>1, <1>0, <1>3, <1>30, <2>1, <1>30, Lists, Distinct DEF ColorInv, Moves, HandleInv
  <2>2. CASE Moves(t, "failure", <<>>)
    BY <1>1, <1>0, <1>3, <1>30, <2>2, <1>30, Lists, Distinct DEF ColorInv, Moves, HandleInv
  <2> QED
    BY <1>2, <2>1, <2>2
<1>9. UvcInv'
  <2>1. CASE Moves(t, "sample", <<>>)
    BY <1>1, <1>0, <1>3, <1>30, <2>1, Lists, Distinct DEF ColorInv, Moves, UvcInv
  <2>2. CASE Moves(t, "failure", <<>>)
    BY <1>1, <1>0, <1>3, <1>30, <2>2, Lists, Distinct DEF ColorInv, Moves, UvcInv
  <2> QED
    BY <1>2, <2>1, <2>2
<1>10. MfInv'
  <2>1. CASE Moves(t, "sample", <<>>)
    BY <1>1, <1>0, <1>3, <1>30, <2>1, Lists, Distinct DEF ColorInv, Moves, MfInv
  <2>2. CASE Moves(t, "failure", <<>>)
    BY <1>1, <1>0, <1>3, <1>30, <2>2, Lists, Distinct DEF ColorInv, Moves, MfInv
  <2> QED
    BY <1>2, <2>1, <2>2
<1>11. MemoryInv'
  <2>1. memory.own = 0 /\ memory.image = 0
    BY <1>1, <1>3 DEF ColorInv, LockInv, MemoryInv
  <2>2. PICK frame \in UvcFrames : memory' = frame.memory
    BY <1>3
  <2>3. Accounted(frame.memory)
    BY <2>1, UvcFramesAccounted DEF ColorInv
  <2> QED
    BY <1>1, <1>2, <2>2, <2>3 DEF Moves, Accounted, MemoryInv
<1> QED
  BY <1>6, <1>7, <1>8, <1>9, <1>10, <1>11 DEF ColorInv

LEMMA CallbackReturnsKeeps ==
  ASSUME ColorInv, platform = "uvc", NEW t \in Threads, CallbackReturns(t), UNCHANGED mfVars
  PROVE  ColorInv'
<1>01. At(t, "sample") \/ At(t, "failure")
  BY DEF CallbackReturns
<1>02. Top(t) = "sample" \/ Top(t) = "failure"
  BY <1>01, AtTop
<1>1. /\ (Top(t) = "sample" \/ Top(t) = "failure") /\ t \in Workers /\ t \notin Callers
      /\ Callers \subseteq Threads /\ Workers \subseteq Threads /\ Free \notin Workers
  BY <1>02, WhoseStep, ThreadSets DEF ColorInv
<1>0. Rest(t) = <<>>
  BY <1>1, WorkerPlace, Lists DEF ColorInv, ShapeInv, ColorTypes, Steps
<1>2. Moves(t, "none", <<>>)
  BY <1>1, <1>0, ThenNone, ThenOne, Lists DEF ColorInv, ShapeInv, CallbackReturns
<1>3. m_lock' = Free /\ memory' = Released(memory) /\ UNCHANGED <<platform, errors, color, started, m_pCallback, held, uvc, m_use_mf_buffer, camera, m_flushing, m_hStreamFlushed, mf>>
  BY <1>1 DEF CallbackReturns, UNCHANGED_reader, mfVars, apiVars
<1>4. ColorTypes'
  BY <1>2, <1>3 DEF ColorInv, ShapeInv, ColorTypes, Moves
<1>5. WorkerShape(t)'
  BY <1>1, <1>0, <1>2, <1>3, Lists, Distinct DEF ColorInv, ShapeInv, ColorTypes, WorkerShape, Moves, Stopping
<1>6. ShapeInv'
  BY <1>1, <1>0, <1>2, <1>3, <1>4, <1>5, ShapeMoves DEF ColorInv
<1>7. LockInv'
  BY <1>1, <1>0, <1>2, <1>3, Lists, Distinct DEF ColorInv, Moves, LockInv
<1>8. HandleInv'
  BY <1>1, <1>0, <1>2, <1>3, Lists, Distinct DEF ColorInv, Moves, HandleInv
<1>9. UvcInv'
  BY <1>1, <1>0, <1>2, <1>3, Lists, Distinct DEF ColorInv, Moves, UvcInv
<1>10. MfInv'
  BY <1>1, <1>0, <1>2, <1>3, Lists, Distinct DEF ColorInv, Moves, MfInv
<1>11. MemoryInv'
  <2>1. Accounted(memory') /\ memory'.own = 0 /\ memory'.image = 0
    BY <1>3, ReleasedAccounted DEF ColorInv
  <2> QED
    BY <2>1 DEF Accounted, MemoryInv
<1> QED
  BY <1>6, <1>7, <1>8, <1>9, <1>10, <1>11 DEF ColorInv

LEMMA FrameArrivesKeeps ==
  ASSUME ColorInv, platform = "uvc", NEW t \in Workers, FrameArrives(t), UNCHANGED mfVars
  PROVE  ColorInv'
<1>1. /\ t \in Threads /\ t \notin Callers
      /\ Callers \subseteq Threads /\ Workers \subseteq Threads /\ Free \notin Workers
  BY ThreadSets
<1>2. Top(t) = "none" /\ Moves(t, "Callback", <<>>)
  BY <1>1, BeginOne DEF ColorInv, ShapeInv, Steps, FrameArrives
<1>3. UNCHANGED <<platform, errors, color, m_lock, started, m_pCallback, held, memory, uvc, m_use_mf_buffer, camera, m_flushing, m_hStreamFlushed, mf>>
  BY DEF FrameArrives, UNCHANGED_reader, mfVars
<1>31. Solo'
  BY <1>1, <1>2, <1>3 DEF ColorInv, ShapeInv, Moves, Solo
<1>4. ColorTypes'
  BY <1>2, <1>3 DEF ColorInv, ShapeInv, ColorTypes, Moves
<1>5. WorkerShape(t)'
  BY <1>1, <1>2, <1>3, <1>31, Lists, Distinct DEF ColorInv, ShapeInv, ColorTypes, WorkerShape, Moves, Stopping
<1>6. ShapeInv'
  BY <1>1, <1>2, <1>3, <1>31, <1>4, <1>5, ShapeMoves DEF ColorInv
<1>7. LockInv'
  BY <1>1, <1>2, <1>3, <1>31, Lists, Distinct DEF ColorInv, Moves, LockInv
<1>8. HandleInv'
  BY <1>1, <1>2, <1>3, <1>31, Lists, Distinct DEF ColorInv, Moves, HandleInv
<1>9. UvcInv'
  BY <1>1, <1>2, <1>3, <1>31, Lists, Distinct DEF ColorInv, Moves, UvcInv
<1>10. MfInv'
  BY <1>1, <1>2, <1>3, <1>31, Lists, Distinct DEF ColorInv, Moves, MfInv
<1>11. MemoryInv'
  BY <1>1, <1>2, <1>3, <1>31, Lists, Distinct DEF ColorInv, Moves, MemoryInv
<1> QED
  BY <1>6, <1>7, <1>8, <1>9, <1>10, <1>11 DEF ColorInv

-----------------------------------------------------------------------------
(* color.cpp                                                               *)

LEMMA StopsReaderKeeps ==
  ASSUME ColorInv, NEW t \in Callers, StopsReader(t), UNCHANGED <<uvc, mfVars>>
  PROVE  ColorInv'
<1>1. /\ t \in Threads /\ t \notin Workers
      /\ Callers \subseteq Threads /\ Workers \subseteq Threads /\ Free \notin Workers
  BY ThreadSets
<1>01. At(t, "stop") /\ Top(t) = "stop"
  BY AtTop DEF StopsReader
<1>0. \/ color = "created" /\ Rest(t) = <<>>
      \/ color = "no reader" /\ Rest(t) = ToShutdown
      \/ color = "destroying" /\ Rest(t) \in {ToShutdown, ToClose, ToReset}
  BY <1>01, CallerPlace DEF ColorInv
<1>2. \/ color = "no reader" /\ Moves(t, "Shutdown", ToDestroy)
      \/ color # "no reader" /\ Moves(t, "Stop", Rest(t))
  BY <1>1, <1>0, <1>01, ThenNone, ThenOne, Lists, ZenonT(40) DEF ColorInv, ShapeInv, StopsReader, Steps
<1>3. UNCHANGED <<platform, errors, color, m_lock, started, m_pCallback, held, memory, uvc, m_use_mf_buffer, camera, m_flushing, m_hStreamFlushed, mf>>
  BY DEF StopsReader, UNCHANGED_reader, mfVars
<1>4. ColorTypes'
  BY <1>2, <1>3 DEF ColorInv, ShapeInv, ColorTypes, Moves
<1>5. CallerShape(t)'
  BY <1>1, <1>01, <1>0, <1>2, <1>3, Lists, Distinct DEF ColorInv, ShapeInv, ColorTypes, CallerShape, Moves, Stopping
<1>6. ShapeInv'
  BY <1>1, <1>01, <1>0, <1>2, <1>3, <1>4, <1>5, ShapeMoves DEF ColorInv
<1>7. LockInv'
  <2>1. CASE color = "no reader" /\ Moves(t, "Shutdown", ToDestroy)
    BY <1>1, <1>01, <1>0, <1>3, <2>1, Lists, Distinct DEF ColorInv, Moves, LockInv
  <2>2. CASE color # "no reader" /\ Moves(t, "Stop", Rest(t))
    BY <1>1, <1>01, <1>0, <1>3, <2>2, Lists, Distinct DEF ColorInv, Moves, LockInv
  <2> QED
    BY <1>2, <2>1, <2>2
<1>8. HandleInv'
  <2>1. CASE color = "no reader" /\ Moves(t, "Shutdown", ToDestroy)
    BY <1>1, <1>01, <1>0, <1>3, <2>1, Lists, Distinct DEF ColorInv, Moves, HandleInv
  <2>2. CASE color # "no reader" /\ Moves(t, "Stop", Rest(t))
    BY <1>1, <1>01, <1>0, <1>3, <2>2, Lists, Distinct DEF ColorInv, Moves, HandleInv
  <2> QED
    BY <1>2, <2>1, <2>2
<1>9. UvcInv'
  <2>1. CASE color = "no reader" /\ Moves(t, "Shutdown", ToDestroy)
    BY <1>1, <1>01, <1>0, <1>3, <2>1, Lists, Distinct DEF ColorInv, Moves, UvcInv
  <2>2. CASE color # "no reader" /\ Moves(t, "Stop", Rest(t))
    BY <1>1, <1>01, <1>0, <1>3, <2>2, Lists, Distinct DEF ColorInv, Moves, UvcInv
  <2> QED
    BY <1>2, <2>1, <2>2
<1>10. MfInv'
  <2>1. CASE color = "no reader" /\ Moves(t, "Shutdown", ToDestroy)
    BY <1>1, <1>01, <1>0, <1>3, <2>1, Lists, Distinct, ZenonT(40) DEF ColorInv, Moves, MfInv
  <2>2. CASE color # "no reader" /\ Moves(t, "Stop", Rest(t))
    BY <1>1, <1>01, <1>0, <1>3, <2>2, Lists, Distinct, ZenonT(40) DEF ColorInv, Moves, MfInv
  <2> QED
    BY <1>2, <2>1, <2>2
<1>11. MemoryInv'
  <2>1. CASE color = "no reader" /\ Moves(t, "Shutdown", ToDestroy)
    BY <1>1, <1>01, <1>0, <1>3, <2>1, Lists, Distinct DEF ColorInv, Moves, MemoryInv
  <2>2. CASE color # "no reader" /\ Moves(t, "Stop", Rest(t))
    BY <1>1, <1>01, <1>0, <1>3, <2>2, Lists, Distinct DEF ColorInv, Moves, MemoryInv
  <2> QED
    BY <1>2, <2>1, <2>2
<1> QED
  BY <1>6, <1>7, <1>8, <1>9, <1>10, <1>11 DEF ColorInv

LEMMA FreesContextKeeps ==
  ASSUME ColorInv, NEW t \in Callers, FreesContext(t), UNCHANGED <<uvc, mfVars>>
  PROVE  ColorInv'
<1>1. /\ t \in Threads /\ t \notin Workers
      /\ Callers \subseteq Threads /\ Workers \subseteq Threads /\ Free \notin Workers
  BY ThreadSets
<1>01. At(t, "destroy") /\ Top(t) = "destroy"
  BY AtTop DEF FreesContext
<1>0. color \in {"no reader", "destroying"} /\ Rest(t) = <<>>
  BY <1>01, CallerPlace DEF ColorInv
<1>00. \A c \in Callers \ {t} : Top(c) = "none" /\ Rest(c) = <<>>
  BY <1>1, <1>01, <1>0, Alone DEF ColorInv
<1>2. Moves(t, "none", <<>>)
  BY <1>1, <1>0, <1>01, ThenNone, Lists DEF ColorInv, ShapeInv, FreesContext
<1>3. color' = "none" /\ UNCHANGED <<platform, errors, m_lock, started, m_pCallback, held, memory, uvc, m_use_mf_buffer, camera, m_flushing, m_hStreamFlushed, mf>>
  BY DEF FreesContext, UNCHANGED_reader, mfVars
<1>4. ColorTypes'
  BY <1>2, <1>3 DEF ColorInv, ShapeInv, ColorTypes, Moves
<1>5. (\A c \in Callers : CallerShape(c)') /\ (\A w \in Workers : WorkerShape(w)') /\ Solo'
  <2>2. \A c \in Callers \ {t} : CallerShape(c)'
    BY <1>1, <1>00, <1>2, <1>3, Lists DEF Moves, CallerShape
  <2>3. \A w \in Workers : WorkerShape(w)'
    BY <1>1, <1>2, <1>3 DEF ColorInv, ShapeInv, Moves, WorkerShape
  <2>4. Solo'
    BY <1>1, <1>00, <1>2, <1>3 DEF Moves, Solo
  <2>5. CallerShape(t)'
    BY <1>1, <1>2, <1>3 DEF Moves, CallerShape, Stopping
  <2> QED
    BY <2>2, <2>3, <2>4, <2>5
<1>6. ShapeInv'
  BY <1>4, <1>5 DEF ShapeInv
<1>7. LockInv'
  BY <1>1, <1>01, <1>0, <1>00, <1>2, <1>3, Lists, Distinct DEF ColorInv, Moves, LockInv
<1>8. HandleInv'
  BY <1>1, <1>01, <1>0, <1>00, <1>2, <1>3, Lists, Distinct DEF ColorInv, Moves, HandleInv
<1>9. UvcInv'
  BY <1>1, <1>01, <1>0, <1>00, <1>2, <1>3, Lists, Distinct DEF ColorInv, Moves, UvcInv
<1>10. MfInv'
  BY <1>1, <1>01, <1>0, <1>00, <1>2, <1>3, Lists, Distinct DEF ColorInv, Moves, MfInv
<1>11. MemoryInv'
  BY <1>1, <1>01, <1>0, <1>00, <1>2, <1>3, Lists, Distinct DEF ColorInv, Moves, MemoryInv
<1> QED
  BY <1>6, <1>7, <1>8, <1>9, <1>10, <1>11 DEF ColorInv

LEMMA color_createKeeps ==
  ASSUME ColorInv, NEW t \in Callers, color_create(t), UNCHANGED <<uvc, mfVars>>
  PROVE  ColorInv'
<1>1. /\ t \in Threads /\ t \notin Workers
      /\ Callers \subseteq Threads /\ Workers \subseteq Threads /\ Free \notin Workers
  BY ThreadSets
<1>00. \A c \in Callers \ {t} : Top(c) = "none" /\ Rest(c) = <<>>
  BY <1>1, IdleTop DEF color_create
<1>2. Top(t) = "none" /\ Moves(t, "Init", <<>>)
  BY <1>1, BeginOne, BeginDestruction DEF ColorInv, ShapeInv, Steps, color_create
<1>3. color = "none" /\ color' = "creating" /\ UNCHANGED <<platform, errors, m_lock, started, m_pCallback, held, memory, uvc, m_use_mf_buffer, camera, m_flushing, m_hStreamFlushed, mf>>
  BY DEF color_create, UNCHANGED_reader, mfVars
<1>4. ColorTypes'
  BY <1>2, <1>3 DEF ColorInv, ShapeInv, ColorTypes, Moves
<1>5. (\A c \in Callers : CallerShape(c)') /\ (\A w \in Workers : WorkerShape(w)') /\ Solo'
  <2>2. \A c \in Callers \ {t} : CallerShape(c)'
    BY <1>1, <1>00, <1>2, <1>3, Lists DEF Moves, CallerShape
  <2>3. \A w \in Workers : WorkerShape(w)'
    BY <1>1, <1>2, <1>3 DEF ColorInv, ShapeInv, Moves, WorkerShape
  <2>4. Solo'
    BY <1>1, <1>00, <1>2, <1>3 DEF Moves, Solo
  <2>5. CallerShape(t)'
    BY <1>1, <1>2, <1>3 DEF Moves, CallerShape, Stopping
  <2> QED
    BY <2>2, <2>3, <2>4, <2>5
<1>6. ShapeInv'
  BY <1>4, <1>5 DEF ShapeInv
<1>7. LockInv'
  BY <1>1, <1>00, <1>2, <1>3, Lists, Distinct DEF ColorInv, Moves, LockInv
<1>8. HandleInv'
  BY <1>1, <1>00, <1>2, <1>3, Lists, Distinct DEF ColorInv, Moves, HandleInv
<1>9. UvcInv'
  BY <1>1, <1>00, <1>2, <1>3, Lists, Distinct DEF ColorInv, Moves, UvcInv
<1>10. MfInv'
  BY <1>1, <1>00, <1>2, <1>3, Lists, Distinct DEF ColorInv, Moves, MfInv
<1>11. MemoryInv'
  BY <1>1, <1>00, <1>2, <1>3, Lists, Distinct DEF ColorInv, Moves, MemoryInv
<1> QED
  BY <1>6, <1>7, <1>8, <1>9, <1>10, <1>11 DEF ColorInv

LEMMA color_destroyKeeps ==
  ASSUME ColorInv, NEW t \in Callers, color_destroy(t), UNCHANGED <<uvc, mfVars>>
  PROVE  ColorInv'
<1>1. /\ t \in Threads /\ t \notin Workers
      /\ Callers \subseteq Threads /\ Workers \subseteq Threads /\ Free \notin Workers
  BY ThreadSets
<1>00. \A c \in Callers \ {t} : Top(c) = "none" /\ Rest(c) = <<>>
  BY <1>1, IdleTop DEF color_destroy
<1>2. Top(t) = "none" /\ Moves(t, "stop", ToShutdown)
  BY <1>1, BeginOne, BeginDestruction DEF ColorInv, ShapeInv, Steps, color_destroy
<1>3. color = "created" /\ color' = "destroying" /\ UNCHANGED <<platform, errors, m_lock, started, m_pCallback, held, memory, uvc, m_use_mf_buffer, camera, m_flushing, m_hStreamFlushed, mf>>
  BY DEF color_destroy, UNCHANGED_reader, mfVars
<1>4. ColorTypes'
  BY <1>2, <1>3 DEF ColorInv, ShapeInv, ColorTypes, Moves
<1>5. (\A c \in Callers : CallerShape(c)') /\ (\A w \in Workers : WorkerShape(w)') /\ Solo'
  <2>2. \A c \in Callers \ {t} : CallerShape(c)'
    BY <1>1, <1>00, <1>2, <1>3, Lists DEF Moves, CallerShape
  <2>3. \A w \in Workers : WorkerShape(w)'
    BY <1>1, <1>2, <1>3 DEF ColorInv, ShapeInv, Moves, WorkerShape
  <2>4. Solo'
    BY <1>1, <1>00, <1>2, <1>3 DEF Moves, Solo
  <2>5. CallerShape(t)'
    BY <1>1, <1>2, <1>3 DEF Moves, CallerShape, Stopping
  <2> QED
    BY <2>2, <2>3, <2>4, <2>5
<1>6. ShapeInv'
  BY <1>4, <1>5 DEF ShapeInv
<1>7. LockInv'
  BY <1>1, <1>00, <1>2, <1>3, Lists, Distinct DEF ColorInv, Moves, LockInv
<1>8. HandleInv'
  BY <1>1, <1>00, <1>2, <1>3, Lists, Distinct DEF ColorInv, Moves, HandleInv
<1>9. UvcInv'
  BY <1>1, <1>00, <1>2, <1>3, Lists, Distinct DEF ColorInv, Moves, UvcInv
<1>10. MfInv'
  BY <1>1, <1>00, <1>2, <1>3, Lists, Distinct DEF ColorInv, Moves, MfInv
<1>11. MemoryInv'
  BY <1>1, <1>00, <1>2, <1>3, Lists, Distinct DEF ColorInv, Moves, MemoryInv
<1> QED
  BY <1>6, <1>7, <1>8, <1>9, <1>10, <1>11 DEF ColorInv

LEMMA color_startKeeps ==
  ASSUME ColorInv, NEW t \in Callers, MayCall(t), color_start(t), UNCHANGED <<uvc, mfVars>>
  PROVE  ColorInv'
<1>1. /\ t \in Threads /\ t \notin Workers
      /\ Callers \subseteq Threads /\ Workers \subseteq Threads /\ Free \notin Workers
  BY ThreadSets
<1>00. platform = "mf" => \A c \in Callers \ {t} : Top(c) = "none"
  BY IdleTop DEF MayCall
<1>2. \/ Top(t) = "none" /\ Moves(t, "Start", <<>>)
      \/ Top(t) = "none" /\ Moves(t, "stop", <<>>)
  BY <1>1, BeginOne, BeginDestruction DEF ColorInv, ShapeInv, Steps, color_start
<1>3. color = "created" /\ UNCHANGED <<platform, errors, color, m_lock, started, m_pCallback, held, memory, uvc, m_use_mf_buffer, camera, m_flushing, m_hStreamFlushed, mf>>
  BY DEF color_start, UNCHANGED_reader, mfVars
<1>31. Solo'
  BY <1>1, <1>2, <1>3, <1>00 DEF ColorInv, ShapeInv, ColorTypes, Moves, Solo
<1>4. ColorTypes'
  BY <1>2, <1>3 DEF ColorInv, ShapeInv, ColorTypes, Moves
<1>5. CallerShape(t)'
  BY <1>1, <1>00, <1>2, <1>3, <1>31, Lists, Distinct DEF ColorInv, ShapeInv, ColorTypes, CallerShape, Moves, Stopping
<1>6. ShapeInv'
  BY <1>1, <1>00, <1>2, <1>3, <1>31, <1>4, <1>5, ShapeMoves DEF ColorInv
<1>7. LockInv'
  <2>1. CASE Top(t) = "none" /\ Moves(t, "Start", <<>>)
    BY <1>1, <1>00, <1>3, <1>31, <2>1, Lists, Distinct DEF ColorInv, Moves, LockInv
  <2>2. CASE Top(t) = "none" /\ Moves(t, "stop", <<>>)
    BY <1>1, <1>00, <1>3, <1>31, <2>2, Lists, Distinct DEF ColorInv, Moves, LockInv
  <2> QED
    BY <1>2, <2>1, <2>2
<1>8. HandleInv'
  <2>1. CASE Top(t) = "none" /\ Moves(t, "Start", <<>>)
    BY <1>1, <1>00, <1>3, <1>31, <2>1, Lists, Distinct DEF ColorInv, Moves, HandleInv
  <2>2. CASE Top(t) = "none" /\ Moves(t, "stop", <<>>)
    BY <1>1, <1>00, <1>3, <1>31, <2>2, Lists, Distinct DEF ColorInv, Moves, HandleInv
  <2> QED
    BY <1>2, <2>1, <2>2
<1>9. UvcInv'
  <2>1. CASE Top(t) = "none" /\ Moves(t, "Start", <<>>)
    BY <1>1, <1>00, <1>3, <1>31, <2>1, Lists, Distinct DEF ColorInv, Moves, UvcInv
  <2>2. CASE Top(t) = "none" /\ Moves(t, "stop", <<>>)
    BY <1>1, <1>00, <1>3, <1>31, <2>2, Lists, Distinct DEF ColorInv, Moves, UvcInv
  <2> QED
    BY <1>2, <2>1, <2>2
<1>10. MfInv'
  <2>1. CASE Top(t) = "none" /\ Moves(t, "Start", <<>>)
    BY <1>1, <1>00, <1>3, <1>31, <2>1, Lists, Distinct DEF ColorInv, Moves, MfInv
  <2>2. CASE Top(t) = "none" /\ Moves(t, "stop", <<>>)
    BY <1>1, <1>00, <1>3, <1>31, <2>2, Lists, Distinct DEF ColorInv, Moves, MfInv
  <2> QED
    BY <1>2, <2>1, <2>2
<1>11. MemoryInv'
  <2>1. CASE Top(t) = "none" /\ Moves(t, "Start", <<>>)
    BY <1>1, <1>00, <1>3, <1>31, <2>1, Lists, Distinct DEF ColorInv, Moves, MemoryInv
  <2>2. CASE Top(t) = "none" /\ Moves(t, "stop", <<>>)
    BY <1>1, <1>00, <1>3, <1>31, <2>2, Lists, Distinct DEF ColorInv, Moves, MemoryInv
  <2> QED
    BY <1>2, <2>1, <2>2
<1> QED
  BY <1>6, <1>7, <1>8, <1>9, <1>10, <1>11 DEF ColorInv

LEMMA color_stopKeeps ==
  ASSUME ColorInv, NEW t \in Callers, MayCall(t), color_stop(t), UNCHANGED <<uvc, mfVars>>
  PROVE  ColorInv'
<1>1. /\ t \in Threads /\ t \notin Workers
      /\ Callers \subseteq Threads /\ Workers \subseteq Threads /\ Free \notin Workers
  BY ThreadSets
<1>00. platform = "mf" => \A c \in Callers \ {t} : Top(c) = "none"
  BY IdleTop DEF MayCall
<1>2. Top(t) = "none" /\ Moves(t, "stop", <<>>)
  BY <1>1, BeginOne, BeginDestruction DEF ColorInv, ShapeInv, Steps, color_stop
<1>3. color = "created" /\ UNCHANGED <<platform, errors, color, m_lock, started, m_pCallback, held, memory, uvc, m_use_mf_buffer, camera, m_flushing, m_hStreamFlushed, mf>>
  BY DEF color_stop, UNCHANGED_reader, mfVars
<1>31. Solo'
  BY <1>1, <1>2, <1>3, <1>00 DEF ColorInv, ShapeInv, ColorTypes, Moves, Solo
<1>4. ColorTypes'
  BY <1>2, <1>3 DEF ColorInv, ShapeInv, ColorTypes, Moves
<1>5. CallerShape(t)'
  BY <1>1, <1>00, <1>2, <1>3, <1>31, Lists, Distinct DEF ColorInv, ShapeInv, ColorTypes, CallerShape, Moves, Stopping
<1>6. ShapeInv'
  BY <1>1, <1>00, <1>2, <1>3, <1>31, <1>4, <1>5, ShapeMoves DEF ColorInv
<1>7. LockInv'
  BY <1>1, <1>00, <1>2, <1>3, <1>31, Lists, Distinct DEF ColorInv, Moves, LockInv
<1>8. HandleInv'
  BY <1>1, <1>00, <1>2, <1>3, <1>31, Lists, Distinct DEF ColorInv, Moves, HandleInv
<1>9. UvcInv'
  BY <1>1, <1>00, <1>2, <1>3, <1>31, Lists, Distinct DEF ColorInv, Moves, UvcInv
<1>10. MfInv'
  BY <1>1, <1>00, <1>2, <1>3, <1>31, Lists, Distinct DEF ColorInv, Moves, MfInv
<1>11. MemoryInv'
  BY <1>1, <1>00, <1>2, <1>3, <1>31, Lists, Distinct DEF ColorInv, Moves, MemoryInv
<1> QED
  BY <1>6, <1>7, <1>8, <1>9, <1>10, <1>11 DEF ColorInv

(* The application keeps a capture or drops it.                            *)
LEMMA KeepKeeps ==
  ASSUME ColorInv, NEW w \in Workers, Keeps(w), UNCHANGED <<uvc, mfVars>>
  PROVE  ColorInv'
<1>1. /\ Top(w) = "sample" /\ memory.image = 1
      /\ memory' = [memory EXCEPT !.image = 0, !.kept = @ + 1]
      /\ UNCHANGED <<platform, errors, color, todo, m_lock, started, m_pCallback, held, uvc, mfVars>>
  BY AtTop DEF Keeps, KeepsCapture
<1>2. ShapeInv' /\ LockInv' /\ HandleInv' /\ UvcInv' /\ MfInv'
  BY <1>1, OnlyMemory
<1>3. MemoryInv'
  <2>1. /\ memory' = [out |-> memory.out, own |-> memory.own, image |-> 0,
                      kept |-> memory.kept + 1, lost |-> memory.lost]
        /\ memory.own \in {0, 1} /\ memory.kept \in Nat /\ memory.lost \in Nat /\ memory.out \in Nat
        /\ memory.out = memory.own + 1 + memory.kept + memory.lost
    BY <1>1 DEF ColorInv, MemoryInv
  <2>2. Top(w)' = "sample"
    BY <1>1 DEF Top
  <2> QED
    BY <2>1, <2>2 DEF MemoryInv
<1> QED
  BY <1>2, <1>3 DEF ColorInv

LEMMA DropKeeps ==
  ASSUME ColorInv, DropsCapture, UNCHANGED <<uvc, mfVars>>,
         UNCHANGED <<platform, errors, color, todo, m_lock, started, m_pCallback, held>>
  PROVE  ColorInv'
<1>1. ShapeInv' /\ LockInv' /\ HandleInv' /\ UvcInv' /\ MfInv'
  BY OnlyMemory
<1>2. MemoryInv'
  <2>1. memory \in [out : Nat, own : {0, 1}, image : {0, 1}, kept : Nat, lost : Nat]
    BY DEF ColorInv, MemoryInv
  <2>6. GivenBack(memory) = [out |-> memory.out - 1, own |-> memory.own, image |-> memory.image,
                             kept |-> memory.kept, lost |-> memory.lost]
    BY <2>1, FrameSteps
  <2>2. /\ memory' = [out |-> memory.out - 1, own |-> memory.own, image |-> memory.image,
                      kept |-> memory.kept - 1, lost |-> memory.lost]
        /\ memory.kept > 0
    BY <2>6 DEF DropsCapture
  <2>3. /\ memory.own \in {0, 1} /\ memory.image \in {0, 1}
        /\ memory.kept \in Nat /\ memory.lost \in Nat /\ memory.out \in Nat
        /\ memory.out = memory.own + memory.image + memory.kept + memory.lost
    BY DEF ColorInv, MemoryInv
  <2>4. memory.out - 1 \in Nat /\ memory.kept - 1 \in Nat
    BY <2>2, <2>3
  <2>5. \A w \in Workers : Top(w)' = Top(w)
    BY DEF Top
  <2> QED
    BY <2>2, <2>3, <2>4, <2>5 DEF ColorInv, MemoryInv
<1> QED
  BY <1>1, <1>2 DEF ColorInv

-----------------------------------------------------------------------------
(* The steps of the Windows reader                                         *)

LEMMA MfInitializeKeeps ==
  ASSUME ColorInv, platform = "mf", NEW t \in Threads, MfInitialize(t), UNCHANGED uvc
  PROVE  ColorInv'
<1>01. At(t, "Init")
  BY DEF MfInitialize
<1>02. Top(t) = "Init"
  BY <1>01, AtTop
<1>1. /\ Top(t) = "Init" /\ t \in Callers /\ t \notin Workers
      /\ Callers \subseteq Threads /\ Workers \subseteq Threads /\ Free \notin Workers
  BY <1>02, WhoseStep, ThreadSets DEF ColorInv
<1>0. color = "creating" /\ Rest(t) = <<>>
  BY <1>1, CallerPlace, Lists DEF ColorInv, ShapeInv, ColorTypes, Steps
<1>00. \A c \in Callers \ {t} : Top(c) = "none" /\ Rest(c) = <<>>
  BY <1>1, <1>0, Alone DEF ColorInv
<1>2. \/ color' = "created" /\ held' = MfResources /\ camera' = OwnContainer /\ Moves(t, "none", <<>>)
      \/ color' = "no reader" /\ held' = held /\ camera' = camera /\ Moves(t, "stop", ToShutdown)
  BY <1>1, <1>0, ThenNone, ThenOne, Lists, ThenDestruction, FindsOwn, ZenonT(40) DEF ColorInv, ShapeInv, MfInitialize
<1>3. m_use_mf_buffer' \in BOOLEAN /\ UNCHANGED <<platform, errors, m_lock, started, m_pCallback, memory, uvc, m_flushing, m_hStreamFlushed, mf>>
  BY <1>1 DEF MfInitialize, UNCHANGED_reader, mfVars, apiVars
<1>4. ColorTypes'
  BY <1>2, <1>3 DEF ColorInv, ShapeInv, ColorTypes, Moves
<1>5. (\A c \in Callers : CallerShape(c)') /\ (\A w \in Workers : WorkerShape(w)') /\ Solo'
  <2>2. \A c \in Callers \ {t} : CallerShape(c)'
    BY <1>1, <1>00, <1>2, <1>3, Lists DEF Moves, CallerShape
  <2>3. \A w \in Workers : WorkerShape(w)'
    BY <1>1, <1>2, <1>3 DEF ColorInv, ShapeInv, Moves, WorkerShape
  <2>4. Solo'
    BY <1>1, <1>00, <1>2, <1>3 DEF Moves, Solo
  <2>5. CallerShape(t)'
    BY <1>1, <1>2, <1>3 DEF Moves, CallerShape, Stopping
  <2> QED
    BY <2>2, <2>3, <2>4, <2>5
<1>6. ShapeInv'
  BY <1>4, <1>5 DEF ShapeInv
<1>7. LockInv'
  <2>1. CASE color' = "created" /\ held' = MfResources /\ camera' = OwnContainer /\ Moves(t, "none", <<>>)
    BY <1>1, <1>0, <1>00, <1>3, <2>1, Lists, Distinct DEF ColorInv, Moves, LockInv
  <2>2. CASE color' = "no reader" /\ held' = held /\ camera' = camera /\ Moves(t, "stop", ToShutdown)
    BY <1>1, <1>0, <1>00, <1>3, <2>2, Lists, Distinct DEF ColorInv, Moves, LockInv
  <2> QED
    BY <1>2, <2>1, <2>2
<1>8. HandleInv'
  <2>1. CASE color' = "created" /\ held' = MfResources /\ camera' = OwnContainer /\ Moves(t, "none", <<>>)
    BY <1>1, <1>0, <1>00, <1>3, <2>1, Lists, Distinct DEF ColorInv, Moves, HandleInv
  <2>2. CASE color' = "no reader" /\ held' = held /\ camera' = camera /\ Moves(t, "stop", ToShutdown)
    BY <1>1, <1>0, <1>00, <1>3, <2>2, Lists, Distinct DEF ColorInv, Moves, HandleInv
  <2> QED
    BY <1>2, <2>1, <2>2
<1>9. UvcInv'
  <2>1. CASE color' = "created" /\ held' = MfResources /\ camera' = OwnContainer /\ Moves(t, "none", <<>>)
    BY <1>1, <1>0, <1>00, <1>3, <2>1, Lists, Distinct DEF ColorInv, Moves, UvcInv, HandleInv
  <2>2. CASE color' = "no reader" /\ held' = held /\ camera' = camera /\ Moves(t, "stop", ToShutdown)
    BY <1>1, <1>0, <1>00, <1>3, <2>2, Lists, Distinct DEF ColorInv, Moves, UvcInv, HandleInv
  <2> QED
    BY <1>2, <2>1, <2>2
<1>10. MfInv'
  <2>1. CASE color' = "created" /\ held' = MfResources /\ camera' = OwnContainer /\ Moves(t, "none", <<>>)
    BY <1>1, <1>0, <1>00, <1>3, <2>1, Lists, Distinct DEF ColorInv, Moves, MfInv
  <2>2. CASE color' = "no reader" /\ held' = held /\ camera' = camera /\ Moves(t, "stop", ToShutdown)
    BY <1>1, <1>0, <1>00, <1>3, <2>2, Lists, Distinct DEF ColorInv, Moves, MfInv
  <2> QED
    BY <1>2, <2>1, <2>2
<1>11. MemoryInv'
  <2>1. CASE color' = "created" /\ held' = MfResources /\ camera' = OwnContainer /\ Moves(t, "none", <<>>)
    BY <1>1, <1>0, <1>00, <1>3, <2>1, Lists, Distinct DEF ColorInv, Moves, MemoryInv
  <2>2. CASE color' = "no reader" /\ held' = held /\ camera' = camera /\ Moves(t, "stop", ToShutdown)
    BY <1>1, <1>0, <1>00, <1>3, <2>2, Lists, Distinct DEF ColorInv, Moves, MemoryInv
  <2> QED
    BY <1>2, <2>1, <2>2
<1> QED
  BY <1>6, <1>7, <1>8, <1>9, <1>10, <1>11 DEF ColorInv

LEMMA MfStartKeeps ==
  ASSUME ColorInv, platform = "mf", NEW t \in Threads, MfStart(t), UNCHANGED uvc
  PROVE  ColorInv'
<1>01. At(t, "Start")
  BY DEF MfStart
<1>02. Top(t) = "Start"
  BY <1>01, AtTop
<1>1. /\ Top(t) = "Start" /\ t \in Callers /\ t \notin Workers
      /\ Callers \subseteq Threads /\ Workers \subseteq Threads /\ Free \notin Workers
  BY <1>02, WhoseStep, ThreadSets DEF ColorInv
<1>0. color = "created" /\ Rest(t) = <<>>
  BY <1>1, CallerPlace, Lists DEF ColorInv, ShapeInv, ColorTypes, Steps
<1>20. /\ Then(t, <<>>) => Moves(t, "none", <<>>)
       /\ Then(t, <<"ReadFirst">>) => Moves(t, "ReadFirst", <<>>)
       /\ Then(t, <<"stop">>) => Moves(t, "stop", <<>>)
  BY <1>1, <1>0, ThenNone, ThenOne, Lists, ZenonT(40) DEF ColorInv, ShapeInv, MfStart, Steps
<1>21. LET m == [mf EXCEPT !.selected = TRUE] IN m \in MfType /\ m.reads = mf.reads /\ m.flush = mf.flush
  BY DEF ColorInv, ShapeInv, ColorTypes, MfType
<1>2. \/ started /\ mf' = mf /\ Moves(t, "none", <<>>)
      \/ ~started /\ mf' \in MfType /\ mf'.reads = mf.reads /\ mf'.flush = mf.flush /\ Moves(t, "ReadFirst", <<>>)
      \/ mf' = mf /\ Moves(t, "stop", <<>>)
  BY <1>1, <1>0, <1>20, <1>21, ThenNone, ThenOne, Lists DEF ColorInv, ShapeInv, MfStart, StartFailed, Steps
<1>3. UNCHANGED <<platform, errors, color, m_lock, started, m_pCallback, held, memory, uvc, m_use_mf_buffer, camera, m_flushing, m_hStreamFlushed>>
  BY <1>1, <1>20, <1>21 DEF MfStart, UNCHANGED_reader, mfVars, apiVars
<1>4. ColorTypes'
  BY <1>2, <1>3 DEF ColorInv, ShapeInv, ColorTypes, Moves
<1>5. CallerShape(t)'
  BY <1>1, <1>0, <1>2, <1>3, Lists, Distinct DEF ColorInv, ShapeInv, ColorTypes, CallerShape, Moves, Stopping
<1>6. ShapeInv'
  BY <1>1, <1>0, <1>2, <1>3, <1>4, <1>5, ShapeMoves DEF ColorInv
<1>7. LockInv'
  <2>1. CASE started /\ mf' = mf /\ Moves(t, "none", <<>>)
    BY <1>1, <1>0, <1>3, <2>1, Lists, Distinct DEF ColorInv, Moves, LockInv
  <2>2. CASE ~started /\ mf' \in MfType /\ mf'.reads = mf.reads /\ mf'.flush = mf.flush /\ Moves(t, "ReadFirst", <<>>)
    BY <1>1, <1>0, <1>3, <2>2, Lists, Distinct DEF ColorInv, Moves, LockInv
  <2>3. CASE mf' = mf /\ Moves(t, "stop", <<>>)
    BY <1>1, <1>0, <1>3, <2>3, Lists, Distinct DEF ColorInv, Moves, LockInv
  <2> QED
    BY <1>2, <2>1, <2>2, <2>3
<1>8. HandleInv'
  <2>1. CASE started /\ mf' = mf /\ Moves(t, "none", <<>>)
    BY <1>1, <1>0, <1>3, <2>1, Lists, Distinct DEF ColorInv, Moves, HandleInv
  <2>2. CASE ~started /\ mf' \in MfType /\ mf'.reads = mf.reads /\ mf'.flush = mf.flush /\ Moves(t, "ReadFirst", <<>>)
    BY <1>1, <1>0, <1>3, <2>2, Lists, Distinct DEF ColorInv, Moves, HandleInv
  <2>3. CASE mf' = mf /\ Moves(t, "stop", <<>>)
    BY <1>1, <1>0, <1>3, <2>3, Lists, Distinct DEF ColorInv, Moves, HandleInv
  <2> QED
    BY <1>2, <2>1, <2>2, <2>3
<1>9. UvcInv'
  <2>1. CASE started /\ mf' = mf /\ Moves(t, "none", <<>>)
    BY <1>1, <1>0, <1>3, <2>1, Lists, Distinct DEF ColorInv, Moves, UvcInv
  <2>2. CASE ~started /\ mf' \in MfType /\ mf'.reads = mf.reads /\ mf'.flush = mf.flush /\ Moves(t, "ReadFirst", <<>>)
    BY <1>1, <1>0, <1>3, <2>2, Lists, Distinct DEF ColorInv, Moves, UvcInv
  <2>3. CASE mf' = mf /\ Moves(t, "stop", <<>>)
    BY <1>1, <1>0, <1>3, <2>3, Lists, Distinct DEF ColorInv, Moves, UvcInv
  <2> QED
    BY <1>2, <2>1, <2>2, <2>3
<1>10. MfInv'
  <2>1. CASE started /\ mf' = mf /\ Moves(t, "none", <<>>)
    BY <1>1, <1>0, <1>3, <2>1, Lists, Distinct DEF ColorInv, Moves, MfInv
  <2>2. CASE ~started /\ mf' \in MfType /\ mf'.reads = mf.reads /\ mf'.flush = mf.flush /\ Moves(t, "ReadFirst", <<>>)
    BY <1>1, <1>0, <1>3, <2>2, Lists, Distinct DEF ColorInv, Moves, MfInv
  <2>3. CASE mf' = mf /\ Moves(t, "stop", <<>>)
    BY <1>1, <1>0, <1>3, <2>3, Lists, Distinct DEF ColorInv, Moves, MfInv
  <2> QED
    BY <1>2, <2>1, <2>2, <2>3
<1>11. MemoryInv'
  <2>1. CASE started /\ mf' = mf /\ Moves(t, "none", <<>>)
    BY <1>1, <1>0, <1>3, <2>1, Lists, Distinct DEF ColorInv, Moves, MemoryInv
  <2>2. CASE ~started /\ mf' \in MfType /\ mf'.reads = mf.reads /\ mf'.flush = mf.flush /\ Moves(t, "ReadFirst", <<>>)
    BY <1>1, <1>0, <1>3, <2>2, Lists, Distinct DEF ColorInv, Moves, MemoryInv
  <2>3. CASE mf' = mf /\ Moves(t, "stop", <<>>)
    BY <1>1, <1>0, <1>3, <2>3, Lists, Distinct DEF ColorInv, Moves, MemoryInv
  <2> QED
    BY <1>2, <2>1, <2>2, <2>3
<1> QED
  BY <1>6, <1>7, <1>8, <1>9, <1>10, <1>11 DEF ColorInv

LEMMA MfReadFirstKeeps ==
  ASSUME ColorInv, platform = "mf", NEW t \in Threads, MfReadFirst(t), UNCHANGED uvc
  PROVE  ColorInv'
<1>01. At(t, "ReadFirst")
  BY DEF MfReadFirst
<1>02. Top(t) = "ReadFirst"
  BY <1>01, AtTop
<1>1. /\ Top(t) = "ReadFirst" /\ t \in Callers /\ t \notin Workers
      /\ Callers \subseteq Threads /\ Workers \subseteq Threads /\ Free \notin Workers
  BY <1>02, WhoseStep, ThreadSets DEF ColorInv
<1>0. color = "created" /\ Rest(t) = <<>>
  BY <1>1, CallerPlace, Lists DEF ColorInv, ShapeInv, ColorTypes, Steps
<1>00. \A c \in Callers \ {t} : Top(c) = "none" /\ Rest(c) = <<>>
  BY <1>1, <1>0, Alone DEF ColorInv
<1>20. /\ Then(t, <<>>) => Moves(t, "none", <<>>)
       /\ Then(t, <<"stop">>) => Moves(t, "stop", <<>>)
  BY <1>1, <1>0, ThenNone, ThenOne, Lists, ZenonT(40) DEF ColorInv, ShapeInv, MfReadFirst, Steps
<1>22. mf.reads \in Nat
  BY MfUpdates DEF ColorInv, ShapeInv
<1>23. mf.reads + 1 \in Nat /\ mf.reads + 1 > 0
  BY <1>22
<1>21. LET m == [mf EXCEPT !.reads = mf.reads + 1] IN m \in MfType /\ m.reads > 0 /\ m.flush = mf.flush
  BY <1>23, MfUpdates DEF ColorInv, ShapeInv
<1>2. \/ /\ ~mf.flush /\ mf' \in MfType /\ mf'.reads > 0 /\ mf'.flush = mf.flush
         /\ started' = TRUE /\ Moves(t, "none", <<>>)
      \/ mf' = mf /\ started' = started /\ Moves(t, "stop", <<>>)
  BY <1>1, <1>0, <1>20, <1>22, <1>23, <1>21, ThenNone, ThenOne, Lists DEF ColorInv, ShapeInv, MfReadFirst, StartFailed, MayRead
<1>3. m_lock = Free /\ m_pCallback' = TRUE /\ UNCHANGED <<platform, errors, color, m_lock, held, memory, uvc, m_use_mf_buffer, camera, m_flushing, m_hStreamFlushed>>
  BY <1>1, <1>20, <1>22, <1>23, <1>21 DEF MfReadFirst, UNCHANGED_reader, mfVars, apiVars
<1>32. ~errors => ~m_hStreamFlushed /\ ~m_flushing /\ \A w \in Workers : Top(w) # "OnFlush"
  BY <1>1, <1>00, <1>3, NoFlush
<1>4. ColorTypes'
  BY <1>2, <1>3 DEF ColorInv, ShapeInv, ColorTypes, Moves
<1>5. CallerShape(t)'
  BY <1>1, <1>0, <1>00, <1>2, <1>3, <1>32, Lists, Distinct DEF ColorInv, ShapeInv, ColorTypes, CallerShape, Moves, Stopping
<1>6. ShapeInv'
  BY <1>1, <1>0, <1>00, <1>2, <1>3, <1>32, <1>4, <1>5, ShapeMoves DEF ColorInv
<1>7. LockInv'
  <2>1. CASE /\ ~mf.flush /\ mf' \in MfType /\ mf'.reads > 0 /\ mf'.flush = mf.flush
      /\ started' = TRUE /\ Moves(t, "none", <<>>)
    BY <1>1, <1>0, <1>00, <1>3, <1>32, <2>1, Lists, Distinct DEF ColorInv, Moves, LockInv
  <2>2. CASE mf' = mf /\ started' = started /\ Moves(t, "stop", <<>>)
    BY <1>1, <1>0, <1>00, <1>3, <1>32, <2>2, Lists, Distinct DEF ColorInv, Moves, LockInv
  <2> QED
    BY <1>2, <2>1, <2>2
<1>8. HandleInv'
  <2>1. CASE /\ ~mf.flush /\ mf' \in MfType /\ mf'.reads > 0 /\ mf'.flush = mf.flush
      /\ started' = TRUE /\ Moves(t, "none", <<>>)
    BY <1>1, <1>0, <1>00, <1>3, <1>32, <2>1, Lists, Distinct DEF ColorInv, Moves, HandleInv
  <2>2. CASE mf' = mf /\ started' = started /\ Moves(t, "stop", <<>>)
    BY <1>1, <1>0, <1>00, <1>3, <1>32, <2>2, Lists, Distinct DEF ColorInv, Moves, HandleInv
  <2> QED
    BY <1>2, <2>1, <2>2
<1>9. UvcInv'
  <2>1. CASE /\ ~mf.flush /\ mf' \in MfType /\ mf'.reads > 0 /\ mf'.flush = mf.flush
      /\ started' = TRUE /\ Moves(t, "none", <<>>)
    BY <1>1, <1>0, <1>00, <1>3, <1>32, <2>1, Lists, Distinct DEF ColorInv, Moves, UvcInv
  <2>2. CASE mf' = mf /\ started' = started /\ Moves(t, "stop", <<>>)
    BY <1>1, <1>0, <1>00, <1>3, <1>32, <2>2, Lists, Distinct DEF ColorInv, Moves, UvcInv
  <2> QED
    BY <1>2, <2>1, <2>2
<1>10. MfInv'
  <2>1. CASE /\ ~mf.flush /\ mf' \in MfType /\ mf'.reads > 0 /\ mf'.flush = mf.flush
      /\ started' = TRUE /\ Moves(t, "none", <<>>)
    BY <1>1, <1>0, <1>00, <1>3, <1>32, <2>1, Lists, Distinct DEF ColorInv, Moves, MfInv
  <2>2. CASE mf' = mf /\ started' = started /\ Moves(t, "stop", <<>>)
    BY <1>1, <1>0, <1>00, <1>3, <1>32, <2>2, Lists, Distinct DEF ColorInv, Moves, MfInv
  <2> QED
    BY <1>2, <2>1, <2>2
<1>11. MemoryInv'
  <2>1. CASE /\ ~mf.flush /\ mf' \in MfType /\ mf'.reads > 0 /\ mf'.flush = mf.flush
      /\ started' = TRUE /\ Moves(t, "none", <<>>)
    BY <1>1, <1>0, <1>00, <1>3, <1>32, <2>1, Lists, Distinct DEF ColorInv, Moves, MemoryInv
  <2>2. CASE mf' = mf /\ started' = started /\ Moves(t, "stop", <<>>)
    BY <1>1, <1>0, <1>00, <1>3, <1>32, <2>2, Lists, Distinct DEF ColorInv, Moves, MemoryInv
  <2> QED
    BY <1>2, <2>1, <2>2
<1> QED
  BY <1>6, <1>7, <1>8, <1>9, <1>10, <1>11 DEF ColorInv

LEMMA MfStopKeeps ==
  ASSUME ColorInv, platform = "mf", NEW t \in Threads, MfStop(t), UNCHANGED uvc
  PROVE  ColorInv'
<1>01. At(t, "Stop")
  BY DEF MfStop
<1>02. Top(t) = "Stop"
  BY <1>01, AtTop
<1>1. /\ Top(t) = "Stop" /\ (t \in Callers \/ (t \in Workers /\ errors))
      /\ Callers \subseteq Threads /\ Workers \subseteq Threads /\ Free \notin Workers
  BY <1>02, WhoseStep, ThreadSets DEF ColorInv, ShapeInv, ColorTypes
<1>0. /\ Rest(t) \in {<<>>, ToShutdown, ToClose, ToReset}
      /\ First(Rest(t)) \in {"none", "Shutdown", "close", "Reset"}
  BY <1>1, CallerPlace, WorkerPlace, Lists DEF ColorInv, ShapeInv, ColorTypes, Steps
<1>21. /\ [mf EXCEPT !.flush = TRUE] \in MfType
       /\ [mf EXCEPT !.flush = TRUE].reads = mf.reads /\ [mf EXCEPT !.flush = TRUE].flush = TRUE
  BY MfUpdates DEF ColorInv, ShapeInv
<1>2. \/ /\ started /\ m_flushing' = TRUE /\ Moves(t, "Wait", Rest(t))
         /\ mf' \in MfType /\ mf'.reads = mf.reads /\ mf'.flush = TRUE
      \/ /\ started /\ errors /\ Moves(t, "Wait", Rest(t)) /\ UNCHANGED <<m_flushing, mf>>
      \/ /\ ~started /\ UNCHANGED <<m_flushing, mf>>
         /\ Moves(t, First(Rest(t)), Others(Rest(t)))
  BY <1>1, <1>0, <1>21, ThenNone, ThenOne, Lists, ZenonT(40) DEF ColorInv, ShapeInv, ColorTypes, MfStop, Steps
<1>3. m_lock = Free /\ started' = FALSE /\ UNCHANGED <<platform, errors, color, m_lock, m_pCallback, held, memory, uvc, m_use_mf_buffer, camera, m_hStreamFlushed>>
  BY <1>1, <1>21 DEF MfStop, UNCHANGED_reader, mfVars, apiVars
<1>33. ~errors => \A c \in Callers : Top(c) # "Wait"
  BY <1>1, Alone DEF ColorInv
<1>32. ~errors => ~mf.flush /\ ~m_hStreamFlushed /\ \A w \in Workers : Top(w) # "OnFlush"
  BY <1>33, NoFlush
<1>4. ColorTypes'
  BY <1>2, <1>3 DEF ColorInv, ShapeInv, ColorTypes, Moves
<1>5. (t \in Callers => CallerShape(t)') /\ (t \in Workers => WorkerShape(t)')
  BY <1>1, <1>0, <1>2, <1>3, <1>33, <1>32, Lists, Distinct DEF ColorInv, ShapeInv, ColorTypes, CallerShape, WorkerShape, Moves, Stopping
<1>6. ShapeInv'
  BY <1>1, <1>0, <1>2, <1>3, <1>33, <1>32, <1>4, <1>5, ShapeMoves DEF ColorInv
<1>7. LockInv'
  <2>1. CASE /\ started /\ m_flushing' = TRUE /\ Moves(t, "Wait", Rest(t))
      /\ mf' \in MfType /\ mf'.reads = mf.reads /\ mf'.flush = TRUE
    BY <1>1, <1>0, <1>3, <1>33, <1>32, <2>1, Lists, Distinct DEF ColorInv, Moves, LockInv
  <2>2. CASE /\ started /\ errors /\ Moves(t, "Wait", Rest(t)) /\ UNCHANGED <<m_flushing, mf>>
    BY <1>1, <1>0, <1>3, <1>33, <1>32, <2>2, Lists, Distinct DEF ColorInv, Moves, LockInv
  <2>3. CASE /\ ~started /\ UNCHANGED <<m_flushing, mf>>
      /\ Moves(t, First(Rest(t)), Others(Rest(t)))
    BY <1>1, <1>0, <1>3, <1>33, <1>32, <2>3, Lists, Distinct DEF ColorInv, Moves, LockInv
  <2> QED
    BY <1>2, <2>1, <2>2, <2>3
<1>8. HandleInv'
  <2>1. CASE /\ started /\ m_flushing' = TRUE /\ Moves(t, "Wait", Rest(t))
      /\ mf' \in MfType /\ mf'.reads = mf.reads /\ mf'.flush = TRUE
    BY <1>1, <1>0, <1>3, <1>33, <1>32, <2>1, Lists, Distinct DEF ColorInv, Moves, HandleInv
  <2>2. CASE /\ started /\ errors /\ Moves(t, "Wait", Rest(t)) /\ UNCHANGED <<m_flushing, mf>>
    BY <1>1, <1>0, <1>3, <1>33, <1>32, <2>2, Lists, Distinct DEF ColorInv, Moves, HandleInv
  <2>3. CASE /\ ~started /\ UNCHANGED <<m_flushing, mf>>
      /\ Moves(t, First(Rest(t)), Others(Rest(t)))
    BY <1>1, <1>0, <1>3, <1>33, <1>32, <2>3, Lists, Distinct DEF ColorInv, Moves, HandleInv
  <2> QED
    BY <1>2, <2>1, <2>2, <2>3
<1>9. UvcInv'
  <2>1. CASE /\ started /\ m_flushing' = TRUE /\ Moves(t, "Wait", Rest(t))
      /\ mf' \in MfType /\ mf'.reads = mf.reads /\ mf'.flush = TRUE
    BY <1>1, <1>0, <1>3, <1>33, <1>32, <2>1, Lists, Distinct DEF ColorInv, Moves, UvcInv
  <2>2. CASE /\ started /\ errors /\ Moves(t, "Wait", Rest(t)) /\ UNCHANGED <<m_flushing, mf>>
    BY <1>1, <1>0, <1>3, <1>33, <1>32, <2>2, Lists, Distinct DEF ColorInv, Moves, UvcInv
  <2>3. CASE /\ ~started /\ UNCHANGED <<m_flushing, mf>>
      /\ Moves(t, First(Rest(t)), Others(Rest(t)))
    BY <1>1, <1>0, <1>3, <1>33, <1>32, <2>3, Lists, Distinct DEF ColorInv, Moves, UvcInv
  <2> QED
    BY <1>2, <2>1, <2>2, <2>3
<1>10. MfInv'
  <2>1. CASE /\ started /\ m_flushing' = TRUE /\ Moves(t, "Wait", Rest(t))
      /\ mf' \in MfType /\ mf'.reads = mf.reads /\ mf'.flush = TRUE
    BY <1>1, <1>0, <1>3, <1>33, <1>32, <2>1, Lists, Distinct DEF ColorInv, Moves, MfInv, HandleInv
  <2>2. CASE /\ started /\ errors /\ Moves(t, "Wait", Rest(t)) /\ UNCHANGED <<m_flushing, mf>>
    BY <1>1, <1>0, <1>3, <1>33, <1>32, <2>2, Lists, Distinct DEF ColorInv, Moves, MfInv, HandleInv
  <2>3. CASE /\ ~started /\ UNCHANGED <<m_flushing, mf>>
      /\ Moves(t, First(Rest(t)), Others(Rest(t)))
    BY <1>1, <1>0, <1>3, <1>33, <1>32, <2>3, Lists, Distinct DEF ColorInv, Moves, MfInv, HandleInv
  <2> QED
    BY <1>2, <2>1, <2>2, <2>3
<1>11. MemoryInv'
  <2>1. CASE /\ started /\ m_flushing' = TRUE /\ Moves(t, "Wait", Rest(t))
      /\ mf' \in MfType /\ mf'.reads = mf.reads /\ mf'.flush = TRUE
    BY <1>1, <1>0, <1>3, <1>33, <1>32, <2>1, Lists, Distinct DEF ColorInv, Moves, MemoryInv
  <2>2. CASE /\ started /\ errors /\ Moves(t, "Wait", Rest(t)) /\ UNCHANGED <<m_flushing, mf>>
    BY <1>1, <1>0, <1>3, <1>33, <1>32, <2>2, Lists, Distinct DEF ColorInv, Moves, MemoryInv
  <2>3. CASE /\ ~started /\ UNCHANGED <<m_flushing, mf>>
      /\ Moves(t, First(Rest(t)), Others(Rest(t)))
    BY <1>1, <1>0, <1>3, <1>33, <1>32, <2>3, Lists, Distinct DEF ColorInv, Moves, MemoryInv
  <2> QED
    BY <1>2, <2>1, <2>2, <2>3
<1> QED
  BY <1>6, <1>7, <1>8, <1>9, <1>10, <1>11 DEF ColorInv

LEMMA MfWaitEndsKeeps ==
  ASSUME ColorInv, platform = "mf", NEW t \in Threads, MfWaitEnds(t), UNCHANGED uvc
  PROVE  ColorInv'
<1>01. At(t, "Wait")
  BY DEF MfWaitEnds
<1>02. Top(t) = "Wait"
  BY <1>01, AtTop
<1>1. /\ Top(t) = "Wait" /\ (t \in Callers \/ (t \in Workers /\ errors))
      /\ Callers \subseteq Threads /\ Workers \subseteq Threads /\ Free \notin Workers
  BY <1>02, WhoseStep, ThreadSets DEF ColorInv
<1>0. /\ Rest(t) \in {<<>>, ToShutdown, ToClose, ToReset}
      /\ First(Rest(t)) \in {"none", "Shutdown", "close", "Reset"}
  BY <1>1, CallerPlace, WorkerPlace, Lists DEF ColorInv, ShapeInv, ColorTypes, Steps
<1>2. Moves(t, First(Rest(t)), Others(Rest(t)))
  BY <1>1, <1>0, ThenNone, ThenOne, Lists DEF ColorInv, ShapeInv, MfWaitEnds
<1>3. m_hStreamFlushed = TRUE /\ m_hStreamFlushed' = FALSE /\ UNCHANGED <<platform, errors, color, m_lock, started, m_pCallback, held, memory, uvc, m_use_mf_buffer, camera, m_flushing, mf>>
  BY <1>1 DEF MfWaitEnds, UNCHANGED_reader, mfVars, apiVars, Flushed
<1>4. ColorTypes'
  BY <1>2, <1>3 DEF ColorInv, ShapeInv, ColorTypes, Moves
<1>5. (t \in Callers => CallerShape(t)') /\ (t \in Workers => WorkerShape(t)')
  BY <1>1, <1>0, <1>2, <1>3, Lists, Distinct DEF ColorInv, ShapeInv, ColorTypes, CallerShape, WorkerShape, Moves, Stopping
<1>6. ShapeInv'
  BY <1>1, <1>0, <1>2, <1>3, <1>4, <1>5, ShapeMoves DEF ColorInv
<1>7. LockInv'
  BY <1>1, <1>0, <1>2, <1>3, Lists, Distinct DEF ColorInv, Moves, LockInv
<1>8. HandleInv'
  BY <1>1, <1>0, <1>2, <1>3, Lists, Distinct DEF ColorInv, Moves, HandleInv
<1>9. UvcInv'
  BY <1>1, <1>0, <1>2, <1>3, Lists, Distinct DEF ColorInv, Moves, UvcInv
<1>10. MfInv'
  BY <1>1, <1>0, <1>2, <1>3, Lists, Distinct DEF ColorInv, Moves, MfInv
<1>11. MemoryInv'
  BY <1>1, <1>0, <1>2, <1>3, Lists, Distinct DEF ColorInv, Moves, MemoryInv
<1> QED
  BY <1>6, <1>7, <1>8, <1>9, <1>10, <1>11 DEF ColorInv

LEMMA MfShutdownKeeps ==
  ASSUME ColorInv, platform = "mf", NEW t \in Threads, MfShutdown(t), UNCHANGED uvc
  PROVE  ColorInv'
<1>01. At(t, "Shutdown")
  BY DEF MfShutdown
<1>02. Top(t) = "Shutdown"
  BY <1>01, AtTop
<1>1. /\ Top(t) = "Shutdown" /\ t \in Callers /\ t \notin Workers
      /\ Callers \subseteq Threads /\ Workers \subseteq Threads /\ Free \notin Workers
  BY <1>02, WhoseStep, ThreadSets DEF ColorInv
<1>0. color \in {"no reader", "destroying"} /\ Rest(t) = ToDestroy
  BY <1>1, CallerPlace, Lists DEF ColorInv, ShapeInv, ColorTypes, Steps
<1>00. \A c \in Callers \ {t} : Top(c) = "none" /\ Rest(c) = <<>>
  BY <1>1, <1>0, Alone DEF ColorInv
<1>20. /\ Then(t, <<>>) => Moves(t, "destroy", <<>>)
       /\ Then(t, <<"Reset">>) => Moves(t, "Reset", ToDestroy)
  BY <1>1, <1>0, ThenNone, ThenOne, Lists, ZenonT(40) DEF ColorInv, ShapeInv, MfShutdown, Steps
<1>24. "Reset" \in Steps /\ At(t, "Shutdown") /\ ColorTypes
  BY DEF ColorInv, ShapeInv, MfShutdown, Steps
<1>25. Then(t, <<"Stop", "Reset">>) => Moves(t, "Stop", ToReset)
  BY <1>0, <1>24, ThenStopAnd DEF ToReset
<1>2. \/ color = "no reader" /\ Moves(t, "destroy", <<>>)
      \/ color # "no reader" /\ started /\ Moves(t, "Stop", ToReset)
      \/ color # "no reader" /\ ~started /\ Moves(t, "Reset", ToDestroy)
  BY <1>1, <1>0, <1>20, <1>24, <1>25, ThenNone, ThenOne, Lists DEF ColorInv, ShapeInv, ColorTypes, MfShutdown
<1>3. UNCHANGED <<platform, errors, color, m_lock, started, m_pCallback, held, memory, uvc, m_use_mf_buffer, camera, m_flushing, m_hStreamFlushed, mf>>
  BY <1>1, <1>20, <1>24, <1>25 DEF MfShutdown, UNCHANGED_reader, mfVars, apiVars
<1>4. ColorTypes'
  BY <1>2, <1>3 DEF ColorInv, ShapeInv, ColorTypes, Moves
<1>5. CallerShape(t)'
  BY <1>1, <1>0, <1>00, <1>2, <1>3, Lists, Distinct DEF ColorInv, ShapeInv, ColorTypes, CallerShape, Moves, Stopping
<1>6. ShapeInv'
  BY <1>1, <1>0, <1>00, <1>2, <1>3, <1>4, <1>5, ShapeMoves DEF ColorInv
<1>7. LockInv'
  <2>1. CASE color = "no reader" /\ Moves(t, "destroy", <<>>)
    BY <1>1, <1>0, <1>00, <1>3, <2>1, Lists, Distinct DEF ColorInv, Moves, LockInv
  <2>2. CASE color # "no reader" /\ started /\ Moves(t, "Stop", ToReset)
    BY <1>1, <1>0, <1>00, <1>3, <2>2, Lists, Distinct DEF ColorInv, Moves, LockInv
  <2>3. CASE color # "no reader" /\ ~started /\ Moves(t, "Reset", ToDestroy)
    BY <1>1, <1>0, <1>00, <1>3, <2>3, Lists, Distinct DEF ColorInv, Moves, LockInv
  <2> QED
    BY <1>2, <2>1, <2>2, <2>3
<1>8. HandleInv'
  <2>1. CASE color = "no reader" /\ Moves(t, "destroy", <<>>)
    BY <1>1, <1>0, <1>00, <1>3, <2>1, Lists, Distinct DEF ColorInv, Moves, HandleInv
  <2>2. CASE color # "no reader" /\ started /\ Moves(t, "Stop", ToReset)
    BY <1>1, <1>0, <1>00, <1>3, <2>2, Lists, Distinct DEF ColorInv, Moves, HandleInv
  <2>3. CASE color # "no reader" /\ ~started /\ Moves(t, "Reset", ToDestroy)
    BY <1>1, <1>0, <1>00, <1>3, <2>3, Lists, Distinct DEF ColorInv, Moves, HandleInv
  <2> QED
    BY <1>2, <2>1, <2>2, <2>3
<1>9. UvcInv'
  <2>1. CASE color = "no reader" /\ Moves(t, "destroy", <<>>)
    BY <1>1, <1>0, <1>00, <1>3, <2>1, Lists, Distinct DEF ColorInv, Moves, UvcInv
  <2>2. CASE color # "no reader" /\ started /\ Moves(t, "Stop", ToReset)
    BY <1>1, <1>0, <1>00, <1>3, <2>2, Lists, Distinct DEF ColorInv, Moves, UvcInv
  <2>3. CASE color # "no reader" /\ ~started /\ Moves(t, "Reset", ToDestroy)
    BY <1>1, <1>0, <1>00, <1>3, <2>3, Lists, Distinct DEF ColorInv, Moves, UvcInv
  <2> QED
    BY <1>2, <2>1, <2>2, <2>3
<1>10. MfInv'
  <2>1. CASE color = "no reader" /\ Moves(t, "destroy", <<>>)
    BY <1>1, <1>0, <1>00, <1>3, <2>1, Lists, Distinct DEF ColorInv, Moves, MfInv
  <2>2. CASE color # "no reader" /\ started /\ Moves(t, "Stop", ToReset)
    BY <1>1, <1>0, <1>00, <1>3, <2>2, Lists, Distinct DEF ColorInv, Moves, MfInv
  <2>3. CASE color # "no reader" /\ ~started /\ Moves(t, "Reset", ToDestroy)
    BY <1>1, <1>0, <1>00, <1>3, <2>3, Lists, Distinct DEF ColorInv, Moves, MfInv
  <2> QED
    BY <1>2, <2>1, <2>2, <2>3
<1>11. MemoryInv'
  <2>1. CASE color = "no reader" /\ Moves(t, "destroy", <<>>)
    BY <1>1, <1>0, <1>00, <1>3, <2>1, Lists, Distinct DEF ColorInv, Moves, MemoryInv
  <2>2. CASE color # "no reader" /\ started /\ Moves(t, "Stop", ToReset)
    BY <1>1, <1>0, <1>00, <1>3, <2>2, Lists, Distinct DEF ColorInv, Moves, MemoryInv
  <2>3. CASE color # "no reader" /\ ~started /\ Moves(t, "Reset", ToDestroy)
    BY <1>1, <1>0, <1>00, <1>3, <2>3, Lists, Distinct DEF ColorInv, Moves, MemoryInv
  <2> QED
    BY <1>2, <2>1, <2>2, <2>3
<1> QED
  BY <1>6, <1>7, <1>8, <1>9, <1>10, <1>11 DEF ColorInv

LEMMA MfResetKeeps ==
  ASSUME ColorInv, platform = "mf", NEW t \in Threads, MfReset(t), UNCHANGED uvc
  PROVE  ColorInv'
<1>01. At(t, "Reset")
  BY DEF MfReset
<1>02. Top(t) = "Reset"
  BY <1>01, AtTop
<1>1. /\ Top(t) = "Reset" /\ t \in Callers /\ t \notin Workers
      /\ Callers \subseteq Threads /\ Workers \subseteq Threads /\ Free \notin Workers
  BY <1>02, WhoseStep, ThreadSets DEF ColorInv
<1>0. color = "destroying" /\ Rest(t) = ToDestroy
  BY <1>1, CallerPlace, Lists DEF ColorInv, ShapeInv, ColorTypes, Steps
<1>00. \A c \in Callers \ {t} : Top(c) = "none" /\ Rest(c) = <<>>
  BY <1>1, <1>0, Alone DEF ColorInv
<1>33. ~errors => \A c \in Callers : Top(c) # "Wait"
  BY <1>1, <1>00
<1>32. ~errors => ~mf.flush /\ ~m_hStreamFlushed /\ \A w \in Workers : Top(w) # "OnFlush"
  BY <1>33, NoFlush
<1>21. /\ [mf EXCEPT !.reads = 0] \in MfType
       /\ [mf EXCEPT !.reads = 0].reads = 0 /\ [mf EXCEPT !.reads = 0].flush = mf.flush
  BY MfUpdates DEF ColorInv, ShapeInv
<1>2. Moves(t, "destroy", <<>>)
  BY <1>1, <1>0, <1>33, <1>32, <1>21, ThenNone, ThenOne, Lists DEF ColorInv, ShapeInv, MfReset
<1>3. /\ held' = {} /\ m_hStreamFlushed' = FALSE
      /\ mf' \in MfType /\ mf'.reads = 0 /\ mf'.flush = mf.flush
      /\ UNCHANGED <<platform, errors, color, m_lock, started, m_pCallback, memory, uvc, m_use_mf_buffer, m_flushing>>
  BY <1>1, <1>33, <1>32, <1>21 DEF MfReset, UNCHANGED_reader, mfVars, apiVars
<1>4. ColorTypes'
  BY <1>2, <1>3 DEF ColorInv, ShapeInv, ColorTypes, Moves
<1>5. CallerShape(t)'
  BY <1>1, <1>0, <1>00, <1>33, <1>32, <1>2, <1>3, Lists, Distinct DEF ColorInv, ShapeInv, ColorTypes, CallerShape, Moves, Stopping
<1>6. ShapeInv'
  BY <1>1, <1>0, <1>00, <1>33, <1>32, <1>2, <1>3, <1>4, <1>5, ShapeMoves DEF ColorInv
<1>7. LockInv'
  BY <1>1, <1>0, <1>00, <1>33, <1>32, <1>2, <1>3, Lists, Distinct DEF ColorInv, Moves, LockInv
<1>8. HandleInv'
  BY <1>1, <1>0, <1>00, <1>33, <1>32, <1>2, <1>3, Lists, Distinct DEF ColorInv, Moves, HandleInv
<1>9. UvcInv'
  BY <1>1, <1>0, <1>00, <1>33, <1>32, <1>2, <1>3, Lists, Distinct DEF ColorInv, Moves, UvcInv
<1>10. MfInv'
  BY <1>1, <1>0, <1>00, <1>33, <1>32, <1>2, <1>3, Lists, Distinct DEF ColorInv, Moves, MfInv, HandleInv
<1>11. MemoryInv'
  BY <1>1, <1>0, <1>00, <1>33, <1>32, <1>2, <1>3, Lists, Distinct DEF ColorInv, Moves, MemoryInv
<1> QED
  BY <1>6, <1>7, <1>8, <1>9, <1>10, <1>11 DEF ColorInv

LEMMA SampleIgnoredKeeps ==
  ASSUME ColorInv, platform = "mf", NEW t \in Threads, SampleIgnored(t), UNCHANGED uvc
  PROVE  ColorInv'
<1>01. At(t, "OnReadSample")
  BY DEF SampleIgnored
<1>02. Top(t) = "OnReadSample"
  BY <1>01, AtTop
<1>1. /\ Top(t) = "OnReadSample" /\ t \in Workers /\ t \notin Callers
      /\ Callers \subseteq Threads /\ Workers \subseteq Threads /\ Free \notin Workers
  BY <1>02, WhoseStep, ThreadSets DEF ColorInv
<1>0. Rest(t) = <<>>
  BY <1>1, WorkerPlace, Lists DEF ColorInv, ShapeInv, ColorTypes, Steps
<1>2. Moves(t, "none", <<>>)
  BY <1>1, <1>0, ThenNone, ThenOne, Lists DEF ColorInv, ShapeInv, SampleIgnored
<1>3. (~started \/ m_flushing) /\ UNCHANGED <<platform, errors, color, m_lock, started, m_pCallback, held, memory, uvc, m_use_mf_buffer, camera, m_flushing, m_hStreamFlushed, mf>>
  BY <1>1 DEF SampleIgnored, UNCHANGED_reader, mfVars, apiVars, Samples
<1>4. ColorTypes'
  BY <1>2, <1>3 DEF ColorInv, ShapeInv, ColorTypes, Moves
<1>5. WorkerShape(t)'
  BY <1>1, <1>0, <1>2, <1>3, Lists, Distinct DEF ColorInv, ShapeInv, ColorTypes, WorkerShape, Moves, Stopping
<1>6. ShapeInv'
  BY <1>1, <1>0, <1>2, <1>3, <1>4, <1>5, ShapeMoves DEF ColorInv
<1>7. LockInv'
  BY <1>1, <1>0, <1>2, <1>3, Lists, Distinct DEF ColorInv, Moves, LockInv
<1>8. HandleInv'
  BY <1>1, <1>0, <1>2, <1>3, Lists, Distinct DEF ColorInv, Moves, HandleInv
<1>9. UvcInv'
  BY <1>1, <1>0, <1>2, <1>3, Lists, Distinct DEF ColorInv, Moves, UvcInv
<1>10. MfInv'
  BY <1>1, <1>0, <1>2, <1>3, Lists, Distinct DEF ColorInv, Moves, MfInv
<1>11. MemoryInv'
  BY <1>1, <1>0, <1>2, <1>3, Lists, Distinct DEF ColorInv, Moves, MemoryInv
<1> QED
  BY <1>6, <1>7, <1>8, <1>9, <1>10, <1>11 DEF ColorInv

LEMMA SampleTakenKeeps ==
  ASSUME ColorInv, platform = "mf", NEW t \in Threads, SampleTaken(t), UNCHANGED uvc
  PROVE  ColorInv'
<1>01. At(t, "OnReadSample")
  BY DEF SampleTaken
<1>02. Top(t) = "OnReadSample"
  BY <1>01, AtTop
<1>1. /\ Top(t) = "OnReadSample" /\ t \in Workers /\ t \notin Callers
      /\ Callers \subseteq Threads /\ Workers \subseteq Threads /\ Free \notin Workers
  BY <1>02, WhoseStep, ThreadSets DEF ColorInv
<1>0. Rest(t) = <<>>
  BY <1>1, WorkerPlace, Lists DEF ColorInv, ShapeInv, ColorTypes, Steps
<1>22. memory.own = 0 /\ memory.image = 0 /\ Accounted(memory)
  <2>1. m_lock = Free
    BY DEF SampleTaken
  <2> QED
    BY <1>1, <2>1 DEF ColorInv, LockInv, MemoryInv, Accounted
<1>20. PICK m :
         /\ memory' = m /\ Accounted(m)
         /\ \/ Then(t, <<"ReadNext">>) /\ m.own = 0 /\ m.image = 0
            \/ m_pCallback /\ Then(t, <<"sample", "ReadNext">>)
            \/ m_pCallback /\ Then(t, <<"failure", "ReadNext">>)
  <2>1. CASE Then(t, <<"ReadNext">>) /\ memory' = memory
    BY <1>22, <2>1
  <2>2. CASE m_pCallback /\ \E frame \in Bounded(MfFrames(m_use_mf_buffer)) :
               /\ memory' = frame.memory
               /\ Then(t, IF frame.result = "dropped" THEN <<"ReadNext">>
                          ELSE <<frame.result, "ReadNext">>)
    <3>1. PICK frame \in Bounded(MfFrames(m_use_mf_buffer)) :
               /\ memory' = frame.memory
               /\ Then(t, IF frame.result = "dropped" THEN <<"ReadNext">>
                          ELSE <<frame.result, "ReadNext">>)
      BY <2>2
    <3>2. frame \in MfFrames(m_use_mf_buffer)
      BY DEF Bounded
    <3>3. m_use_mf_buffer \in BOOLEAN
      BY DEF ColorInv, ShapeInv, ColorTypes
    <3>4. /\ Accounted(frame.memory) /\ frame.result \in {"sample", "failure", "dropped"}
          /\ frame.result = "dropped" => frame.memory.own = 0 /\ frame.memory.image = 0
      BY <1>22, <3>2, <3>3, MfFramesAccounted DEF ColorInv
    <3> QED
      BY <2>2, <3>1, <3>4
  <2> QED
    BY <2>1, <2>2 DEF SampleTaken
<1>23. /\ Then(t, <<"ReadNext">>) => Moves(t, "ReadNext", <<>>)
       /\ Then(t, <<"sample", "ReadNext">>) => Moves(t, "sample", <<"ReadNext">>)
       /\ Then(t, <<"failure", "ReadNext">>) => Moves(t, "failure", <<"ReadNext">>)
  BY <1>1, <1>0, ThenOne, ThenTwo DEF ColorInv, ShapeInv, SampleTaken, Steps
<1>2. \/ Moves(t, "ReadNext", <<>>) /\ m.own = 0 /\ m.image = 0
      \/ m_pCallback /\ Moves(t, "sample", <<"ReadNext">>)
      \/ m_pCallback /\ Moves(t, "failure", <<"ReadNext">>)
  BY <1>1, <1>0, <1>22, <1>20, <1>23, ThenNone, ThenOne, Lists, <1>20
<1>3. /\ m_lock = Free /\ m_lock' = t /\ started
      /\ UNCHANGED <<platform, errors, color, started, m_pCallback, held, uvc, m_use_mf_buffer, camera, m_flushing, m_hStreamFlushed, mf>>
  BY <1>1, <1>22, <1>20, <1>23 DEF SampleTaken, UNCHANGED_reader, mfVars, apiVars, Samples
<1>4. ColorTypes'
  BY <1>2, <1>3 DEF ColorInv, ShapeInv, ColorTypes, Moves
<1>5. WorkerShape(t)'
  BY <1>1, <1>0, <1>20, <1>2, <1>3, Lists, Distinct DEF ColorInv, ShapeInv, ColorTypes, WorkerShape, Moves, Stopping
<1>6. ShapeInv'
  BY <1>1, <1>0, <1>20, <1>2, <1>3, <1>4, <1>5, ShapeMoves DEF ColorInv
<1>7. LockInv'
  <2>1. CASE Moves(t, "ReadNext", <<>>) /\ m.own = 0 /\ m.image = 0
    BY <1>1, <1>0, <1>20, <1>3, <2>1, Lists, Distinct DEF ColorInv, Moves, LockInv
  <2>2. CASE m_pCallback /\ Moves(t, "sample", <<"ReadNext">>)
    BY <1>1, <1>0, <1>20, <1>3, <2>2, Lists, Distinct DEF ColorInv, Moves, LockInv
  <2>3. CASE m_pCallback /\ Moves(t, "failure", <<"ReadNext">>)
    BY <1>1, <1>0, <1>20, <1>3, <2>3, Lists, Distinct DEF ColorInv, Moves, LockInv
  <2> QED
    BY <1>2, <2>1, <2>2, <2>3
<1>8. HandleInv'
  <2>1. CASE Moves(t, "ReadNext", <<>>) /\ m.own = 0 /\ m.image = 0
    BY <1>1, <1>0, <1>20, <1>3, <2>1, Lists, Distinct DEF ColorInv, Moves, HandleInv
  <2>2. CASE m_pCallback /\ Moves(t, "sample", <<"ReadNext">>)
    BY <1>1, <1>0, <1>20, <1>3, <2>2, Lists, Distinct DEF ColorInv, Moves, HandleInv
  <2>3. CASE m_pCallback /\ Moves(t, "failure", <<"ReadNext">>)
    BY <1>1, <1>0, <1>20, <1>3, <2>3, Lists, Distinct DEF ColorInv, Moves, HandleInv
  <2> QED
    BY <1>2, <2>1, <2>2, <2>3
<1>9. UvcInv'
  <2>1. CASE Moves(t, "ReadNext", <<>>) /\ m.own = 0 /\ m.image = 0
    BY <1>1, <1>0, <1>20, <1>3, <2>1, Lists, Distinct DEF ColorInv, Moves, UvcInv
  <2>2. CASE m_pCallback /\ Moves(t, "sample", <<"ReadNext">>)
    BY <1>1, <1>0, <1>20, <1>3, <2>2, Lists, Distinct DEF ColorInv, Moves, UvcInv
  <2>3. CASE m_pCallback /\ Moves(t, "failure", <<"ReadNext">>)
    BY <1>1, <1>0, <1>20, <1>3, <2>3, Lists, Distinct DEF ColorInv, Moves, UvcInv
  <2> QED
    BY <1>2, <2>1, <2>2, <2>3
<1>10. MfInv'
  <2>1. CASE Moves(t, "ReadNext", <<>>) /\ m.own = 0 /\ m.image = 0
    BY <1>1, <1>0, <1>20, <1>3, <2>1, Lists, Distinct DEF ColorInv, Moves, MfInv
  <2>2. CASE m_pCallback /\ Moves(t, "sample", <<"ReadNext">>)
    BY <1>1, <1>0, <1>20, <1>3, <2>2, Lists, Distinct, ZenonT(40) DEF ColorInv, Moves, MfInv
  <2>3. CASE m_pCallback /\ Moves(t, "failure", <<"ReadNext">>)
    BY <1>1, <1>0, <1>20, <1>3, <2>3, Lists, Distinct, ZenonT(40) DEF ColorInv, Moves, MfInv
  <2> QED
    BY <1>2, <2>1, <2>2, <2>3
<1>11. MemoryInv'
  <2>1. CASE Moves(t, "ReadNext", <<>>) /\ m.own = 0 /\ m.image = 0
    BY <1>1, <1>0, <1>20, <1>3, <2>1, Lists, Distinct DEF ColorInv, Moves, MemoryInv, Accounted
  <2>2. CASE m_pCallback /\ Moves(t, "sample", <<"ReadNext">>)
    BY <1>1, <1>0, <1>20, <1>3, <2>2, Lists, Distinct DEF ColorInv, Moves, MemoryInv, Accounted
  <2>3. CASE m_pCallback /\ Moves(t, "failure", <<"ReadNext">>)
    BY <1>1, <1>0, <1>20, <1>3, <2>3, Lists, Distinct DEF ColorInv, Moves, MemoryInv, Accounted
  <2> QED
    BY <1>2, <2>1, <2>2, <2>3
<1> QED
  BY <1>6, <1>7, <1>8, <1>9, <1>10, <1>11 DEF ColorInv

LEMMA MfCallbackReturnsKeeps ==
  ASSUME ColorInv, platform = "mf", NEW t \in Threads, MfCallbackReturns(t), UNCHANGED uvc
  PROVE  ColorInv'
<1>01. At(t, "sample") \/ At(t, "failure")
  BY DEF MfCallbackReturns
<1>02. Top(t) = "sample" \/ Top(t) = "failure"
  BY <1>01, AtTop
<1>1. /\ (Top(t) = "sample" \/ Top(t) = "failure") /\ t \in Workers /\ t \notin Callers
      /\ Callers \subseteq Threads /\ Workers \subseteq Threads /\ Free \notin Workers
  BY <1>02, WhoseStep, ThreadSets DEF ColorInv
<1>0. Rest(t) = <<"ReadNext">> /\ "ReadNext" \in Steps
  BY <1>1, WorkerPlace, Lists DEF ColorInv, ShapeInv, ColorTypes, Steps
<1>2. Moves(t, "ReadNext", <<>>)
  BY <1>1, <1>0, ThenNone, ThenOne, Lists, ZenonT(40) DEF ColorInv, ShapeInv, MfCallbackReturns, Steps
<1>3. memory' = Released(memory) /\ UNCHANGED <<platform, errors, color, m_lock, started, m_pCallback, held, uvc, m_use_mf_buffer, camera, m_flushing, m_hStreamFlushed, mf>>
  BY <1>1 DEF MfCallbackReturns, UNCHANGED_reader, mfVars, apiVars
<1>4. ColorTypes'
  BY <1>2, <1>3 DEF ColorInv, ShapeInv, ColorTypes, Moves
<1>5. WorkerShape(t)'
  BY <1>1, <1>0, <1>2, <1>3, Lists, Distinct DEF ColorInv, ShapeInv, ColorTypes, WorkerShape, Moves, Stopping
<1>6. ShapeInv'
  BY <1>1, <1>0, <1>2, <1>3, <1>4, <1>5, ShapeMoves DEF ColorInv
<1>7. LockInv'
  BY <1>1, <1>0, <1>2, <1>3, Lists, Distinct DEF ColorInv, Moves, LockInv
<1>8. HandleInv'
  BY <1>1, <1>0, <1>2, <1>3, Lists, Distinct DEF ColorInv, Moves, HandleInv
<1>9. UvcInv'
  BY <1>1, <1>0, <1>2, <1>3, Lists, Distinct DEF ColorInv, Moves, UvcInv
<1>10. MfInv'
  BY <1>1, <1>0, <1>2, <1>3, Lists, Distinct DEF ColorInv, Moves, MfInv
<1>11. MemoryInv'
  <2>1. Accounted(memory') /\ memory'.own = 0 /\ memory'.image = 0
    BY <1>3, ReleasedAccounted DEF ColorInv
  <2> QED
    BY <2>1 DEF Accounted, MemoryInv
<1> QED
  BY <1>6, <1>7, <1>8, <1>9, <1>10, <1>11 DEF ColorInv

LEMMA ReadNextKeeps ==
  ASSUME ColorInv, platform = "mf", NEW t \in Threads, ReadNext(t), UNCHANGED uvc
  PROVE  ColorInv'
<1>01. At(t, "ReadNext")
  BY DEF ReadNext
<1>02. Top(t) = "ReadNext"
  BY <1>01, AtTop
<1>1. /\ Top(t) = "ReadNext" /\ t \in Workers /\ t \notin Callers
      /\ Callers \subseteq Threads /\ Workers \subseteq Threads /\ Free \notin Workers
  BY <1>02, WhoseStep, ThreadSets DEF ColorInv
<1>0. Rest(t) = <<>>
  BY <1>1, WorkerPlace, Lists DEF ColorInv, ShapeInv, ColorTypes, Steps
<1>20. /\ Then(t, <<>>) => Moves(t, "none", <<>>)
       /\ Then(t, <<"report">>) => Moves(t, "report", <<>>)
  BY <1>1, <1>0, ThenNone, ThenOne, Lists, ZenonT(40) DEF ColorInv, ShapeInv, ReadNext, Steps
<1>22. mf.reads \in Nat
  BY MfUpdates DEF ColorInv, ShapeInv
<1>23. mf.reads + 1 \in Nat /\ mf.reads + 1 > 0
  BY <1>22
<1>21. LET m == [mf EXCEPT !.reads = mf.reads + 1] IN m \in MfType /\ m.reads > 0 /\ m.flush = mf.flush
  BY <1>23, MfUpdates DEF ColorInv, ShapeInv
<1>2. \/ /\ Moves(t, "none", <<>>)
         /\ mf' \in MfType /\ mf'.reads > 0 /\ mf'.flush = mf.flush
      \/ errors /\ mf' = mf /\ Moves(t, "report", <<>>)
  BY <1>1, <1>0, <1>20, <1>22, <1>23, <1>21, ThenNone, ThenOne, Lists DEF ReadNext
<1>3. m_lock' = Free /\ UNCHANGED <<platform, errors, color, started, m_pCallback, held, memory, uvc, m_use_mf_buffer, camera, m_flushing, m_hStreamFlushed>>
  BY <1>1, <1>20, <1>22, <1>23, <1>21 DEF ReadNext, UNCHANGED_reader, mfVars, apiVars
<1>32. started /\ (~errors => ~m_flushing)
  BY <1>1 DEF ColorInv, LockInv, MfInv
<1>4. ColorTypes'
  BY <1>2, <1>3 DEF ColorInv, ShapeInv, ColorTypes, Moves
<1>5. WorkerShape(t)'
  BY <1>1, <1>0, <1>2, <1>3, <1>32, Lists, Distinct DEF ColorInv, ShapeInv, ColorTypes, WorkerShape, Moves, Stopping
<1>6. ShapeInv'
  BY <1>1, <1>0, <1>2, <1>3, <1>32, <1>4, <1>5, ShapeMoves DEF ColorInv
<1>7. LockInv'
  <2>1. CASE /\ Moves(t, "none", <<>>)
      /\ mf' \in MfType /\ mf'.reads > 0 /\ mf'.flush = mf.flush
    BY <1>1, <1>0, <1>3, <1>32, <2>1, Lists, Distinct DEF ColorInv, Moves, LockInv
  <2>2. CASE errors /\ mf' = mf /\ Moves(t, "report", <<>>)
    BY <1>1, <1>0, <1>3, <1>32, <2>2, Lists, Distinct DEF ColorInv, Moves, LockInv
  <2> QED
    BY <1>2, <2>1, <2>2
<1>8. HandleInv'
  <2>1. CASE /\ Moves(t, "none", <<>>)
      /\ mf' \in MfType /\ mf'.reads > 0 /\ mf'.flush = mf.flush
    BY <1>1, <1>0, <1>3, <1>32, <2>1, Lists, Distinct DEF ColorInv, Moves, HandleInv
  <2>2. CASE errors /\ mf' = mf /\ Moves(t, "report", <<>>)
    BY <1>1, <1>0, <1>3, <1>32, <2>2, Lists, Distinct DEF ColorInv, Moves, HandleInv
  <2> QED
    BY <1>2, <2>1, <2>2
<1>9. UvcInv'
  <2>1. CASE /\ Moves(t, "none", <<>>)
      /\ mf' \in MfType /\ mf'.reads > 0 /\ mf'.flush = mf.flush
    BY <1>1, <1>0, <1>3, <1>32, <2>1, Lists, Distinct DEF ColorInv, Moves, UvcInv
  <2>2. CASE errors /\ mf' = mf /\ Moves(t, "report", <<>>)
    BY <1>1, <1>0, <1>3, <1>32, <2>2, Lists, Distinct DEF ColorInv, Moves, UvcInv
  <2> QED
    BY <1>2, <2>1, <2>2
<1>10. MfInv'
  <2>1. CASE /\ Moves(t, "none", <<>>)
      /\ mf' \in MfType /\ mf'.reads > 0 /\ mf'.flush = mf.flush
    BY <1>1, <1>0, <1>3, <1>32, <2>1, Lists, Distinct DEF ColorInv, Moves, MfInv
  <2>2. CASE errors /\ mf' = mf /\ Moves(t, "report", <<>>)
    BY <1>1, <1>0, <1>3, <1>32, <2>2, Lists, Distinct DEF ColorInv, Moves, MfInv
  <2> QED
    BY <1>2, <2>1, <2>2
<1>11. MemoryInv'
  <2>1. CASE /\ Moves(t, "none", <<>>)
      /\ mf' \in MfType /\ mf'.reads > 0 /\ mf'.flush = mf.flush
    BY <1>1, <1>0, <1>3, <1>32, <2>1, Lists, Distinct DEF ColorInv, Moves, MemoryInv
  <2>2. CASE errors /\ mf' = mf /\ Moves(t, "report", <<>>)
    BY <1>1, <1>0, <1>3, <1>32, <2>2, Lists, Distinct DEF ColorInv, Moves, MemoryInv
  <2> QED
    BY <1>2, <2>1, <2>2
<1> QED
  BY <1>6, <1>7, <1>8, <1>9, <1>10, <1>11 DEF ColorInv

LEMMA NotifyErrorKeeps ==
  ASSUME ColorInv, platform = "mf", NEW t \in Threads, NotifyError(t), UNCHANGED uvc
  PROVE  ColorInv'
<1>01. At(t, "OnReadSample failed")
  BY DEF NotifyError
<1>02. Top(t) = "OnReadSample failed"
  BY <1>01, AtTop
<1>1. /\ Top(t) = "OnReadSample failed" /\ t \in Workers /\ t \notin Callers
      /\ Callers \subseteq Threads /\ Workers \subseteq Threads /\ Free \notin Workers
  BY <1>02, WhoseStep, ThreadSets DEF ColorInv
<1>0. Rest(t) = <<>> /\ errors
  BY <1>1, WorkerPlace, Lists DEF ColorInv, ShapeInv, ColorTypes, Steps
<1>2. Moves(t, "error", <<"report">>)
  BY <1>1, <1>0, ThenNone, ThenOne, Lists, ThenTwo DEF ColorInv, ShapeInv, NotifyError, Steps
<1>3. UNCHANGED <<platform, errors, color, m_lock, started, m_pCallback, held, memory, uvc, m_use_mf_buffer, camera, m_flushing, m_hStreamFlushed, mf>>
  BY <1>1 DEF NotifyError, UNCHANGED_reader, mfVars, apiVars
<1>4. ColorTypes'
  BY <1>2, <1>3 DEF ColorInv, ShapeInv, ColorTypes, Moves
<1>5. WorkerShape(t)'
  BY <1>1, <1>0, <1>2, <1>3, Lists, Distinct DEF ColorInv, ShapeInv, ColorTypes, WorkerShape, Moves, Stopping
<1>6. ShapeInv'
  BY <1>1, <1>0, <1>2, <1>3, <1>4, <1>5, ShapeMoves DEF ColorInv
<1>7. LockInv'
  BY <1>1, <1>0, <1>2, <1>3, Lists, Distinct DEF ColorInv, Moves, LockInv
<1>8. HandleInv'
  BY <1>1, <1>0, <1>2, <1>3, Lists, Distinct DEF ColorInv, Moves, HandleInv
<1>9. UvcInv'
  BY <1>1, <1>0, <1>2, <1>3, Lists, Distinct DEF ColorInv, Moves, UvcInv
<1>10. MfInv'
  BY <1>1, <1>0, <1>2, <1>3, Lists, Distinct DEF ColorInv, Moves, MfInv
<1>11. MemoryInv'
  BY <1>1, <1>0, <1>2, <1>3, Lists, Distinct DEF ColorInv, Moves, MemoryInv
<1> QED
  BY <1>6, <1>7, <1>8, <1>9, <1>10, <1>11 DEF ColorInv

LEMMA ReportKeeps ==
  ASSUME ColorInv, platform = "mf", NEW t \in Threads, Report(t), UNCHANGED uvc
  PROVE  ColorInv'
<1>01. At(t, "report")
  BY DEF Report
<1>02. Top(t) = "report"
  BY <1>01, AtTop
<1>1. /\ Top(t) = "report" /\ t \in Workers /\ t \notin Callers
      /\ Callers \subseteq Threads /\ Workers \subseteq Threads /\ Free \notin Workers
  BY <1>02, WhoseStep, ThreadSets DEF ColorInv
<1>0. Rest(t) = <<>> /\ errors
  BY <1>1, WorkerPlace, Lists DEF ColorInv, ShapeInv, ColorTypes, Steps
<1>24. "error" \in Steps /\ "Stop" \in Steps /\ At(t, "report") /\ ColorTypes
  BY DEF ColorInv, ShapeInv, Report, Steps
<1>20. Then(t, <<>>) => Moves(t, "none", <<>>)
  BY <1>0, <1>24, ThenNone, Lists
<1>21. Then(t, <<"error", "Stop">>) => Moves(t, "error", <<"Stop">>)
  BY <1>0, <1>24, ThenTwo
<1>2. \/ Moves(t, "error", <<"Stop">>)
      \/ Moves(t, "none", <<>>)
  BY <1>1, <1>0, <1>24, <1>20, <1>21, ThenNone, ThenOne, Lists DEF Report
<1>3. UNCHANGED <<platform, errors, color, m_lock, started, m_pCallback, held, memory, uvc, m_use_mf_buffer, camera, m_flushing, m_hStreamFlushed, mf>>
  BY <1>1, <1>24, <1>20, <1>21 DEF Report, UNCHANGED_reader, mfVars, apiVars
<1>4. ColorTypes'
  BY <1>2, <1>3 DEF ColorInv, ShapeInv, ColorTypes, Moves
<1>5. WorkerShape(t)'
  BY <1>1, <1>0, <1>2, <1>3, Lists, Distinct DEF ColorInv, ShapeInv, ColorTypes, WorkerShape, Moves, Stopping
<1>6. ShapeInv'
  BY <1>1, <1>0, <1>2, <1>3, <1>4, <1>5, ShapeMoves DEF ColorInv
<1>7. LockInv'
  <2>1. CASE Moves(t, "error", <<"Stop">>)
    BY <1>1, <1>0, <1>3, <2>1, Lists, Distinct DEF ColorInv, Moves, LockInv
  <2>2. CASE Moves(t, "none", <<>>)
    BY <1>1, <1>0, <1>3, <2>2, Lists, Distinct DEF ColorInv, Moves, LockInv
  <2> QED
    BY <1>2, <2>1, <2>2
<1>8. HandleInv'
  <2>1. CASE Moves(t, "error", <<"Stop">>)
    BY <1>1, <1>0, <1>3, <2>1, Lists, Distinct DEF ColorInv, Moves, HandleInv
  <2>2. CASE Moves(t, "none", <<>>)
    BY <1>1, <1>0, <1>3, <2>2, Lists, Distinct DEF ColorInv, Moves, HandleInv
  <2> QED
    BY <1>2, <2>1, <2>2
<1>9. UvcInv'
  <2>1. CASE Moves(t, "error", <<"Stop">>)
    BY <1>1, <1>0, <1>3, <2>1, Lists, Distinct DEF ColorInv, Moves, UvcInv
  <2>2. CASE Moves(t, "none", <<>>)
    BY <1>1, <1>0, <1>3, <2>2, Lists, Distinct DEF ColorInv, Moves, UvcInv
  <2> QED
    BY <1>2, <2>1, <2>2
<1>10. MfInv'
  <2>1. CASE Moves(t, "error", <<"Stop">>)
    BY <1>1, <1>0, <1>3, <2>1, Lists, Distinct DEF ColorInv, Moves, MfInv
  <2>2. CASE Moves(t, "none", <<>>)
    BY <1>1, <1>0, <1>3, <2>2, Lists, Distinct DEF ColorInv, Moves, MfInv
  <2> QED
    BY <1>2, <2>1, <2>2
<1>11. MemoryInv'
  <2>1. CASE Moves(t, "error", <<"Stop">>)
    BY <1>1, <1>0, <1>3, <2>1, Lists, Distinct DEF ColorInv, Moves, MemoryInv
  <2>2. CASE Moves(t, "none", <<>>)
    BY <1>1, <1>0, <1>3, <2>2, Lists, Distinct DEF ColorInv, Moves, MemoryInv
  <2> QED
    BY <1>2, <2>1, <2>2
<1> QED
  BY <1>6, <1>7, <1>8, <1>9, <1>10, <1>11 DEF ColorInv

LEMMA ErrorReturnsKeeps ==
  ASSUME ColorInv, platform = "mf", NEW t \in Threads, ErrorReturns(t), UNCHANGED uvc
  PROVE  ColorInv'
<1>01. At(t, "error")
  BY DEF ErrorReturns
<1>02. Top(t) = "error"
  BY <1>01, AtTop
<1>1. /\ Top(t) = "error" /\ t \in Workers /\ t \notin Callers
      /\ Callers \subseteq Threads /\ Workers \subseteq Threads /\ Free \notin Workers
  BY <1>02, WhoseStep, ThreadSets DEF ColorInv
<1>0. Rest(t) \in {<<"report">>, <<"Stop">>} /\ errors /\ "report" \in Steps /\ "Stop" \in Steps
  BY <1>1, WorkerPlace, Lists DEF ColorInv, ShapeInv, ColorTypes, Steps
<1>20. ColorTypes /\ At(t, "error") /\ Then(t, <<>>)
  BY DEF ColorInv, ShapeInv, ErrorReturns
<1>21. Moves(t, First(Rest(t)), Others(Rest(t)))
  BY <1>20, ThenNone
<1>2. \/ Moves(t, "report", <<>>)
      \/ Moves(t, "Stop", <<>>)
  BY <1>1, <1>0, <1>20, <1>21, ThenNone, ThenOne, Lists
<1>3. UNCHANGED <<platform, errors, color, m_lock, started, m_pCallback, held, memory, uvc, m_use_mf_buffer, camera, m_flushing, m_hStreamFlushed, mf>>
  BY <1>1, <1>20, <1>21 DEF ErrorReturns, UNCHANGED_reader, mfVars, apiVars
<1>4. ColorTypes'
  BY <1>2, <1>3 DEF ColorInv, ShapeInv, ColorTypes, Moves
<1>5. WorkerShape(t)'
  BY <1>1, <1>0, <1>2, <1>3, Lists, Distinct DEF ColorInv, ShapeInv, ColorTypes, WorkerShape, Moves, Stopping
<1>6. ShapeInv'
  BY <1>1, <1>0, <1>2, <1>3, <1>4, <1>5, ShapeMoves DEF ColorInv
<1>7. LockInv'
  <2>1. CASE Moves(t, "report", <<>>)
    BY <1>1, <1>0, <1>3, <2>1, Lists, Distinct DEF ColorInv, Moves, LockInv
  <2>2. CASE Moves(t, "Stop", <<>>)
    BY <1>1, <1>0, <1>3, <2>2, Lists, Distinct DEF ColorInv, Moves, LockInv
  <2> QED
    BY <1>2, <2>1, <2>2
<1>8. HandleInv'
  <2>1. CASE Moves(t, "report", <<>>)
    BY <1>1, <1>0, <1>3, <2>1, Lists, Distinct DEF ColorInv, Moves, HandleInv
  <2>2. CASE Moves(t, "Stop", <<>>)
    BY <1>1, <1>0, <1>3, <2>2, Lists, Distinct DEF ColorInv, Moves, HandleInv
  <2> QED
    BY <1>2, <2>1, <2>2
<1>9. UvcInv'
  <2>1. CASE Moves(t, "report", <<>>)
    BY <1>1, <1>0, <1>3, <2>1, Lists, Distinct DEF ColorInv, Moves, UvcInv
  <2>2. CASE Moves(t, "Stop", <<>>)
    BY <1>1, <1>0, <1>3, <2>2, Lists, Distinct DEF ColorInv, Moves, UvcInv
  <2> QED
    BY <1>2, <2>1, <2>2
<1>10. MfInv'
  <2>1. CASE Moves(t, "report", <<>>)
    BY <1>1, <1>0, <1>3, <2>1, Lists, Distinct DEF ColorInv, Moves, MfInv
  <2>2. CASE Moves(t, "Stop", <<>>)
    BY <1>1, <1>0, <1>3, <2>2, Lists, Distinct DEF ColorInv, Moves, MfInv
  <2> QED
    BY <1>2, <2>1, <2>2
<1>11. MemoryInv'
  <2>1. CASE Moves(t, "report", <<>>)
    BY <1>1, <1>0, <1>3, <2>1, Lists, Distinct DEF ColorInv, Moves, MemoryInv
  <2>2. CASE Moves(t, "Stop", <<>>)
    BY <1>1, <1>0, <1>3, <2>2, Lists, Distinct DEF ColorInv, Moves, MemoryInv
  <2> QED
    BY <1>2, <2>1, <2>2
<1> QED
  BY <1>6, <1>7, <1>8, <1>9, <1>10, <1>11 DEF ColorInv

LEMMA OnFlushKeeps ==
  ASSUME ColorInv, platform = "mf", NEW t \in Threads, OnFlush(t), UNCHANGED uvc
  PROVE  ColorInv'
<1>01. At(t, "OnFlush")
  BY DEF OnFlush
<1>02. Top(t) = "OnFlush"
  BY <1>01, AtTop
<1>1. /\ Top(t) = "OnFlush" /\ t \in Workers /\ t \notin Callers
      /\ Callers \subseteq Threads /\ Workers \subseteq Threads /\ Free \notin Workers
  BY <1>02, WhoseStep, ThreadSets DEF ColorInv
<1>0. Rest(t) = <<>>
  BY <1>1, WorkerPlace, Lists DEF ColorInv, ShapeInv, ColorTypes, Steps
<1>20. Moves(t, "flushed", <<>>)
  BY <1>1, <1>0, ThenOne DEF ColorInv, ShapeInv, OnFlush, Steps
<1>21. /\ [mf EXCEPT !.selected = FALSE] \in MfType
       /\ [mf EXCEPT !.selected = FALSE].reads = mf.reads
       /\ [mf EXCEPT !.selected = FALSE].flush = mf.flush
  BY MfUpdates DEF ColorInv, ShapeInv
<1>2. \/ ~started /\ m_pCallback' = FALSE /\ mf' \in MfType /\ mf'.reads = mf.reads /\ mf'.flush = mf.flush
      \/ UNCHANGED <<mf, m_pCallback>>
  BY <1>1, <1>0, <1>20, <1>21, ThenNone, ThenOne, Lists DEF OnFlush
<1>3. /\ m_lock = Free /\ m_lock' = t /\ m_hStreamFlushed' = TRUE /\ Moves(t, "flushed", <<>>)
      /\ UNCHANGED <<platform, errors, color, started, held, memory, uvc, m_use_mf_buffer, camera, m_flushing>>
  BY <1>1, <1>20, <1>21 DEF OnFlush, UNCHANGED_reader, mfVars, apiVars, SetEvent
<1>4. ColorTypes'
  BY <1>2, <1>3 DEF ColorInv, ShapeInv, ColorTypes, Moves
<1>5. WorkerShape(t)'
  BY <1>1, <1>0, <1>2, <1>3, Lists, Distinct DEF ColorInv, ShapeInv, ColorTypes, WorkerShape, Moves, Stopping
<1>6. ShapeInv'
  BY <1>1, <1>0, <1>2, <1>3, <1>4, <1>5, ShapeMoves DEF ColorInv
<1>7. LockInv'
  <2>1. CASE ~started /\ m_pCallback' = FALSE /\ mf' \in MfType /\ mf'.reads = mf.reads /\ mf'.flush = mf.flush
    BY <1>1, <1>0, <1>3, <2>1, Lists, Distinct DEF ColorInv, Moves, LockInv
  <2>2. CASE UNCHANGED <<mf, m_pCallback>>
    BY <1>1, <1>0, <1>3, <2>2, Lists, Distinct DEF ColorInv, Moves, LockInv
  <2> QED
    BY <1>2, <2>1, <2>2
<1>8. HandleInv'
  <2>1. CASE ~started /\ m_pCallback' = FALSE /\ mf' \in MfType /\ mf'.reads = mf.reads /\ mf'.flush = mf.flush
    BY <1>1, <1>0, <1>3, <2>1, Lists, Distinct DEF ColorInv, Moves, HandleInv
  <2>2. CASE UNCHANGED <<mf, m_pCallback>>
    BY <1>1, <1>0, <1>3, <2>2, Lists, Distinct DEF ColorInv, Moves, HandleInv
  <2> QED
    BY <1>2, <2>1, <2>2
<1>9. UvcInv'
  <2>1. CASE ~started /\ m_pCallback' = FALSE /\ mf' \in MfType /\ mf'.reads = mf.reads /\ mf'.flush = mf.flush
    BY <1>1, <1>0, <1>3, <2>1, Lists, Distinct DEF ColorInv, Moves, UvcInv
  <2>2. CASE UNCHANGED <<mf, m_pCallback>>
    BY <1>1, <1>0, <1>3, <2>2, Lists, Distinct DEF ColorInv, Moves, UvcInv
  <2> QED
    BY <1>2, <2>1, <2>2
<1>10. MfInv'
  <2>1. CASE ~started /\ m_pCallback' = FALSE /\ mf' \in MfType /\ mf'.reads = mf.reads /\ mf'.flush = mf.flush
    BY <1>1, <1>0, <1>3, <2>1, Lists, Distinct DEF ColorInv, Moves, MfInv
  <2>2. CASE UNCHANGED <<mf, m_pCallback>>
    BY <1>1, <1>0, <1>3, <2>2, Lists, Distinct DEF ColorInv, Moves, MfInv
  <2> QED
    BY <1>2, <2>1, <2>2
<1>11. MemoryInv'
  <2>1. CASE ~started /\ m_pCallback' = FALSE /\ mf' \in MfType /\ mf'.reads = mf.reads /\ mf'.flush = mf.flush
    BY <1>1, <1>0, <1>3, <2>1, Lists, Distinct DEF ColorInv, Moves, MemoryInv
  <2>2. CASE UNCHANGED <<mf, m_pCallback>>
    BY <1>1, <1>0, <1>3, <2>2, Lists, Distinct DEF ColorInv, Moves, MemoryInv
  <2> QED
    BY <1>2, <2>1, <2>2
<1> QED
  BY <1>6, <1>7, <1>8, <1>9, <1>10, <1>11 DEF ColorInv

LEMMA OnFlushReturnsKeeps ==
  ASSUME ColorInv, platform = "mf", NEW t \in Threads, OnFlushReturns(t), UNCHANGED uvc
  PROVE  ColorInv'
<1>01. At(t, "flushed")
  BY DEF OnFlushReturns
<1>02. Top(t) = "flushed"
  BY <1>01, AtTop
<1>1. /\ Top(t) = "flushed" /\ t \in Workers /\ t \notin Callers
      /\ Callers \subseteq Threads /\ Workers \subseteq Threads /\ Free \notin Workers
  BY <1>02, WhoseStep, ThreadSets DEF ColorInv
<1>0. Rest(t) = <<>>
  BY <1>1, WorkerPlace, Lists DEF ColorInv, ShapeInv, ColorTypes, Steps
<1>2. Moves(t, "none", <<>>)
  BY <1>1, <1>0, ThenNone, ThenOne, Lists DEF ColorInv, ShapeInv, OnFlushReturns
<1>3. m_flushing' = FALSE /\ m_lock' = Free /\ UNCHANGED <<platform, errors, color, started, m_pCallback, held, memory, uvc, m_use_mf_buffer, camera, m_hStreamFlushed, mf>>
  BY <1>1 DEF OnFlushReturns, UNCHANGED_reader, mfVars, apiVars, NotFlushing
<1>4. ColorTypes'
  BY <1>2, <1>3 DEF ColorInv, ShapeInv, ColorTypes, Moves
<1>5. WorkerShape(t)'
  BY <1>1, <1>0, <1>2, <1>3, Lists, Distinct DEF ColorInv, ShapeInv, ColorTypes, WorkerShape, Moves, Stopping
<1>6. ShapeInv'
  BY <1>1, <1>0, <1>2, <1>3, <1>4, <1>5, ShapeMoves DEF ColorInv
<1>7. LockInv'
  BY <1>1, <1>0, <1>2, <1>3, Lists, Distinct DEF ColorInv, Moves, LockInv
<1>8. HandleInv'
  BY <1>1, <1>0, <1>2, <1>3, Lists, Distinct DEF ColorInv, Moves, HandleInv
<1>9. UvcInv'
  BY <1>1, <1>0, <1>2, <1>3, Lists, Distinct DEF ColorInv, Moves, UvcInv
<1>10. MfInv'
  BY <1>1, <1>0, <1>2, <1>3, Lists, Distinct DEF ColorInv, Moves, MfInv
<1>11. MemoryInv'
  BY <1>1, <1>0, <1>2, <1>3, Lists, Distinct DEF ColorInv, Moves, MemoryInv
<1> QED
  BY <1>6, <1>7, <1>8, <1>9, <1>10, <1>11 DEF ColorInv

LEMMA ReadCompletesKeeps ==
  ASSUME ColorInv, platform = "mf", NEW t \in Workers, ReadCompletes(t), UNCHANGED uvc
  PROVE  ColorInv'
<1>1. /\ t \in Threads /\ t \notin Callers
      /\ Callers \subseteq Threads /\ Workers \subseteq Threads /\ Free \notin Workers
  BY ThreadSets
<1>22. mf.reads \in Nat /\ mf.reads > 0
  BY MfUpdates DEF ColorInv, ShapeInv, ReadCompletes
<1>23. mf.reads - 1 \in Nat
  BY <1>22
<1>21. /\ [mf EXCEPT !.reads = mf.reads - 1] \in MfType
       /\ [mf EXCEPT !.reads = mf.reads - 1].flush = mf.flush
  BY <1>23, MfUpdates DEF ColorInv, ShapeInv
<1>2. \/ Top(t) = "none" /\ Moves(t, "OnReadSample", <<>>)
      \/ Top(t) = "none" /\ errors /\ Moves(t, "OnReadSample failed", <<>>)
  BY <1>1, BeginOne DEF ColorInv, ShapeInv, Steps, ReadCompletes
<1>3. /\ mf.reads > 0 /\ mf' \in MfType /\ mf'.flush = mf.flush
      /\ UNCHANGED <<platform, errors, color, m_lock, started, m_pCallback, held, memory, uvc, m_use_mf_buffer, camera, m_flushing, m_hStreamFlushed>>
  BY <1>22, <1>23, <1>21 DEF ReadCompletes, UNCHANGED_reader, mfVars
<1>31. Solo'
  BY <1>1, <1>2, <1>3 DEF ColorInv, ShapeInv, Moves, Solo
<1>4. ColorTypes'
  BY <1>2, <1>3 DEF ColorInv, ShapeInv, ColorTypes, Moves
<1>5. WorkerShape(t)'
  BY <1>1, <1>22, <1>23, <1>21, <1>2, <1>3, <1>31, Lists, Distinct DEF ColorInv, ShapeInv, ColorTypes, WorkerShape, Moves, Stopping
<1>6. ShapeInv'
  BY <1>1, <1>22, <1>23, <1>21, <1>2, <1>3, <1>31, <1>4, <1>5, ShapeMoves DEF ColorInv
<1>7. LockInv'
  <2>1. CASE Top(t) = "none" /\ Moves(t, "OnReadSample", <<>>)
    BY <1>1, <1>22, <1>23, <1>21, <1>3, <1>31, <2>1, Lists, Distinct DEF ColorInv, Moves, LockInv
  <2>2. CASE Top(t) = "none" /\ errors /\ Moves(t, "OnReadSample failed", <<>>)
    BY <1>1, <1>22, <1>23, <1>21, <1>3, <1>31, <2>2, Lists, Distinct DEF ColorInv, Moves, LockInv
  <2> QED
    BY <1>2, <2>1, <2>2
<1>8. HandleInv'
  <2>1. CASE Top(t) = "none" /\ Moves(t, "OnReadSample", <<>>)
    BY <1>1, <1>22, <1>23, <1>21, <1>3, <1>31, <2>1, Lists, Distinct DEF ColorInv, Moves, HandleInv
  <2>2. CASE Top(t) = "none" /\ errors /\ Moves(t, "OnReadSample failed", <<>>)
    BY <1>1, <1>22, <1>23, <1>21, <1>3, <1>31, <2>2, Lists, Distinct DEF ColorInv, Moves, HandleInv
  <2> QED
    BY <1>2, <2>1, <2>2
<1>9. UvcInv'
  <2>1. CASE Top(t) = "none" /\ Moves(t, "OnReadSample", <<>>)
    BY <1>1, <1>22, <1>23, <1>21, <1>3, <1>31, <2>1, Lists, Distinct DEF ColorInv, Moves, UvcInv
  <2>2. CASE Top(t) = "none" /\ errors /\ Moves(t, "OnReadSample failed", <<>>)
    BY <1>1, <1>22, <1>23, <1>21, <1>3, <1>31, <2>2, Lists, Distinct DEF ColorInv, Moves, UvcInv
  <2> QED
    BY <1>2, <2>1, <2>2
<1>10. MfInv'
  <2>1. CASE Top(t) = "none" /\ Moves(t, "OnReadSample", <<>>)
    BY <1>1, <1>22, <1>23, <1>21, <1>3, <1>31, <2>1, Lists, Distinct DEF ColorInv, Moves, MfInv
  <2>2. CASE Top(t) = "none" /\ errors /\ Moves(t, "OnReadSample failed", <<>>)
    BY <1>1, <1>22, <1>23, <1>21, <1>3, <1>31, <2>2, Lists, Distinct DEF ColorInv, Moves, MfInv
  <2> QED
    BY <1>2, <2>1, <2>2
<1>11. MemoryInv'
  <2>1. CASE Top(t) = "none" /\ Moves(t, "OnReadSample", <<>>)
    BY <1>1, <1>22, <1>23, <1>21, <1>3, <1>31, <2>1, Lists, Distinct DEF ColorInv, Moves, MemoryInv
  <2>2. CASE Top(t) = "none" /\ errors /\ Moves(t, "OnReadSample failed", <<>>)
    BY <1>1, <1>22, <1>23, <1>21, <1>3, <1>31, <2>2, Lists, Distinct DEF ColorInv, Moves, MemoryInv
  <2> QED
    BY <1>2, <2>1, <2>2
<1> QED
  BY <1>6, <1>7, <1>8, <1>9, <1>10, <1>11 DEF ColorInv

LEMMA FlushCompletesKeeps ==
  ASSUME ColorInv, platform = "mf", NEW t \in Workers, FlushCompletes(t), UNCHANGED uvc
  PROVE  ColorInv'
<1>1. /\ t \in Threads /\ t \notin Callers
      /\ Callers \subseteq Threads /\ Workers \subseteq Threads /\ Free \notin Workers
  BY ThreadSets
<1>21. LET m == [mf EXCEPT !.flush = FALSE, !.reads = 0] IN m \in MfType /\ m.reads = 0 /\ m.flush = FALSE
  BY MfUpdates DEF ColorInv, ShapeInv
<1>2. Top(t) = "none" /\ Moves(t, "OnFlush", <<>>)
  BY <1>1, BeginOne DEF ColorInv, ShapeInv, Steps, FlushCompletes
<1>3. /\ mf.flush /\ mf' \in MfType /\ mf'.reads = 0 /\ mf'.flush = FALSE
      /\ UNCHANGED <<platform, errors, color, m_lock, started, m_pCallback, held, memory, uvc, m_use_mf_buffer, camera, m_flushing, m_hStreamFlushed>>
  BY <1>21 DEF FlushCompletes, UNCHANGED_reader, mfVars
<1>31. Solo'
  BY <1>1, <1>2, <1>3 DEF ColorInv, ShapeInv, Moves, Solo
<1>4. ColorTypes'
  BY <1>2, <1>3 DEF ColorInv, ShapeInv, ColorTypes, Moves
<1>5. WorkerShape(t)'
  BY <1>1, <1>21, <1>2, <1>3, <1>31, Lists, Distinct DEF ColorInv, ShapeInv, ColorTypes, WorkerShape, Moves, Stopping
<1>6. ShapeInv'
  BY <1>1, <1>21, <1>2, <1>3, <1>31, <1>4, <1>5, ShapeMoves DEF ColorInv
<1>7. LockInv'
  BY <1>1, <1>21, <1>2, <1>3, <1>31, Lists, Distinct DEF ColorInv, Moves, LockInv
<1>8. HandleInv'
  BY <1>1, <1>21, <1>2, <1>3, <1>31, Lists, Distinct DEF ColorInv, Moves, HandleInv
<1>9. UvcInv'
  BY <1>1, <1>21, <1>2, <1>3, <1>31, Lists, Distinct DEF ColorInv, Moves, UvcInv
<1>10. MfInv'
  <2>1. CASE errors
    BY <1>3, <2>1 DEF MfInv
  <2>2. CASE ~errors
    <3>1. /\ ~m_hStreamFlushed /\ \A w \in Workers : Top(w) # "OnFlush"
          /\ \E c \in Callers : Top(c) = "Wait" /\ MfResources \subseteq held
      BY <1>3, <2>2 DEF ColorInv, MfInv
    <3>2. PICK c \in Callers : Top(c) = "Wait" /\ MfResources \subseteq held
      BY <3>1
    <3>3. ~started /\ c # t /\ Top(c)' = "Wait"
      BY <1>1, <1>2, <3>2 DEF ColorInv, HandleInv, Moves
    <3>4. \A w \in Workers : Top(w)' = "OnFlush" <=> w = t
      BY <1>1, <1>2, <3>1 DEF Moves
    <3> QED
      BY <1>3, <2>2, <3>1, <3>2, <3>3, <3>4 DEF MfInv
  <2> QED
    BY <2>1, <2>2
<1>11. MemoryInv'
  BY <1>1, <1>21, <1>2, <1>3, <1>31, Lists, Distinct DEF ColorInv, Moves, MemoryInv
<1> QED
  BY <1>6, <1>7, <1>8, <1>9, <1>10, <1>11 DEF ColorInv

-----------------------------------------------------------------------------
(* The invariant                                                           *)

LEMMA NothingMoves ==
  ASSUME ColorInv, UNCHANGED vars
  PROVE  ColorInv'
<1>1. /\ UNCHANGED <<platform, errors, color, todo, m_lock, started, m_pCallback, held, memory>>
      /\ UNCHANGED <<uvc, mfVars>>
  BY DEF vars, apiVars
<1>2. ShapeInv' /\ LockInv' /\ HandleInv' /\ UvcInv' /\ MfInv'
  BY <1>1, OnlyMemory
<1>3. \A w \in Workers : Top(w)' = Top(w)
  BY <1>1 DEF Top
<1>4. MemoryInv'
  BY <1>1, <1>3 DEF ColorInv, MemoryInv
<1> QED
  BY <1>2, <1>4 DEF ColorInv

LEMMA ColorInit ==
  ASSUME Init
  PROVE  ColorInv
<1>1. /\ ApiInit /\ FrameInit
      /\ uvc = "idle" /\ camera = None /\ m_use_mf_buffer = TRUE
      /\ m_flushing = FALSE /\ m_hStreamFlushed = FALSE
      /\ mf = [reads |-> 0, flush |-> FALSE, selected |-> FALSE]
  BY DEF Init, UvcInit, MfInit, ApiInit
<1>2. /\ platform \in {"uvc", "mf"} /\ errors \in BOOLEAN /\ (platform = "uvc" => ~errors)
      /\ color = "none" /\ m_lock = Free /\ started = FALSE /\ m_pCallback = FALSE /\ held = {}
      /\ todo = [t \in Threads |-> <<>>]
  BY <1>1 DEF ApiInit
<1>3. \A t \in Threads : Top(t) = "none" /\ Rest(t) = <<>>
  BY <1>2, Lists DEF Top, Rest
<1>4. Callers \subseteq Threads /\ Workers \subseteq Threads /\ Free \notin Workers
  BY ThreadSets
<1>5. ShapeInv
  <2>1. mf \in MfType
    BY <1>1 DEF MfType
  <2>2. todo \in [Threads -> Seq(Steps)]
    BY <1>2
  <2>3. ColorTypes
    BY <1>1, <1>2, <2>1, <2>2 DEF ColorTypes
  <2> QED
    BY <1>3, <1>4, <2>3 DEF ShapeInv, CallerShape, WorkerShape, Solo
<1>6. LockInv /\ HandleInv /\ UvcInv
  BY <1>1, <1>2, <1>3, <1>4 DEF LockInv, HandleInv, UvcInv
<1>7. MfInv
  BY <1>1, <1>2, <1>3, <1>4 DEF MfInv
<1>8. MemoryInv
  BY <1>1 DEF FrameInit, MemoryInv
<1> QED
  BY <1>5, <1>6, <1>7, <1>8 DEF ColorInv

LEMMA ApiKeeps ==
  ASSUME ColorInv, ApiNext, UNCHANGED <<uvc, mfVars>>
  PROVE  ColorInv'
<1>1. PICK c \in Callers :
        \/ MayCall(c) /\ color_create(c)
        \/ MayCall(c) /\ color_start(c)
        \/ MayCall(c) /\ color_stop(c)
        \/ MayCall(c) /\ color_destroy(c)
        \/ StopsReader(c)
        \/ FreesContext(c)
        \/ DropsCapture /\ UNCHANGED <<platform, errors, color, todo, m_lock, started, m_pCallback, held>>
  BY DEF ApiNext
<1>2. CASE color_create(c)
  BY <1>2, color_createKeeps
<1>3. CASE MayCall(c) /\ color_start(c)
  BY <1>3, color_startKeeps
<1>4. CASE MayCall(c) /\ color_stop(c)
  BY <1>4, color_stopKeeps
<1>5. CASE color_destroy(c)
  BY <1>5, color_destroyKeeps
<1>6. CASE StopsReader(c)
  BY <1>6, StopsReaderKeeps
<1>7. CASE FreesContext(c)
  BY <1>7, FreesContextKeeps
<1>8. CASE DropsCapture /\ UNCHANGED <<platform, errors, color, todo, m_lock, started, m_pCallback, held>>
  BY <1>8, DropKeeps
<1> QED
  BY <1>1, <1>2, <1>3, <1>4, <1>5, <1>6, <1>7, <1>8

LEMMA UvcKeeps ==
  ASSUME ColorInv, platform = "uvc", UvcNext, UNCHANGED mfVars
  PROVE  ColorInv'
<1>1. ASSUME NEW t \in Threads, UvcThread(t)
      PROVE  ColorInv'
  BY <1>1, UvcInitializeKeeps, UvcStartKeeps, UvcStopKeeps, StopStreamingBeginsKeeps,
     StopStreamingEndsKeeps, UvcShutdownKeeps, UvcCloseKeeps, CallbackDropsKeeps,
     CallbackCallsKeeps, CallbackReturnsKeeps DEF UvcThread
<1>2. ASSUME NEW w \in Workers, FrameArrives(w)
      PROVE  ColorInv'
  BY <1>2, FrameArrivesKeeps
<1>3. ASSUME NEW w \in Workers, Keeps(w), UNCHANGED uvc
      PROVE  ColorInv'
  BY <1>3, KeepKeeps
<1> QED
  BY <1>1, <1>2, <1>3 DEF UvcNext

LEMMA MfKeeps ==
  ASSUME ColorInv, platform = "mf", MfNext, UNCHANGED uvc
  PROVE  ColorInv'
<1>1. ASSUME NEW t \in Threads, MfThread(t)
      PROVE  ColorInv'
  BY <1>1, MfInitializeKeeps, MfStartKeeps, MfReadFirstKeeps, MfStopKeeps,
     MfWaitEndsKeeps, MfShutdownKeeps, MfResetKeeps, SampleIgnoredKeeps,
     SampleTakenKeeps, MfCallbackReturnsKeeps, ReadNextKeeps, NotifyErrorKeeps,
     ReportKeeps, ErrorReturnsKeeps, OnFlushKeeps, OnFlushReturnsKeeps DEF MfThread
<1>2. ASSUME NEW t \in Threads, MfWaitTimesOut(t)
      PROVE  ColorInv'
  BY <1>2, NothingMoves DEF MfWaitTimesOut, vars
<1>3. ASSUME NEW w \in Workers, ReadCompletes(w) \/ FlushCompletes(w)
      PROVE  ColorInv'
  BY <1>3, ReadCompletesKeeps, FlushCompletesKeeps
<1>4. ASSUME NEW w \in Workers, Keeps(w), UNCHANGED mfVars
      PROVE  ColorInv'
  BY <1>4, KeepKeeps
<1> QED
  BY <1>1, <1>2, <1>3, <1>4 DEF MfNext

(* Every behaviour of the color component keeps the invariant.             *)
LEMMA ColorInvariant == Spec => []ColorInv
<1>1. Init => ColorInv
  BY ColorInit
<1>2. ColorInv /\ [Next]_vars => ColorInv'
  BY ApiKeeps, UvcKeeps, MfKeeps, NothingMoves DEF Next
<1> QED
  BY <1>1, <1>2, PTL DEF Spec

-----------------------------------------------------------------------------
(* What follows                                                            *)

LEMMA AtIsTop ==
  ASSUME ColorTypes, NEW t \in Threads, NEW x \in Steps
  PROVE  At(t, x) <=> Top(t) = x
BY DEF At, Top, First, Steps

(* Unless the pipeline reports errors, nothing is used after its release:  *)
(* the sample callback and the failure callback find m_pCallback set,      *)
(* libuvc and Media Foundation work with what the reader still holds, and  *)
(* nothing is held once color_destroy has freed the context.               *)
THEOREM UsesWhatIsHeld == Spec => []NothingUsedAfterRelease
<1>1. ASSUME ColorInv
      PROVE  NothingUsedAfterRelease
  <2> SUFFICES ASSUME ~errors PROVE NothingUsedAfterRelease
    BY DEF NothingUsedAfterRelease
  <2>1. \A w \in Workers :
          /\ At(w, "sample") => Top(w) = "sample"
          /\ At(w, "failure") => Top(w) = "failure"
          /\ At(w, "ReadNext") => Top(w) = "ReadNext"
          /\ At(w, "OnFlush") => Top(w) = "OnFlush"
    BY AtTop
  <2>2. platform \in {"uvc", "mf"}
    BY <1>1 DEF ColorInv, ShapeInv, ColorTypes
  <2>3. \A w \in Workers : At(w, "sample") \/ At(w, "failure") => m_pCallback
    BY <1>1, <2>1 DEF ColorInv, LockInv
  <2>4. uvc # "idle" => Resources \subseteq held
    BY <1>1 DEF ColorInv, UvcInv
  <2>5. \A w \in Workers : At(w, "OnFlush") => platform = "mf"
    <3>1. \A w \in Workers : Top(w) = "OnFlush" => platform = "mf"
      BY <1>1 DEF ColorInv, ShapeInv, WorkerShape
    <3> QED
      BY <2>1, <3>1
  <2>6. \A w \in Workers : At(w, "ReadNext") => started /\ platform = "mf"
    <3>1. \A w \in Workers : Top(w) = "ReadNext" => platform = "mf"
      BY <1>1 DEF ColorInv, ShapeInv, WorkerShape
    <3> QED
      BY <1>1, <2>1, <3>1 DEF ColorInv, LockInv
  <2>7. started /\ platform = "mf" => MfResources \subseteq held
    BY <1>1 DEF ColorInv, HandleInv
  <2>8. platform = "mf" /\ (mf.flush \/ \E w \in Workers : Top(w) = "OnFlush") => MfResources \subseteq held
    BY <1>1 DEF ColorInv, MfInv
  <2>9. mf.reads > 0 \/ mf.flush => MfResources \subseteq held
    BY <1>1, <2>2, <2>7, <2>8 DEF ColorInv, MfInv
  <2>10. color = "none" => held = {}
    BY <1>1 DEF ColorInv, HandleInv
  <2> QED
    BY <2>1, <2>3, <2>4, <2>5, <2>6, <2>7, <2>8, <2>9, <2>10 DEF NothingUsedAfterRelease
<1> QED
  BY <1>1, ColorInvariant, PTL

(* A started Media Foundation stream always has a sample requested, or a   *)
(* callback under way that requests the next: m_flushing is never left     *)
(* over from an earlier flush, if the pipeline has no errors.              *)
THEOREM NeverStalls == Spec => []StreamNeverStalls
<1>1. ASSUME ColorInv
      PROVE  StreamNeverStalls
  <2> SUFFICES ASSUME platform = "mf", ~errors, started PROVE StreamNeverStalls
    BY DEF StreamNeverStalls
  <2>1. ~m_flushing
    BY <1>1 DEF ColorInv, MfInv
  <2>2. \/ mf.reads > 0
        \/ \E w \in Workers : Top(w) \in {"OnReadSample", "sample", "failure", "ReadNext"}
    BY <1>1 DEF ColorInv, MfInv
  <2>3. \A w \in Workers, x \in {"OnReadSample", "sample", "failure", "ReadNext"} :
          Top(w) = x => At(w, x)
    BY <1>1, AtIsTop, ThreadSets DEF ColorInv, ShapeInv, Steps
  <2> QED
    BY <2>1, <2>2, <2>3 DEF StreamNeverStalls
<1> QED
  BY <1>1, ColorInvariant, PTL

(* Between two callbacks the memory of the frames is with the images the   *)
(* application keeps, whichever step of making a capture has failed, but   *)
(* for the frames of which no image could be made.                         *)
THEOREM FramesAreGivenBack == Spec => []FramesGivenBack
<1>1. ASSUME ColorInv
      PROVE  FramesGivenBack
  <2> SUFFICES ASSUME \A w \in Workers : ~At(w, "sample") /\ ~At(w, "failure")
               PROVE  memory.out = memory.kept + memory.lost
    BY DEF FramesGivenBack
  <2>1. \A w \in Workers : Top(w) \notin {"sample", "failure"}
    BY <1>1, AtIsTop, ThreadSets DEF ColorInv, ShapeInv, Steps
  <2>2. /\ memory.own \in {0, 1} /\ memory.image \in {0, 1}
        /\ memory.kept \in Nat /\ memory.lost \in Nat
        /\ memory.out = memory.own + memory.image + memory.kept + memory.lost
        /\ ~(memory.own + memory.image > 0)
    BY <1>1, <2>1 DEF ColorInv, MemoryInv
  <2> QED
    BY <2>2
<1> QED
  BY <1>1, ColorInvariant, PTL

(* The camera that streams is the one in the container of the device the   *)
(* handle was opened for, whatever other cameras are attached.             *)
THEOREM CameraIsOwn == Spec => []OwnCamera
<1>1. ColorInv => OwnCamera
  BY DEF ColorInv, HandleInv, OwnCamera
<1> QED
  BY <1>1, ColorInvariant, PTL

-----------------------------------------------------------------------------
(* The refinement                                                          *)

Delivering == \E w \in Workers : Delivers(w)

(* A delivery holds the lock, so there is one at a time.                   *)
LEMMA DeliveryLocks ==
  ASSUME ColorInv
  PROVE  /\ \A w \in Workers : Delivers(w) <=> Top(w) = "sample"
         /\ \A w \in Workers : Top(w) = "sample" => m_lock = w /\ started
         /\ Delivering <=> \E w \in Workers : Top(w) = "sample"
<1>1. \A w \in Workers : Delivers(w) <=> Top(w) = "sample"
  BY AtIsTop, ThreadSets DEF ColorInv, ShapeInv, Steps, Delivers
<1>2. \A w \in Workers : Top(w) = "sample" => m_lock = w /\ started
  BY DEF ColorInv, LockInv
<1> QED
  BY <1>1, <1>2 DEF Delivering

(* Whoever starts or stops the stream has the lock for it.                 *)
LEMMA StartingLocks ==
  ASSUME [Next]_vars
  PROVE  started' = started \/ (m_lock = Free /\ m_lock' = Free)
<1>1. CASE UNCHANGED vars
  BY <1>1 DEF vars, apiVars
<1>2. CASE ApiNext
  BY <1>2 DEF ApiNext, color_create, color_start, color_stop, color_destroy, StopsReader,
     FreesContext, UNCHANGED_reader
<1>3. CASE UvcNext
  <2>1. ASSUME NEW t \in Threads, UvcInitialize(t) \/ UvcStart(t) \/ UvcStop(t) \/ StopStreamingBegins(t)
                                  \/ StopStreamingEnds(t)
        PROVE  started' = started \/ (m_lock = Free /\ m_lock' = Free)
    BY <2>1 DEF UvcInitialize, UvcStart, UvcStop, StopLocks, StopStreamingBegins, StopStreamingEnds,
       apiVars, UNCHANGED_reader
  <2>2. ASSUME NEW t \in Threads, UvcShutdown(t) \/ UvcClose(t) \/ CallbackDrops(t) \/ CallbackCalls(t)
                                  \/ CallbackReturns(t)
        PROVE  started' = started
    BY <2>2 DEF UvcShutdown, UvcClose, CallbackDrops, CallbackCalls, CallbackReturns, UNCHANGED_reader
  <2>3. ASSUME NEW w \in Workers, FrameArrives(w) \/ Keeps(w)
        PROVE  started' = started
    BY <2>3 DEF FrameArrives, Keeps, UNCHANGED_reader
  <2> QED
    BY <1>3, <2>1, <2>2, <2>3 DEF UvcNext, UvcThread
<1>4. CASE MfNext
  <2>1. ASSUME NEW t \in Threads, MfInitialize(t) \/ MfStart(t) \/ MfReadFirst(t) \/ MfStop(t)
        PROVE  started' = started \/ (m_lock = Free /\ m_lock' = Free)
    BY <2>1 DEF MfInitialize, MfStart, MfReadFirst, MfStop, UNCHANGED_reader
  <2>2. ASSUME NEW t \in Threads, MfWaitEnds(t) \/ MfWaitTimesOut(t) \/ MfShutdown(t) \/ MfReset(t)
                                  \/ SampleIgnored(t) \/ SampleTaken(t) \/ MfCallbackReturns(t)
        PROVE  started' = started
    BY <2>2 DEF MfWaitEnds, MfWaitTimesOut, MfShutdown, MfReset, SampleIgnored, SampleTaken,
       MfCallbackReturns, apiVars, UNCHANGED_reader
  <2>3. ASSUME NEW t \in Threads, ReadNext(t) \/ NotifyError(t) \/ Report(t) \/ ErrorReturns(t)
                                  \/ OnFlush(t) \/ OnFlushReturns(t)
        PROVE  started' = started
    BY <2>3 DEF ReadNext, NotifyError, Report, ErrorReturns, OnFlush, OnFlushReturns, UNCHANGED_reader
  <2>4. ASSUME NEW w \in Workers, ReadCompletes(w) \/ FlushCompletes(w) \/ Keeps(w)
        PROVE  started' = started
    BY <2>4 DEF ReadCompletes, FlushCompletes, Keeps, UNCHANGED_reader
  <2> QED
    BY <1>4, <2>1, <2>2, <2>3, <2>4 DEF MfNext, MfThread
<1> QED
  BY <1>1, <1>2, <1>3, <1>4 DEF Next

(* Both readers implement ColorReader, with m_streaming or m_started as    *)
(* "on" and a running sample callback as "delivering": samples come only   *)
(* while the stream is started, and Stop takes effect between two of them, *)
(* whatever the pipeline reports.                                          *)
THEOREM ReadersImplement == Spec => ImplementsColorReader
<1>1. ASSUME Init
      PROVE  CR!Init
  <2>1. started = FALSE /\ m_lock = Free
    BY <1>1 DEF Init, ApiInit
  <2>2. ~Delivering
    BY <1>1, <2>1, ColorInit, DeliveryLocks, ThreadSets
  <2> QED
    BY <2>1, <2>2 DEF CR!Init, Delivering
<1>2. ASSUME ColorInv, ColorInv', [Next]_vars
      PROVE  [CR!Next]_(CR!vars)
  <2>1. /\ Delivering <=> \E w \in Workers : Top(w) = "sample"
        /\ Delivering => started
        /\ m_lock = Free => ~Delivering
    BY <1>2, DeliveryLocks, ThreadSets
  <2>2. /\ Delivering' => started'
        /\ m_lock' = Free => ~Delivering'
    <3>1. \A w \in Workers : Delivers(w)' => m_lock' = w /\ started'
      <4>1. \A w \in Workers : Delivers(w)' => Top(w)' = "sample"
        BY <1>2, AtTop DEF Delivers, At, Top, First
      <4> QED
        BY <1>2, <4>1 DEF ColorInv, LockInv
    <3> QED
      BY <3>1, ThreadSets DEF Delivering
  <2>3. started \in BOOLEAN /\ started' \in BOOLEAN
    BY <1>2 DEF ColorInv, ShapeInv, ColorTypes
  <2>4. CASE started' # started
    <3>1. ~Delivering /\ ~Delivering'
      BY <1>2, <2>1, <2>2, <2>4, StartingLocks
    <3> QED
      BY <2>3, <2>4, <3>1 DEF CR!Next, CR!Start, CR!Stop, Delivering
  <2>5. CASE started' = started
    BY <2>1, <2>2, <2>3, <2>5 DEF CR!Next, CR!Deliver, CR!Delivered, CR!vars, Delivering
  <2> QED
    BY <2>4, <2>5
<1> QED
  BY <1>1, <1>2, ColorInvariant, PTL DEF Spec, ImplementsColorReader, CR!Spec

-----------------------------------------------------------------------------
(* The exposure table.                                                     *)

Is60Hz(c) ==
  /\ c[1] = 500 /\ c[2] = 1250 /\ c[3] = 2500 /\ c[4] = 8330 /\ c[5] = 16670
  /\ c[6] = 33330 /\ c[7] = 41670 /\ c[8] = 50000 /\ c[9] = 66670 /\ c[10] = 83330
  /\ c[11] = 100000 /\ c[12] = 116670 /\ c[13] = 133330

Is50Hz(c) ==
  /\ c[1] = 500 /\ c[2] = 1250 /\ c[3] = 2500 /\ c[4] = 10000 /\ c[5] = 20000
  /\ c[6] = 30000 /\ c[7] = 40000 /\ c[8] = 50000 /\ c[9] = 60000 /\ c[10] = 80000
  /\ c[11] = 100000 /\ c[12] = 120000 /\ c[13] = 130000

LEMMA Columns ==
  ASSUME NEW hz60 \in BOOLEAN
  PROVE  IF hz60 THEN Is60Hz(Column(hz60)) ELSE Is50Hz(Column(hz60))
BY SMT DEF Column, device_exposure_mapping, Is60Hz, Is50Hz

LEMMA RowCases ==
  \A x \in Rows : \/ x = 1 \/ x = 2 \/ x = 3 \/ x = 4 \/ x = 5 \/ x = 6 \/ x = 7 \/ x = 8
                  \/ x = 9 \/ x = 10 \/ x = 11 \/ x = 12 \/ x = 13
BY DEF Rows

(* Converted to the driver's units and back, a row is not the row before.  *)
RowOK(c, x) ==
  /\ c[x] \in Nat
  /\ (c[x] \div 100) * 100 <= c[x]
  /\ x # 1 => c[x - 1] < (c[x] \div 100) * 100

LEMMA Rows60 ==
  ASSUME NEW c, Is60Hz(c)
  PROVE  \A x \in Rows : RowOK(c, x)
BY RowCases, SMT DEF Is60Hz, RowOK

LEMMA Rows50 ==
  ASSUME NEW c, Is50Hz(c)
  PROVE  \A x \in Rows : RowOK(c, x)
BY RowCases, SMT DEF Is50Hz, RowOK

LEMMA ColumnRows ==
  ASSUME NEW hz60 \in BOOLEAN
  PROVE  \A x \in Rows : RowOK(Column(hz60), x)
<1>1. CASE hz60
  <2>1. Is60Hz(Column(hz60))
    BY <1>1, Columns
  <2> QED
    BY <2>1, Rows60
<1>2. CASE ~hz60
  <2>1. Is50Hz(Column(hz60))
    BY <1>2, Columns
  <2> QED
    BY <2>1, Rows50
<1> QED
  BY <1>1, <1>2

(* The columns increase.                                                   *)
Above(hz60, k) == \A y \in 1 .. k - 1 : Column(hz60)[y] < Column(hz60)[k]

LEMMA ColumnAbove ==
  ASSUME NEW hz60 \in BOOLEAN
  PROVE  \A k \in Rows : Above(hz60, k)
<1>1. Above(hz60, 1)
  BY DEF Above
<1>2. \A k \in 1 .. 12 : Above(hz60, k) => Above(hz60, k + 1)
  <2>1. SUFFICES ASSUME NEW k \in 1 .. 12, Above(hz60, k), NEW y \in 1 .. k
                 PROVE  Column(hz60)[y] < Column(hz60)[k + 1]
    BY DEF Above
  <2>2. k \in Rows /\ y \in Rows /\ k + 1 \in Rows /\ (k + 1) - 1 = k /\ k + 1 # 1
    BY DEF Rows
  <2>3. RowOK(Column(hz60), k) /\ RowOK(Column(hz60), y) /\ RowOK(Column(hz60), k + 1)
    BY <2>2, ColumnRows
  <2>4. PICK d : d = (Column(hz60)[k + 1] \div 100) * 100
    OBVIOUS
  <2>5. d \in Int /\ d <= Column(hz60)[k + 1] /\ Column(hz60)[k] < d
    BY <2>2, <2>3, <2>4 DEF RowOK
  <2>6. Column(hz60)[k] < Column(hz60)[k + 1]
    BY <2>3, <2>5 DEF RowOK
  <2>7. y = k \/ Column(hz60)[y] < Column(hz60)[k]
    BY <2>1 DEF Above
  <2> QED
    BY <2>3, <2>6, <2>7 DEF RowOK
<1>3. Above(hz60, 2) /\ Above(hz60, 3) /\ Above(hz60, 4) /\ Above(hz60, 5)
  BY <1>1, <1>2
<1>4. Above(hz60, 6) /\ Above(hz60, 7) /\ Above(hz60, 8) /\ Above(hz60, 9)
  BY <1>3, <1>2
<1>5. Above(hz60, 10) /\ Above(hz60, 11) /\ Above(hz60, 12) /\ Above(hz60, 13)
  BY <1>4, <1>2
<1> QED
  BY <1>1, <1>3, <1>4, <1>5, RowCases

LEMMA ColumnIncreases ==
  ASSUME NEW hz60 \in BOOLEAN, NEW x \in Rows, NEW y \in Rows, x < y
  PROVE  Column(hz60)[x] < Column(hz60)[y]
BY ColumnAbove DEF Above, Rows

LEMMA ColumnType ==
  ASSUME NEW hz60 \in BOOLEAN, NEW x \in Rows
  PROVE  Column(hz60)[x] \in Nat
BY ColumnRows DEF RowOK

(* The loops over the table end at a row unless the exposure is beyond the *)
(* last.                                                                   *)
IsFirst(usec, hz60, x) == usec <= Column(hz60)[x] /\ \A y \in 1 .. x - 1 : usec > Column(hz60)[y]

FirstWithin(usec, hz60, k) == usec <= Column(hz60)[k] => \E x \in 1 .. k : IsFirst(usec, hz60, x)

LEMMA FirstFound ==
  ASSUME NEW hz60 \in BOOLEAN, NEW usec \in Int, usec <= MAX_EXPOSURE(hz60)
  PROVE  \E x \in Rows : IsFirst(usec, hz60, x)
<1>1. FirstWithin(usec, hz60, 1)
  BY DEF FirstWithin, IsFirst
<1>2. \A k \in 1 .. 12 : FirstWithin(usec, hz60, k) => FirstWithin(usec, hz60, k + 1)
  <2>1. SUFFICES ASSUME NEW k \in 1 .. 12, FirstWithin(usec, hz60, k),
                        usec <= Column(hz60)[k + 1]
                 PROVE  \E x \in 1 .. k + 1 : IsFirst(usec, hz60, x)
    BY DEF FirstWithin
  <2>2. CASE usec <= Column(hz60)[k]
    BY <2>1, <2>2 DEF FirstWithin
  <2>3. CASE ~(usec <= Column(hz60)[k])
    <3>1. ASSUME NEW y \in 1 .. k PROVE usec > Column(hz60)[y]
      <4>1. k \in Rows /\ y \in Rows /\ (y = k \/ y < k)
        BY DEF Rows
      <4>2. Column(hz60)[k] \in Nat /\ Column(hz60)[y] \in Nat
        BY <4>1, ColumnType
      <4>3. Column(hz60)[y] <= Column(hz60)[k]
        BY <4>1, <4>2, ColumnIncreases
      <4> QED
        BY <2>3, <4>2, <4>3
    <3>2. IsFirst(usec, hz60, k + 1)
      BY <2>1, <3>1 DEF IsFirst
    <3> QED
      BY <3>2
  <2> QED
    BY <2>2, <2>3
<1>4. FirstWithin(usec, hz60, 2) /\ FirstWithin(usec, hz60, 3) /\ FirstWithin(usec, hz60, 4)
  BY <1>1, <1>2
<1>5. FirstWithin(usec, hz60, 5) /\ FirstWithin(usec, hz60, 6) /\ FirstWithin(usec, hz60, 7)
  BY <1>4, <1>2
<1>6. FirstWithin(usec, hz60, 8) /\ FirstWithin(usec, hz60, 9) /\ FirstWithin(usec, hz60, 10)
  BY <1>5, <1>2
<1>7. FirstWithin(usec, hz60, 11) /\ FirstWithin(usec, hz60, 12) /\ FirstWithin(usec, hz60, 13)
  BY <1>6, <1>2
<1> QED
  BY <1>7 DEF FirstWithin, MAX_EXPOSURE, Rows

LEMMA FirstRowIs ==
  ASSUME NEW hz60 \in BOOLEAN, NEW usec \in Int, usec <= MAX_EXPOSURE(hz60)
  PROVE  FirstRow(usec, hz60) \in Rows /\ IsFirst(usec, hz60, FirstRow(usec, hz60))
<1>1. \E x \in Rows : usec <= Column(hz60)[x] /\ \A y \in 1 .. x - 1 : usec > Column(hz60)[y]
  BY FirstFound DEF IsFirst
<1> QED
  BY <1>1 DEF FirstRow, IsFirst

LEMMA FirstUnique ==
  ASSUME NEW hz60 \in BOOLEAN, NEW usec \in Int, NEW x \in Rows, IsFirst(usec, hz60, x)
  PROVE  usec <= MAX_EXPOSURE(hz60) /\ FirstRow(usec, hz60) = x
<1>1. 13 \in Rows /\ (x = 13 \/ x < 13)
  BY DEF Rows
<1>2. Column(hz60)[x] \in Nat /\ Column(hz60)[13] \in Nat
  BY <1>1, ColumnType
<1>3. Column(hz60)[x] <= Column(hz60)[13]
  BY <1>1, <1>2, ColumnIncreases
<1>4. usec <= MAX_EXPOSURE(hz60)
  BY <1>2, <1>3 DEF MAX_EXPOSURE, IsFirst
<1>5. PICK z : z = FirstRow(usec, hz60)
  OBVIOUS
<1>6. z \in Rows /\ IsFirst(usec, hz60, z)
  BY <1>4, <1>5, FirstRowIs
<1>7. Column(hz60)[z] \in Nat
  BY <1>6, ColumnType
<1>8. ~(x < z) /\ ~(z < x)
  BY <1>2, <1>6, <1>7 DEF IsFirst, Rows
<1> QED
  BY <1>4, <1>5, <1>6, <1>8 DEF Rows

(* The exposure the loops find is the nearest that is not shorter.         *)
LEMMA FirstIsNearest ==
  ASSUME NEW hz60 \in BOOLEAN, NEW usec \in Int, NEW x \in Rows, IsFirst(usec, hz60, x)
  PROVE  IsNearest(Column(hz60)[x], usec, hz60)
<1>1. ASSUME NEW y \in Rows, usec <= Column(hz60)[y] PROVE Column(hz60)[x] <= Column(hz60)[y]
  <2>1. Column(hz60)[x] \in Nat /\ Column(hz60)[y] \in Nat
    BY ColumnType
  <2>2. ~(y < x)
    BY <1>1, <2>1 DEF IsFirst, Rows
  <2>3. x = y \/ x < y
    BY <2>2 DEF Rows
  <2> QED
    BY <2>1, <2>3, ColumnIncreases
<1> QED
  BY <1>1 DEF IsNearest, IsFirst

LEMMA LongestIsNearest ==
  ASSUME NEW hz60 \in BOOLEAN, NEW usec \in Int, ~(usec <= MAX_EXPOSURE(hz60))
  PROVE  IsNearest(MAX_EXPOSURE(hz60), usec, hz60)
<1>1. 13 \in Rows
  BY DEF Rows
<1>2. ASSUME NEW y \in Rows PROVE ~(usec <= Column(hz60)[y])
  <2>1. y = 13 \/ y < 13
    BY DEF Rows
  <2>2. Column(hz60)[y] \in Nat /\ Column(hz60)[13] \in Nat
    BY <1>1, ColumnType
  <2>3. Column(hz60)[y] <= Column(hz60)[13]
    BY <1>1, <2>1, <2>2, ColumnIncreases
  <2> QED
    BY <2>2, <2>3 DEF MAX_EXPOSURE
<1> QED
  BY <1>1, <1>2 DEF IsNearest, MAX_EXPOSURE

(* What the driver of Linux is given for a row is shown as that row again, *)
(* though the unit of 100 microseconds cuts it off.                        *)
LEMMA LinuxRow ==
  ASSUME NEW hz60 \in BOOLEAN, NEW x \in Rows
  PROVE  MapLinuxExposureToK4a(Column(hz60)[x] \div CONV_100USEC_TO_USEC, hz60) = Column(hz60)[x]
<1>1. RowOK(Column(hz60), x)
  BY ColumnRows
<1>2. PICK u : u = Column(hz60)[x] \div 100
  OBVIOUS
<1>3. PICK w : w = u * 100
  OBVIOUS
<1>4. u \in Int /\ w \in Int /\ w <= Column(hz60)[x] /\ (x # 1 => Column(hz60)[x - 1] < w)
  BY <1>1, <1>2, <1>3 DEF RowOK
<1>5. ASSUME NEW y \in 1 .. x - 1 PROVE w > Column(hz60)[y]
  <2>1. y \in Rows /\ x - 1 \in Rows /\ x # 1 /\ (y = x - 1 \/ y < x - 1)
    BY DEF Rows
  <2>2. Column(hz60)[y] \in Nat /\ Column(hz60)[x - 1] \in Nat
    BY <2>1, ColumnType
  <2>3. Column(hz60)[y] <= Column(hz60)[x - 1]
    BY <2>1, <2>2, ColumnIncreases
  <2> QED
    BY <1>4, <2>1, <2>2, <2>3
<1>6. IsFirst(w, hz60, x)
  BY <1>4, <1>5 DEF IsFirst
<1>7. w <= MAX_EXPOSURE(hz60) /\ FirstRow(w, hz60) = x
  BY <1>4, <1>6, FirstUnique
<1>8. MapLinuxExposureToK4a(u, hz60) = Column(hz60)[x]
  BY <1>3, <1>7 DEF MapLinuxExposureToK4a, CONV_100USEC_TO_USEC
<1> QED
  BY <1>2, <1>8 DEF CONV_100USEC_TO_USEC

LEMMA LinuxShowsNearest ==
  ASSUME NEW hz60 \in BOOLEAN, NEW usec \in Int
  PROVE  IsNearest(MapLinuxExposureToK4a(MapK4aExposureToLinux(usec, hz60), hz60), usec, hz60)
<1>1. CASE usec <= MAX_EXPOSURE(hz60)
  <2>1. PICK x : x = FirstRow(usec, hz60)
    OBVIOUS
  <2>2. x \in Rows /\ IsFirst(usec, hz60, x)
    BY <1>1, <2>1, FirstRowIs
  <2>3. MapK4aExposureToLinux(usec, hz60) = Column(hz60)[x] \div CONV_100USEC_TO_USEC
    BY <1>1, <2>1 DEF MapK4aExposureToLinux
  <2> QED
    BY <2>2, <2>3, LinuxRow, FirstIsNearest
<1>2. CASE ~(usec <= MAX_EXPOSURE(hz60))
  <2>1. MapK4aExposureToLinux(usec, hz60) = Column(hz60)[13] \div CONV_100USEC_TO_USEC
    BY <1>2 DEF MapK4aExposureToLinux, MAX_EXPOSURE
  <2>2. 13 \in Rows
    BY DEF Rows
  <2>3. MapLinuxExposureToK4a(MapK4aExposureToLinux(usec, hz60), hz60) = MAX_EXPOSURE(hz60)
    BY <2>1, <2>2, LinuxRow DEF MAX_EXPOSURE
  <2> QED
    BY <1>2, <2>3, LongestIsNearest
<1> QED
  BY <1>1, <1>2

(* The exponents of Media Foundation name the rows.                        *)
LEMMA MfRow ==
  ASSUME NEW hz60 \in BOOLEAN, NEW x \in Rows
  PROVE  MapMfExponentToK4a(Exponent(x), hz60) = Column(hz60)[x]
<1>1. Exponent(x) <= Exponent(13)
  BY DEF Exponent, Rows
<1>2. \A z \in Rows : (/\ Exponent(x) <= Exponent(z)
                       /\ \A y \in 1 .. z - 1 : Exponent(x) > Exponent(y)) <=> z = x
  BY DEF Exponent, Rows
<1>3. x = CHOOSE z \in Rows : /\ Exponent(x) <= Exponent(z)
                              /\ \A y \in 1 .. z - 1 : Exponent(x) > Exponent(y)
  BY <1>2
<1> QED
  BY <1>1, <1>3 DEF MapMfExponentToK4a

LEMMA MfShowsNearest ==
  ASSUME NEW hz60 \in BOOLEAN, NEW usec \in Int
  PROVE  IsNearest(MapMfExponentToK4a(MapK4aExposureToMf(usec, hz60), hz60), usec, hz60)
<1>1. CASE usec <= MAX_EXPOSURE(hz60)
  <2>1. PICK x : x = FirstRow(usec, hz60)
    OBVIOUS
  <2>2. x \in Rows /\ IsFirst(usec, hz60, x)
    BY <1>1, <2>1, FirstRowIs
  <2>3. MapK4aExposureToMf(usec, hz60) = Exponent(x)
    BY <1>1, <2>1 DEF MapK4aExposureToMf
  <2> QED
    BY <2>2, <2>3, MfRow, FirstIsNearest
<1>2. CASE ~(usec <= MAX_EXPOSURE(hz60))
  <2>1. MapK4aExposureToMf(usec, hz60) = Exponent(13)
    BY <1>2 DEF MapK4aExposureToMf
  <2>2. 13 \in Rows
    BY DEF Rows
  <2>3. MapMfExponentToK4a(MapK4aExposureToMf(usec, hz60), hz60) = MAX_EXPOSURE(hz60)
    BY <2>1, <2>2, MfRow DEF MAX_EXPOSURE
  <2> QED
    BY <1>2, <2>3, LongestIsNearest
<1> QED
  BY <1>1, <1>2

(* A longer exposure of the driver is not shown as a shorter one.          *)
LEMMA LinuxIncreases ==
  ASSUME NEW hz60 \in BOOLEAN, NEW a \in Int, NEW b \in Int, a <= b
  PROVE  /\ MapLinuxExposureToK4a(a, hz60) \in Int
         /\ MapLinuxExposureToK4a(b, hz60) \in Int
         /\ MapLinuxExposureToK4a(a, hz60) <= MapLinuxExposureToK4a(b, hz60)
<1>1. PICK v : v = a * 100
  OBVIOUS
<1>2. PICK w : w = b * 100
  OBVIOUS
<1>3. v \in Int /\ w \in Int /\ v <= w
  BY <1>1, <1>2
<1>4. 13 \in Rows /\ Column(hz60)[13] \in Nat
  BY ColumnType DEF Rows
<1>5. ASSUME NEW x \in Rows PROVE Column(hz60)[x] \in Nat /\ Column(hz60)[x] <= MAX_EXPOSURE(hz60)
  <2>1. x = 13 \/ x < 13
    BY DEF Rows
  <2>2. Column(hz60)[x] \in Nat
    BY ColumnType
  <2> QED
    BY <1>4, <2>1, <2>2, ColumnIncreases DEF MAX_EXPOSURE
<1>6. CASE ~(w <= MAX_EXPOSURE(hz60))
  <2>1. MapLinuxExposureToK4a(b, hz60) = MAX_EXPOSURE(hz60)
    BY <1>2, <1>6 DEF MapLinuxExposureToK4a, CONV_100USEC_TO_USEC
  <2>2. \E x \in Rows : MapLinuxExposureToK4a(a, hz60) = Column(hz60)[x]
    <3>1. CASE v <= MAX_EXPOSURE(hz60)
      BY <1>1, <1>3, <3>1, FirstRowIs DEF MapLinuxExposureToK4a, CONV_100USEC_TO_USEC
    <3>2. CASE ~(v <= MAX_EXPOSURE(hz60))
      BY <1>1, <1>4, <3>2 DEF MapLinuxExposureToK4a, CONV_100USEC_TO_USEC, MAX_EXPOSURE
    <3> QED
      BY <3>1, <3>2
  <2> QED
    BY <1>4, <1>5, <2>1, <2>2 DEF MAX_EXPOSURE
<1>7. CASE w <= MAX_EXPOSURE(hz60)
  <2>1. v <= MAX_EXPOSURE(hz60)
    BY <1>3, <1>4, <1>7 DEF MAX_EXPOSURE
  <2>2. PICK x : x = FirstRow(v, hz60)
    OBVIOUS
  <2>3. PICK y : y = FirstRow(w, hz60)
    OBVIOUS
  <2>4. x \in Rows /\ IsFirst(v, hz60, x)
    BY <1>3, <2>1, <2>2, FirstRowIs
  <2>5. y \in Rows /\ IsFirst(w, hz60, y)
    BY <1>3, <1>7, <2>3, FirstRowIs
  <2>6. MapLinuxExposureToK4a(a, hz60) = Column(hz60)[x]
    BY <1>1, <2>1, <2>2 DEF MapLinuxExposureToK4a, CONV_100USEC_TO_USEC
  <2>7. MapLinuxExposureToK4a(b, hz60) = Column(hz60)[y]
    BY <1>2, <1>7, <2>3 DEF MapLinuxExposureToK4a, CONV_100USEC_TO_USEC
  <2>8. v <= Column(hz60)[y]
    BY <1>3, <1>5, <2>5 DEF IsFirst
  <2>9. Column(hz60)[x] <= Column(hz60)[y]
    BY <1>3, <2>4, <2>5, <2>8, FirstIsNearest DEF IsNearest
  <2> QED
    BY <1>5, <2>4, <2>5, <2>6, <2>7, <2>9
<1> QED
  BY <1>6, <1>7

LEMMA MfIncreases ==
  ASSUME NEW hz60 \in BOOLEAN, NEW a \in Int, NEW b \in Int,
         Exponent(1) <= a, a <= b, b <= Exponent(13)
  PROVE  /\ MapMfExponentToK4a(a, hz60) \in Int
         /\ MapMfExponentToK4a(b, hz60) \in Int
         /\ MapMfExponentToK4a(a, hz60) <= MapMfExponentToK4a(b, hz60)
<1>1. PICK x : x = a + 12
  OBVIOUS
<1>2. PICK y : y = b + 12
  OBVIOUS
<1>3. x \in Rows /\ y \in Rows /\ a = Exponent(x) /\ b = Exponent(y) /\ (x = y \/ x < y)
  BY <1>1, <1>2 DEF Exponent, Rows
<1>4. MapMfExponentToK4a(a, hz60) = Column(hz60)[x] /\ MapMfExponentToK4a(b, hz60) = Column(hz60)[y]
  BY <1>3, MfRow
<1>5. Column(hz60)[x] \in Nat /\ Column(hz60)[y] \in Nat
  BY <1>3, ColumnType
<1> QED
  BY <1>3, <1>4, <1>5, ColumnIncreases
-----------------------------------------------------------------------------
(* The controls.  What the driver is given for a value, and what the       *)
(* program is shown of what the device has.                                *)

Units(c, v) ==
  IF c = EXPOSURE_TIME
  THEN IF backend = "uvc" THEN MapK4aExposureToLinux(v, m_using_60hz_power)
                          ELSE MapK4aExposureToMf(v, m_using_60hz_power)
  ELSE IF backend = "mf" THEN v
  ELSE IF c = POWERLINE_FREQUENCY THEN Uint8(v)
  ELSE IF c = BRIGHTNESS THEN Int16(v)
  ELSE Uint16(v)

Shown(c, u, hz60) ==
  IF c = EXPOSURE_TIME
  THEN IF backend = "uvc" THEN MapLinuxExposureToK4a(u, hz60) ELSE MapMfExponentToK4a(u, hz60)
  ELSE IF c = EXPOSURE_PRIORITY THEN 0
  ELSE u

CapabilitiesRead(c, k) ==
  /\ k.hz60 \in BOOLEAN
  /\ k.minValue = Shown(c, DeviceRange(c).min, k.hz60)
  /\ k.maxValue = Shown(c, DeviceRange(c).max, k.hz60)
  /\ c \in WithMode => k.supportAuto

ControlTypeOK ==
  /\ used \in Programs
  /\ backend \in {"uvc", "mf"}
  /\ m_using_60hz_power \in BOOLEAN
  /\ device \in [Commands -> [mode : {MODE_AUTO, MODE_MANUAL}, value : Int]]
  /\ DOMAIN control_cap = Commands
  /\ DOMAIN asked = Commands

DeviceInv ==
  \A c \in Commands :
    /\ Accepts(c, device[c].value)
    /\ c \notin WithMode => device[c].mode = MODE_MANUAL

AskedOK(c) ==
  asked[c] # Unset =>
    /\ c # EXPOSURE_PRIORITY
    /\ asked[c] \in Int
    /\ device[c].mode = MODE_MANUAL
    /\ device[c].value = Units(c, asked[c])
    /\ c = POWERLINE_FREQUENCY => (m_using_60hz_power <=> asked[c] = 2)

AskedInv == \A c \in Commands : AskedOK(c)

CapInv == \A c \in Commands : control_cap[c] # Unset => CapabilitiesRead(c, control_cap[c])

ControlInv == ControlTypeOK /\ DeviceInv /\ AskedInv /\ CapInv

-----------------------------------------------------------------------------
(* What reading and asking for capabilities come to.                       *)

LEMMA Kinds ==
  ASSUME NEW c \in Commands
  PROVE  \/ c = EXPOSURE_TIME
         \/ c = WHITEBALANCE
         \/ c = POWERLINE_FREQUENCY
         \/ c = EXPOSURE_PRIORITY
         \/ c \in Processing
         \/ c \in Sensor
BY CommandsAssumption DEF AllCommands

LEMMA KindsDiffer ==
  /\ EXPOSURE_TIME # WHITEBALANCE
  /\ EXPOSURE_TIME # POWERLINE_FREQUENCY
  /\ EXPOSURE_TIME # EXPOSURE_PRIORITY
  /\ WHITEBALANCE # POWERLINE_FREQUENCY
  /\ WHITEBALANCE # EXPOSURE_PRIORITY
  /\ POWERLINE_FREQUENCY # EXPOSURE_PRIORITY
  /\ BRIGHTNESS \in Processing
  /\ \A c \in Processing \cup Sensor :
       /\ c # EXPOSURE_TIME
       /\ c # WHITEBALANCE
       /\ c # POWERLINE_FREQUENCY
       /\ c # EXPOSURE_PRIORITY
  /\ Processing \cap Sensor = {}
  /\ POWERLINE_FREQUENCY \notin Processing
  /\ MODE_AUTO # MODE_MANUAL
BY DEF Processing, Sensor, EXPOSURE_TIME, WHITEBALANCE, EXPOSURE_PRIORITY, POWERLINE_FREQUENCY,
       BRIGHTNESS, MODE_AUTO, MODE_MANUAL

LEMMA UvcReads ==
  ASSUME NEW c \in Commands
  PROVE  \/ c = EXPOSURE_TIME /\ UvcGetCameraControl(c) = UvcGetExposure
         \/ c = WHITEBALANCE /\ UvcGetCameraControl(c) = device[c]
         \/ c = EXPOSURE_PRIORITY /\ UvcGetCameraControl(c) = PriorityValue
         \/ /\ c \notin {EXPOSURE_TIME, WHITEBALANCE, EXPOSURE_PRIORITY}
            /\ UvcGetCameraControl(c) = [mode |-> MODE_MANUAL, value |-> device[c].value]
<1>1. CASE c = EXPOSURE_TIME
  BY <1>1, KindsDiffer DEF UvcGetCameraControl
<1>2. CASE c = WHITEBALANCE
  BY <1>2, KindsDiffer DEF UvcGetCameraControl, UvcGetWhiteBalance
<1>3. CASE c = EXPOSURE_PRIORITY
  BY <1>3, KindsDiffer DEF UvcGetCameraControl
<1>4. CASE c \in Processing
  BY <1>4, KindsDiffer DEF UvcGetCameraControl, UvcGetProcessing
<1>5. CASE c \in Sensor \/ c = POWERLINE_FREQUENCY
  BY <1>5, KindsDiffer DEF UvcGetCameraControl, UvcGetSensor
<1> QED
  BY <1>1, <1>2, <1>3, <1>4, <1>5, Kinds

LEMMA MfReads ==
  ASSUME NEW c \in Commands, device[c] \in [mode : {MODE_AUTO, MODE_MANUAL}, value : Int]
  PROVE  \/ /\ c = EXPOSURE_TIME
            /\ MfGetCameraControl(c).mode = device[c].mode
            /\ MfGetCameraControl(c).value = MapMfExponentToK4a(device[c].value, m_using_60hz_power)
         \/ c = EXPOSURE_PRIORITY /\ MfGetCameraControl(c) = PriorityValue
         \/ c \notin {EXPOSURE_TIME, EXPOSURE_PRIORITY} /\ MfGetCameraControl(c) = device[c]
<1>1. CASE c = EXPOSURE_TIME
  <2>1. PICK usec : usec = MapMfExponentToK4a(device[c].value, m_using_60hz_power)
    OBVIOUS
  <2>2. MfGetCameraControl(c) = [device[c] EXCEPT !.value = usec]
    BY <1>1, <2>1, KindsDiffer DEF MfGetCameraControl, GetCameraControlValue
  <2> QED
    BY <1>1, <2>1, <2>2
<1>2. CASE c = EXPOSURE_PRIORITY
  BY <1>2, KindsDiffer DEF MfGetCameraControl
<1>3. CASE c \notin {EXPOSURE_TIME, EXPOSURE_PRIORITY}
  BY <1>3 DEF MfGetCameraControl, GetCameraControlValue
<1> QED
  BY <1>1, <1>2, <1>3

LEMMA ControlRead ==
  ASSUME ControlInv, NEW c \in Commands
  PROVE  /\ color_get_control(c).mode = device[c].mode
         /\ color_get_control(c).value = Shown(c, device[c].value, m_using_60hz_power)
<1>1. device[c] \in [mode : {MODE_AUTO, MODE_MANUAL}, value : Int]
  BY DEF ControlInv, ControlTypeOK
<1>2. c \notin WithMode => device[c].mode = MODE_MANUAL
  BY DEF ControlInv, DeviceInv
<1>3. c = EXPOSURE_PRIORITY => device[c].mode = MODE_MANUAL
  BY <1>2, KindsDiffer DEF WithMode
<1>4. CASE backend = "uvc"
  <2>1. color_get_control(c) = UvcGetCameraControl(c)
    BY <1>4 DEF color_get_control
  <2>2. CASE c = EXPOSURE_TIME
    <3>1. color_get_control(c) = UvcGetExposure
      BY <2>1, <2>2, UvcReads, KindsDiffer
    <3>2. /\ UvcGetExposure.mode = device[c].mode
          /\ UvcGetExposure.value = MapLinuxExposureToK4a(device[c].value, m_using_60hz_power)
      BY <2>2 DEF UvcGetExposure
    <3> QED
      BY <1>4, <2>2, <3>1, <3>2 DEF Shown
  <2>3. CASE c # EXPOSURE_TIME
    <3>1. CASE c = EXPOSURE_PRIORITY
      BY <1>3, <2>1, <2>3, <3>1, UvcReads, KindsDiffer DEF PriorityValue, Shown
    <3>2. CASE c = WHITEBALANCE
      BY <2>1, <2>3, <3>2, UvcReads, KindsDiffer DEF Shown
    <3>3. CASE c \notin {EXPOSURE_TIME, WHITEBALANCE, EXPOSURE_PRIORITY}
      <4>1. color_get_control(c) = [mode |-> MODE_MANUAL, value |-> device[c].value]
        BY <2>1, <3>3, UvcReads
      <4>2. device[c].mode = MODE_MANUAL
        BY <1>2, <3>3 DEF WithMode
      <4> QED
        BY <3>3, <4>1, <4>2 DEF Shown
    <3> QED
      BY <2>3, <3>1, <3>2, <3>3
  <2> QED
    BY <2>2, <2>3
<1>5. CASE backend # "uvc"
  <2>1. color_get_control(c) = MfGetCameraControl(c)
    BY <1>5 DEF color_get_control
  <2>2. CASE c = EXPOSURE_TIME
    BY <1>1, <1>5, <2>1, <2>2, MfReads, KindsDiffer DEF Shown
  <2>3. CASE c # EXPOSURE_TIME
    BY <1>1, <1>3, <2>1, <2>3, MfReads DEF PriorityValue, Shown
  <2> QED
    BY <2>2, <2>3
<1> QED
  BY <1>4, <1>5

LEMMA CapabilitiesAre ==
  ASSUME ControlTypeOK, NEW c \in Commands
  PROVE  CapabilitiesRead(c, IF backend = "uvc" THEN UvcCapabilities(c) ELSE MfCapabilities(c))
<1>1. PICK k : k = IF backend = "uvc" THEN UvcCapabilities(c) ELSE MfCapabilities(c)
  OBVIOUS
<1> SUFFICES CapabilitiesRead(c, k)
  BY <1>1
<1>2. m_using_60hz_power \in BOOLEAN
  BY DEF ControlTypeOK
<1>3. ASSUME NEW auto, NEW min, NEW max, k = Capabilities(auto, min, max),
             min = Shown(c, DeviceRange(c).min, m_using_60hz_power),
             max = Shown(c, DeviceRange(c).max, m_using_60hz_power),
             c \in WithMode => auto
      PROVE  CapabilitiesRead(c, k)
  BY <1>2, <1>3 DEF Capabilities, CapabilitiesRead
<1>4. c = EXPOSURE_TIME \/ c = WHITEBALANCE \/ c \notin WithMode
  BY DEF WithMode
<1>5. CASE backend = "uvc"
  <2>1. k = UvcCapabilities(c)
    BY <1>1, <1>5
  <2>2. CASE c = EXPOSURE_TIME
    <3>1. k = Capabilities(TRUE, Shown(c, DeviceRange(c).min, m_using_60hz_power),
                                 Shown(c, DeviceRange(c).max, m_using_60hz_power))
      BY <1>5, <2>1, <2>2, KindsDiffer DEF UvcCapabilities, UvcCapExposure, Shown
    <3> QED
      BY <1>3, <3>1
  <2>3. CASE c = EXPOSURE_PRIORITY
    <3>1. k = Capabilities(FALSE, 0, 0) /\ c \notin WithMode
      BY <2>1, <2>3, KindsDiffer DEF UvcCapabilities, CapPriority, WithMode
    <3>2. /\ Shown(c, DeviceRange(c).min, m_using_60hz_power) = 0
          /\ Shown(c, DeviceRange(c).max, m_using_60hz_power) = 0
      BY <2>3, KindsDiffer DEF Shown
    <3> QED
      BY <1>3, <3>1, <3>2
  <2>4. CASE c \notin {EXPOSURE_TIME, EXPOSURE_PRIORITY}
    <3>1. k = Capabilities(c = WHITEBALANCE, Limits[c].min, Limits[c].max)
      BY <2>1, <2>4, Kinds, KindsDiffer DEF UvcCapabilities, UvcCapProcessing, UvcCapSensor,
         UvcCapWhiteBalance, UvcCapPowerLine
    <3>2. /\ Shown(c, DeviceRange(c).min, m_using_60hz_power) = Limits[c].min
          /\ Shown(c, DeviceRange(c).max, m_using_60hz_power) = Limits[c].max
      BY <2>4 DEF Shown, DeviceRange
    <3> QED
      BY <1>3, <1>4, <2>4, <3>1, <3>2
  <2> QED
    BY <2>2, <2>3, <2>4
<1>6. CASE backend # "uvc"
  <2>1. k = MfCapabilities(c)
    BY <1>1, <1>6
  <2>2. CASE c = EXPOSURE_TIME
    <3>1. k = Capabilities(c \in WithMode, Shown(c, DeviceRange(c).min, m_using_60hz_power),
                                           Shown(c, DeviceRange(c).max, m_using_60hz_power))
      BY <1>6, <2>1, <2>2, KindsDiffer DEF MfCapabilities, GetCameraControlCap, Shown
    <3> QED
      BY <1>3, <3>1
  <2>3. CASE c = EXPOSURE_PRIORITY
    <3>1. k = Capabilities(FALSE, 0, 0) /\ c \notin WithMode
      BY <2>1, <2>3, KindsDiffer DEF MfCapabilities, CapPriority, WithMode
    <3>2. /\ Shown(c, DeviceRange(c).min, m_using_60hz_power) = 0
          /\ Shown(c, DeviceRange(c).max, m_using_60hz_power) = 0
      BY <2>3, KindsDiffer DEF Shown
    <3> QED
      BY <1>3, <3>1, <3>2
  <2>4. CASE c \notin {EXPOSURE_TIME, EXPOSURE_PRIORITY}
    <3>1. k = Capabilities(c \in WithMode, DeviceRange(c).min, DeviceRange(c).max)
      BY <2>1, <2>4 DEF MfCapabilities, GetCameraControlCap
    <3>2. /\ Shown(c, DeviceRange(c).min, m_using_60hz_power) = DeviceRange(c).min
          /\ Shown(c, DeviceRange(c).max, m_using_60hz_power) = DeviceRange(c).max
      BY <2>4 DEF Shown
    <3> QED
      BY <1>3, <3>1, <3>2
  <2> QED
    BY <2>2, <2>3, <2>4
<1> QED
  BY <1>5, <1>6

LEMMA DeviceRangeType ==
  ASSUME backend \in {"uvc", "mf"}, NEW c \in Commands
  PROVE  /\ DeviceRange(c).min \in Int
         /\ DeviceRange(c).max \in Int
         /\ DeviceRange(c).min <= DeviceRange(c).max
BY CommandsAssumption DEF DeviceRange, Exponent

LEMMA ShownIncreases ==
  ASSUME backend \in {"uvc", "mf"}, NEW c \in Commands, NEW hz60 \in BOOLEAN,
         NEW a \in Int, NEW b \in Int,
         DeviceRange(c).min <= a, a <= b, b <= DeviceRange(c).max
  PROVE  Shown(c, a, hz60) <= Shown(c, b, hz60)
<1>1. CASE c = EXPOSURE_TIME /\ backend = "uvc"
  BY <1>1, LinuxIncreases DEF Shown
<1>2. CASE c = EXPOSURE_TIME /\ backend # "uvc"
  <2>1. Exponent(1) <= a /\ b <= Exponent(13)
    BY <1>2 DEF DeviceRange
  <2> QED
    BY <1>2, <2>1, MfIncreases DEF Shown
<1>3. CASE c # EXPOSURE_TIME
  BY <1>3 DEF Shown
<1> QED
  BY <1>1, <1>2, <1>3

LEMMA ReadsWithin == ControlInv => WithinCapabilities
<1>1. SUFFICES ASSUME ControlInv, NEW c \in Commands, control_cap[c] # Unset,
                      control_cap[c].hz60 = m_using_60hz_power
               PROVE  /\ control_cap[c].minValue <= color_get_control(c).value
                      /\ color_get_control(c).value <= control_cap[c].maxValue
                      /\ color_get_control(c).mode = MODE_AUTO => control_cap[c].supportAuto
  BY DEF WithinCapabilities
<1>2. CapabilitiesRead(c, control_cap[c])
  BY <1>1 DEF ControlInv, CapInv
<1>3. /\ backend \in {"uvc", "mf"}
      /\ m_using_60hz_power \in BOOLEAN
      /\ device[c].value \in Int
  BY <1>1 DEF ControlInv, ControlTypeOK
<1>4. PICK u : u = device[c].value
  OBVIOUS
<1>5. DeviceRange(c).min <= u /\ u <= DeviceRange(c).max
  BY <1>1, <1>4 DEF ControlInv, DeviceInv, Accepts
<1>6. DeviceRange(c).min \in Int /\ DeviceRange(c).max \in Int
  BY <1>3, DeviceRangeType
<1>7. DeviceRange(c).min <= DeviceRange(c).min /\ DeviceRange(c).max <= DeviceRange(c).max
  BY <1>6
<1>8. /\ Shown(c, DeviceRange(c).min, m_using_60hz_power) <= Shown(c, u, m_using_60hz_power)
      /\ Shown(c, u, m_using_60hz_power) <= Shown(c, DeviceRange(c).max, m_using_60hz_power)
  BY <1>3, <1>4, <1>5, <1>6, <1>7, ShownIncreases
<1>9. /\ color_get_control(c).mode = device[c].mode
      /\ color_get_control(c).value = Shown(c, u, m_using_60hz_power)
  BY <1>1, <1>4, ControlRead
<1>10. device[c].mode = MODE_AUTO => c \in WithMode
  BY <1>1 DEF ControlInv, DeviceInv, MODE_AUTO, MODE_MANUAL
<1> QED
  BY <1>1, <1>2, <1>8, <1>9, <1>10 DEF CapabilitiesRead

LEMMA ReadsWhatWasSet == ControlInv => ReadBack
<1>1. SUFFICES ASSUME ControlInv, NEW c \in Commands, Known(c)
               PROVE  /\ color_get_control(c).mode = MODE_MANUAL
                      /\ c # EXPOSURE_TIME => color_get_control(c).value = asked[c]
                      /\ c = EXPOSURE_TIME /\ Known(POWERLINE_FREQUENCY) =>
                           IsNearest(color_get_control(c).value, asked[c], PowerLineIs60Hz)
  BY DEF ReadBack
<1>2. /\ backend \in {"uvc", "mf"}
      /\ m_using_60hz_power \in BOOLEAN
  BY <1>1 DEF ControlInv, ControlTypeOK
<1>3. /\ c # EXPOSURE_PRIORITY
      /\ asked[c] \in Int
      /\ device[c].mode = MODE_MANUAL
      /\ device[c].value = Units(c, asked[c])
  BY <1>1 DEF ControlInv, AskedInv, AskedOK, Known
<1>4. /\ color_get_control(c).mode = device[c].mode
      /\ color_get_control(c).value = Shown(c, device[c].value, m_using_60hz_power)
  BY <1>1, ControlRead
<1>5. ASSUME NEW d \in Commands, d # EXPOSURE_TIME, Known(d) PROVE Units(d, asked[d]) = asked[d]
  BY <1>5 DEF Known, Fits, Units, EXPOSURE_TIME, POWERLINE_FREQUENCY, BRIGHTNESS
<1>6. CASE c # EXPOSURE_TIME
  BY <1>1, <1>3, <1>4, <1>5, <1>6 DEF Shown
<1>7. CASE c = EXPOSURE_TIME
  <2>1. IsNearest(color_get_control(c).value, asked[c], m_using_60hz_power)
    BY <1>2, <1>3, <1>4, <1>7, LinuxShowsNearest, MfShowsNearest DEF Shown, Units
  <2>2. ASSUME Known(POWERLINE_FREQUENCY) PROVE PowerLineIs60Hz <=> m_using_60hz_power
    <3>1. POWERLINE_FREQUENCY \in Commands /\ POWERLINE_FREQUENCY # EXPOSURE_TIME
      BY <2>2 DEF Known, POWERLINE_FREQUENCY, EXPOSURE_TIME
    <3>2. /\ device[POWERLINE_FREQUENCY].value = Units(POWERLINE_FREQUENCY, asked[POWERLINE_FREQUENCY])
          /\ m_using_60hz_power <=> asked[POWERLINE_FREQUENCY] = 2
      BY <1>1, <2>2, <3>1 DEF ControlInv, AskedInv, AskedOK, Known
    <3> QED
      BY <1>5, <2>2, <3>1, <3>2 DEF PowerLineIs60Hz
  <2>3. ASSUME Known(POWERLINE_FREQUENCY) PROVE PowerLineIs60Hz = m_using_60hz_power
    BY <1>2, <2>2, <2>3 DEF PowerLineIs60Hz
  <2> QED
    BY <1>3, <1>4, <1>7, <2>1, <2>3
<1> QED
  BY <1>6, <1>7

-----------------------------------------------------------------------------
(* What setting comes to: nothing, the mode alone, or mode and value.      *)

DeviceSet(c, mode, u) == device' = [device EXCEPT ![c] = [mode |-> mode, value |-> u]]

Sets(c, mode, v) ==
  \/ /\ c = EXPOSURE_PRIORITY
     /\ UNCHANGED <<device, m_using_60hz_power>>
     /\ Succeeds(c, mode, Unset)
  \/ /\ c \in WithMode
     /\ DeviceSet(c, MODE_MANUAL, device[c].value)
     /\ UNCHANGED <<m_using_60hz_power, asked>>
  \/ /\ c \in WithMode
     /\ \E u \in Int : Accepts(c, u) /\ DeviceSet(c, MODE_AUTO, u)
     /\ Succeeds(c, MODE_AUTO, v)
     /\ UNCHANGED m_using_60hz_power
  \/ /\ c # EXPOSURE_PRIORITY
     /\ Accepts(c, Units(c, v))
     /\ DeviceSet(c, MODE_MANUAL, Units(c, v))
     /\ Succeeds(c, MODE_MANUAL, v)
     /\ m_using_60hz_power' = IF c = POWERLINE_FREQUENCY THEN v = 2 ELSE m_using_60hz_power

LEMMA UnitsType ==
  ASSUME ControlTypeOK, NEW c \in Commands, NEW v \in Int
  PROVE  Units(c, v) \in Int
<1>1. backend \in {"uvc", "mf"} /\ m_using_60hz_power \in BOOLEAN
  BY DEF ControlTypeOK
<1>2. CASE c # EXPOSURE_TIME
  <2>1. 2^16 = 65536 /\ 2^15 = 32768 /\ 2^8 = 256
    BY SMT
  <2> QED
    BY <1>2, <2>1 DEF Units, Uint8, Uint16, Int16
<1>3. CASE c = EXPOSURE_TIME
  <2>1. 13 \in Rows /\ Column(m_using_60hz_power)[13] \in Nat
    BY <1>1, ColumnType DEF Rows
  <2>2. PICK x : x = FirstRow(v, m_using_60hz_power)
    OBVIOUS
  <2>3. v <= MAX_EXPOSURE(m_using_60hz_power) =>
          x \in Rows /\ Column(m_using_60hz_power)[x] \in Nat
    BY <1>1, <2>2, FirstRowIs, ColumnType
  <2>4. MapK4aExposureToLinux(v, m_using_60hz_power) \in Int
    BY <2>1, <2>2, <2>3 DEF MapK4aExposureToLinux, MAX_EXPOSURE, CONV_100USEC_TO_USEC
  <2>5. MapK4aExposureToMf(v, m_using_60hz_power) \in Int
    BY <2>2, <2>3 DEF MapK4aExposureToMf, Exponent, Rows
  <2> QED
    BY <1>3, <2>4, <2>5 DEF Units
<1> QED
  BY <1>2, <1>3

LEMMA DeviceFields ==
  ASSUME ControlTypeOK, NEW c \in Commands
  PROVE  /\ device[c].value \in Int
         /\ \A m : [device EXCEPT ![c].mode = m]
                     = [device EXCEPT ![c] = [mode |-> m, value |-> device[c].value]]
         /\ \A u : device[c].mode = MODE_MANUAL =>
               [device EXCEPT ![c].value = u]
                  = [device EXCEPT ![c] = [mode |-> MODE_MANUAL, value |-> u]]
<1>1. /\ device \in [Commands -> [mode : {MODE_AUTO, MODE_MANUAL}, value : Int]]
      /\ device[c] \in [mode : {MODE_AUTO, MODE_MANUAL}, value : Int]
  BY DEF ControlTypeOK
<1>2. ASSUME NEW m PROVE [device[c] EXCEPT !.mode = m] = [mode |-> m, value |-> device[c].value]
  BY <1>1
<1>3. ASSUME NEW u, device[c].mode = MODE_MANUAL
      PROVE  [device[c] EXCEPT !.value = u] = [mode |-> MODE_MANUAL, value |-> u]
  BY <1>1, <1>3
<1> QED
  BY <1>1, <1>2, <1>3

LEMMA UvcSetsWithMode ==
  ASSUME ControlInv, NEW c \in WithMode, c \in Commands, NEW mode, NEW v,
         UvcSetWithMode(c, mode, v, Units(c, v)), UNCHANGED m_using_60hz_power
  PROVE  Sets(c, mode, v)
<1>1. ControlTypeOK /\ Accepts(c, device[c].value)
  BY DEF ControlInv, DeviceInv
<1>2. c # EXPOSURE_PRIORITY /\ c # POWERLINE_FREQUENCY
  BY KindsDiffer DEF WithMode
<1>3. device[c].value \in Int
  BY <1>1, DeviceFields
<1>4. CASE device' = [device EXCEPT ![c].mode = MODE_MANUAL] /\ UNCHANGED asked
  BY <1>1, <1>4, DeviceFields DEF Sets, DeviceSet
<1>5. CASE /\ mode = MODE_MANUAL
           /\ Accepts(c, Units(c, v))
           /\ DeviceSet(c, MODE_MANUAL, Units(c, v))
           /\ Succeeds(c, mode, v)
  BY <1>2, <1>5 DEF Sets
<1>6. CASE /\ mode = MODE_AUTO
           /\ device' = [device EXCEPT ![c].mode = MODE_AUTO]
           /\ Succeeds(c, mode, v)
  <2>1. DeviceSet(c, MODE_AUTO, device[c].value)
    BY <1>1, <1>6, DeviceFields DEF DeviceSet
  <2> QED
    BY <1>1, <1>3, <1>6, <2>1 DEF Sets
<1> QED
  BY <1>4, <1>5, <1>6 DEF UvcSetWithMode, DeviceSet

LEMMA UvcSetsPlain ==
  ASSUME ControlInv, NEW c \in Commands, c \notin WithMode, c # EXPOSURE_PRIORITY,
         NEW mode, NEW v, UvcSetPlain(c, mode, v, Units(c, v)),
         m_using_60hz_power' = IF c = POWERLINE_FREQUENCY THEN v = 2 ELSE m_using_60hz_power
  PROVE  Sets(c, mode, v)
<1>1. ControlTypeOK /\ device[c].mode = MODE_MANUAL
  BY DEF ControlInv, DeviceInv
<1>2. DeviceSet(c, MODE_MANUAL, Units(c, v))
  BY <1>1, DeviceFields DEF UvcSetPlain, DeviceSet
<1> QED
  BY <1>2 DEF Sets, UvcSetPlain

LEMMA UvcSets ==
  ASSUME ControlInv, backend = "uvc", NEW c \in Commands, NEW mode, NEW v \in Int,
         UvcSetCameraControl(c, mode, v)
  PROVE  Sets(c, mode, v)
<1>1. CASE c = EXPOSURE_TIME
  <2>1. UvcSetExposure(mode, v) /\ c \in WithMode
    BY <1>1, KindsDiffer DEF UvcSetCameraControl, WithMode
  <2>2. Units(c, v) = MapK4aExposureToLinux(v, m_using_60hz_power)
    BY <1>1 DEF Units
  <2> QED
    BY <1>1, <2>1, <2>2, UvcSetsWithMode DEF UvcSetExposure
<1>2. CASE c = WHITEBALANCE
  <2>1. UvcSetWhiteBalance(mode, v) /\ c \in WithMode
    BY <1>2, KindsDiffer DEF UvcSetCameraControl, WithMode
  <2>2. Units(c, v) = Uint16(v)
    BY <1>2, KindsDiffer DEF Units
  <2> QED
    BY <1>2, <2>1, <2>2, UvcSetsWithMode DEF UvcSetWhiteBalance
<1>3. CASE c = POWERLINE_FREQUENCY
  <2>1. UvcSetPowerLine(mode, v) /\ c \notin WithMode /\ c # EXPOSURE_PRIORITY
    BY <1>3, KindsDiffer DEF UvcSetCameraControl, WithMode
  <2>2. Units(c, v) = Uint8(v)
    BY <1>3, KindsDiffer DEF Units
  <2> QED
    BY <1>3, <2>1, <2>2, UvcSetsPlain DEF UvcSetPowerLine, Uses60Hz
<1>4. CASE c = EXPOSURE_PRIORITY
  <2>1. SetPriority(mode, v)
    BY <1>4, KindsDiffer DEF UvcSetCameraControl
  <2> QED
    BY <1>4, <2>1 DEF SetPriority, Sets
<1>5. CASE c \in Processing
  <2>1. UvcSetProcessing(c, mode, v) /\ c \notin WithMode /\ c # EXPOSURE_PRIORITY
    BY <1>5, KindsDiffer DEF UvcSetCameraControl, WithMode
  <2>2. /\ Units(c, v) = IF c = BRIGHTNESS THEN Int16(v) ELSE Uint16(v)
        /\ c # POWERLINE_FREQUENCY
    BY <1>5, KindsDiffer DEF Units
  <2> QED
    BY <2>1, <2>2, UvcSetsPlain DEF UvcSetProcessing
<1>6. CASE c \in Sensor
  <2>1. UvcSetSensor(c, mode, v) /\ c \notin WithMode /\ c # EXPOSURE_PRIORITY
    BY <1>6, KindsDiffer DEF UvcSetCameraControl, WithMode
  <2>2. Units(c, v) = Uint16(v) /\ c # POWERLINE_FREQUENCY
    BY <1>6, KindsDiffer DEF Units
  <2> QED
    BY <2>1, <2>2, UvcSetsPlain DEF UvcSetSensor
<1> QED
  BY <1>1, <1>2, <1>3, <1>4, <1>5, <1>6, Kinds

LEMMA MfSets ==
  ASSUME ControlInv, backend = "mf", NEW c \in Commands, NEW mode \in {MODE_AUTO, MODE_MANUAL},
         NEW v \in Int, MfSetCameraControl(c, mode, v)
  PROVE  Sets(c, mode, v)
<1>1. CASE c = EXPOSURE_PRIORITY
  BY <1>1 DEF MfSetCameraControl, SetPriority, Sets
<1>2. CASE c # EXPOSURE_PRIORITY
  <2>1. Units(c, v) = IF c = EXPOSURE_TIME THEN MapK4aExposureToMf(v, m_using_60hz_power) ELSE v
    BY DEF Units
  <2>2. /\ mode = MODE_AUTO => c \in WithMode
        /\ Accepts(c, Units(c, v))
        /\ DeviceSet(c, mode, Units(c, v))
        /\ m_using_60hz_power' = IF c = POWERLINE_FREQUENCY THEN v = 2 ELSE m_using_60hz_power
        /\ Succeeds(c, mode, v)
    BY <1>2, <2>1 DEF MfSetCameraControl, SetCameraControlValue, DeviceSet, Uses60Hz
  <2>3. Units(c, v) \in Int
    BY UnitsType DEF ControlInv
  <2>4. CASE mode = MODE_MANUAL
    BY <1>2, <2>2, <2>4 DEF Sets
  <2>5. CASE mode = MODE_AUTO
    <3>1. c \in WithMode /\ c # POWERLINE_FREQUENCY
      BY <2>2, <2>5, KindsDiffer DEF WithMode
    <3> QED
      BY <2>2, <2>3, <2>5, <3>1 DEF Sets
  <2> QED
    BY <2>4, <2>5
<1> QED
  BY <1>1, <1>2

-----------------------------------------------------------------------------
(* Every step keeps the invariant.                                         *)

LEMMA RangeKept ==
  ASSUME UNCHANGED backend
  PROVE  /\ \A c, u : Accepts(c, u)' <=> Accepts(c, u)
         /\ \A c, k : CapabilitiesRead(c, k)' <=> CapabilitiesRead(c, k)
<1>1. \A c : DeviceRange(c)' = DeviceRange(c)
  BY DEF DeviceRange
<1>2. \A c, u, h : Shown(c, u, h)' = Shown(c, u, h)
  BY DEF Shown
<1> QED
  BY <1>1, <1>2 DEF Accepts, CapabilitiesRead

LEMMA CapKept ==
  ASSUME CapInv, UNCHANGED <<backend, control_cap>>
  PROVE  CapInv'
<1>1. \A c, k : CapabilitiesRead(c, k)' <=> CapabilitiesRead(c, k)
  BY RangeKept
<1>2. SUFFICES ASSUME NEW c \in Commands, control_cap'[c] # Unset
               PROVE  CapabilitiesRead(c, control_cap[c])'
  BY DEF CapInv
<1>3. PICK k : k = control_cap[c]
  OBVIOUS
<1>4. CapabilitiesRead(c, k)
  BY <1>2, <1>3 DEF CapInv
<1>5. CapabilitiesRead(c, k)'
  BY <1>1, <1>4
<1> QED
  BY <1>3, <1>5 DEF CapabilitiesRead

LEMMA UnitsKept ==
  ASSUME NEW c, NEW v, UNCHANGED backend, c # EXPOSURE_TIME \/ UNCHANGED m_using_60hz_power
  PROVE  Units(c, v)' = Units(c, v)
BY DEF Units

LEMMA AskedStays ==
  ASSUME AskedInv, UNCHANGED backend, NEW x \in Commands,
         asked'[x] = asked[x], asked[x] # Unset => device'[x] = device[x],
         \/ UNCHANGED m_using_60hz_power
         \/ x # EXPOSURE_TIME /\ x # POWERLINE_FREQUENCY
  PROVE  AskedOK(x)'
<1>1. SUFFICES ASSUME asked[x] # Unset PROVE AskedOK(x)'
  BY DEF AskedOK
<1>2. /\ x # EXPOSURE_PRIORITY
      /\ asked[x] \in Int
      /\ device[x].mode = MODE_MANUAL
      /\ device[x].value = Units(x, asked[x])
      /\ x = POWERLINE_FREQUENCY => (m_using_60hz_power <=> asked[x] = 2)
  BY <1>1 DEF AskedInv, AskedOK
<1>3. PICK v : v = asked[x]
  OBVIOUS
<1>4. Units(x, v)' = Units(x, v)
  BY UnitsKept
<1>5. Units(x, asked[x])' = Units(x, v)'
  BY <1>3 DEF Units
<1> QED
  BY <1>1, <1>2, <1>3, <1>4, <1>5 DEF AskedOK

LEMMA SetDevice ==
  ASSUME ControlTypeOK, NEW c \in Commands, NEW mode \in {MODE_AUTO, MODE_MANUAL}, NEW u \in Int,
         DeviceSet(c, mode, u)
  PROVE  /\ device' \in [Commands -> [mode : {MODE_AUTO, MODE_MANUAL}, value : Int]]
         /\ device'[c].mode = mode /\ device'[c].value = u
         /\ \A x \in Commands : x # c => device'[x] = device[x]
<1>1. device \in [Commands -> [mode : {MODE_AUTO, MODE_MANUAL}, value : Int]]
  BY DEF ControlTypeOK
<1>2. PICK r : r = [mode |-> mode, value |-> u]
  OBVIOUS
<1>3. r \in [mode : {MODE_AUTO, MODE_MANUAL}, value : Int] /\ r.mode = mode /\ r.value = u
  BY <1>2
<1>4. device' = [device EXCEPT ![c] = r]
  BY <1>2 DEF DeviceSet
<1> QED
  BY <1>1, <1>3, <1>4

(* A device that was told mode and value of one control.                   *)
LEMMA SetDeviceKeeps ==
  ASSUME ControlInv, NEW c \in Commands, NEW mode \in {MODE_AUTO, MODE_MANUAL}, NEW u \in Int,
         Accepts(c, u), mode = MODE_AUTO => c \in WithMode,
         DeviceSet(c, mode, u), UNCHANGED backend
  PROVE  DeviceInv'
<1>1. SUFFICES ASSUME NEW x \in Commands
               PROVE  /\ Accepts(x, device[x].value)'
                      /\ x \notin WithMode => device'[x].mode = MODE_MANUAL
  BY DEF DeviceInv
<1>2. /\ device'[c].mode = mode /\ device'[c].value = u
      /\ x # c => device'[x] = device[x]
  BY SetDevice DEF ControlInv
<1>3. PICK w : w = device'[x].value
  OBVIOUS
<1>4. /\ Accepts(x, device[x].value)
      /\ x \notin WithMode => device[x].mode = MODE_MANUAL
  BY DEF ControlInv, DeviceInv
<1>5. Accepts(x, w)
  BY <1>2, <1>3, <1>4
<1>6. Accepts(x, w)'
  BY <1>5, RangeKept
<1>7. Accepts(x, device[x].value)'
  BY <1>3, <1>6 DEF Accepts
<1> QED
  BY <1>2, <1>4, <1>7

LEMMA SetsKeep ==
  ASSUME ControlInv, NEW c \in Commands, NEW mode \in {MODE_AUTO, MODE_MANUAL}, NEW v \in Int,
         Sets(c, mode, v), UNCHANGED <<used, backend, control_cap>>
  PROVE  ControlInv'
<1>1. ControlTypeOK /\ DeviceInv /\ AskedInv /\ CapInv
  BY DEF ControlInv
<1>2. CapInv'
  BY <1>1, CapKept
<1>3. /\ used \in Programs /\ backend \in {"uvc", "mf"} /\ m_using_60hz_power \in BOOLEAN
      /\ device \in [Commands -> [mode : {MODE_AUTO, MODE_MANUAL}, value : Int]]
      /\ DOMAIN control_cap = Commands /\ DOMAIN asked = Commands
  BY <1>1 DEF ControlTypeOK
<1>4. \A m, w : Succeeds(c, m, w) =>
        /\ DOMAIN asked' = Commands
        /\ asked'[c] = IF m = MODE_MANUAL THEN w ELSE Unset
        /\ \A x \in Commands : x # c => \/ asked'[x] = asked[x]
                                       \/ asked'[x] = Unset
        /\ c = POWERLINE_FREQUENCY /\ EXPOSURE_TIME \in Commands => asked'[EXPOSURE_TIME] = Unset
  BY KindsDiffer DEF Succeeds
<1>5. \A x : asked'[x] = Unset => AskedOK(x)'
  BY DEF AskedOK
<1>6. CASE /\ c = EXPOSURE_PRIORITY
           /\ UNCHANGED <<device, m_using_60hz_power>>
           /\ Succeeds(c, mode, Unset)
  <2>1. ControlTypeOK'
    BY <1>3, <1>4, <1>6 DEF ControlTypeOK
  <2>2. DeviceInv'
    BY <1>1, <1>6 DEF DeviceInv, Accepts, DeviceRange
  <2>3. AskedInv'
    BY <1>1, <1>4, <1>5, <1>6, AskedStays DEF AskedInv
  <2> QED
    BY <1>2, <2>1, <2>2, <2>3 DEF ControlInv
<1>7. CASE /\ c \in WithMode
           /\ DeviceSet(c, MODE_MANUAL, device[c].value)
           /\ UNCHANGED <<m_using_60hz_power, asked>>
  <2>1. device[c].value \in Int /\ Accepts(c, device[c].value)
    BY <1>1, <1>3 DEF DeviceInv
  <2>2. PICK u : u = device[c].value
    OBVIOUS
  <2>3. u \in Int /\ Accepts(c, u) /\ DeviceSet(c, MODE_MANUAL, u)
    BY <1>7, <2>1, <2>2
  <2>4. /\ device' \in [Commands -> [mode : {MODE_AUTO, MODE_MANUAL}, value : Int]]
        /\ device'[c].mode = MODE_MANUAL /\ device'[c].value = u
        /\ \A x \in Commands : x # c => device'[x] = device[x]
    BY <1>1, <2>3, SetDevice
  <2>5. ControlTypeOK'
    BY <1>3, <1>7, <2>4 DEF ControlTypeOK
  <2>6. DeviceInv'
    BY <1>1, <2>3, SetDeviceKeeps, KindsDiffer DEF ControlInv
  <2>7. asked[c] # Unset => device'[c] = device[c]
    <3>1. SUFFICES ASSUME asked[c] # Unset PROVE device'[c] = device[c]
      OBVIOUS
    <3>2. device[c].mode = MODE_MANUAL
      BY <1>1, <3>1 DEF AskedInv, AskedOK
    <3>3. /\ device[c] \in [mode : {MODE_AUTO, MODE_MANUAL}, value : Int]
          /\ device'[c] \in [mode : {MODE_AUTO, MODE_MANUAL}, value : Int]
      BY <1>3, <2>4
    <3> QED
      BY <2>2, <2>4, <3>2, <3>3
  <2>8. AskedInv'
    BY <1>1, <1>7, <2>4, <2>7, AskedStays DEF AskedInv
  <2> QED
    BY <1>2, <2>5, <2>6, <2>8 DEF ControlInv
<1>8. CASE /\ c \in WithMode
           /\ \E u \in Int : Accepts(c, u) /\ DeviceSet(c, MODE_AUTO, u)
           /\ Succeeds(c, MODE_AUTO, v)
           /\ UNCHANGED m_using_60hz_power
  <2>1. PICK u \in Int : Accepts(c, u) /\ DeviceSet(c, MODE_AUTO, u)
    BY <1>8
  <2>2. /\ device' \in [Commands -> [mode : {MODE_AUTO, MODE_MANUAL}, value : Int]]
        /\ \A x \in Commands : x # c => device'[x] = device[x]
    BY <1>1, <2>1, SetDevice
  <2>3. ControlTypeOK'
    BY <1>3, <1>4, <1>8, <2>2 DEF ControlTypeOK
  <2>4. DeviceInv'
    BY <1>8, <2>1, SetDeviceKeeps
  <2>5. asked'[c] = Unset
    BY <1>4, <1>8, KindsDiffer
  <2>6. AskedInv'
    BY <1>1, <1>4, <1>5, <1>8, <2>2, <2>5, AskedStays DEF AskedInv
  <2> QED
    BY <1>2, <2>3, <2>4, <2>6 DEF ControlInv
<1>9. CASE /\ c # EXPOSURE_PRIORITY
           /\ Accepts(c, Units(c, v))
           /\ DeviceSet(c, MODE_MANUAL, Units(c, v))
           /\ Succeeds(c, MODE_MANUAL, v)
           /\ m_using_60hz_power' = IF c = POWERLINE_FREQUENCY THEN v = 2 ELSE m_using_60hz_power
  <2>1. PICK u : u = Units(c, v)
    OBVIOUS
  <2>2. u \in Int /\ Accepts(c, u) /\ DeviceSet(c, MODE_MANUAL, u)
    BY <1>1, <1>9, <2>1, UnitsType
  <2>3. /\ device' \in [Commands -> [mode : {MODE_AUTO, MODE_MANUAL}, value : Int]]
        /\ device'[c].mode = MODE_MANUAL /\ device'[c].value = u
        /\ \A x \in Commands : x # c => device'[x] = device[x]
    BY <1>1, <2>2, SetDevice
  <2>4. m_using_60hz_power' \in BOOLEAN
    BY <1>3, <1>9
  <2>5. ControlTypeOK'
    BY <1>3, <1>4, <1>9, <2>3, <2>4 DEF ControlTypeOK
  <2>6. DeviceInv'
    BY <2>2, SetDeviceKeeps, KindsDiffer
  <2>7. asked'[c] = v
    BY <1>4, <1>9
  <2>8. AskedOK(c)'
    <3>1. Units(c, v)' = Units(c, v)
      BY <1>9, UnitsKept, KindsDiffer
    <3>2. Units(c, asked[c])' = Units(c, v)'
      BY <2>7 DEF Units
    <3>3. c = POWERLINE_FREQUENCY => (m_using_60hz_power' <=> v = 2)
      BY <1>9
    <3> QED
      BY <1>9, <2>1, <2>3, <2>7, <3>1, <3>2, <3>3 DEF AskedOK
  <2>9. ASSUME NEW x \in Commands, x # c PROVE AskedOK(x)'
    <3>1. CASE asked'[x] = Unset
      BY <1>5, <3>1
    <3>2. CASE asked'[x] # Unset
      <4>1. asked'[x] = asked[x] /\ (c = POWERLINE_FREQUENCY => x # EXPOSURE_TIME)
        BY <1>4, <1>9, <2>9, <3>2
      <4>2. \/ UNCHANGED m_using_60hz_power
            \/ x # EXPOSURE_TIME /\ x # POWERLINE_FREQUENCY
        BY <1>9, <2>9, <4>1
      <4> QED
        BY <1>1, <2>3, <2>9, <4>1, <4>2, AskedStays
    <3> QED
      BY <3>1, <3>2
  <2>10. AskedInv'
    BY <2>8, <2>9 DEF AskedInv
  <2> QED
    BY <1>2, <2>5, <2>6, <2>10 DEF ControlInv
<1> QED
  BY <1>6, <1>7, <1>8, <1>9 DEF Sets

LEMMA ControlStarts == ControlInit => ControlInv
<1>1. SUFFICES ASSUME ControlInit PROVE ControlInv
  OBVIOUS
<1>2. backend \in {"uvc", "mf"} /\ used \in Programs
  BY <1>1 DEF ControlInit
<1>3. \A c \in Commands : asked[c] = Unset /\ control_cap[c] = Unset
  BY <1>1 DEF ControlInit, NoHandle
<1>4. ASSUME NEW c \in Commands
      PROVE  /\ device[c] \in [mode : {MODE_AUTO, MODE_MANUAL}, value : Int]
             /\ Accepts(c, device[c].value)
             /\ c \notin WithMode => device[c].mode = MODE_MANUAL
  <2>1. PICK m : m = IF c \in WithMode THEN MODE_AUTO ELSE MODE_MANUAL
    OBVIOUS
  <2>2. PICK u : u = DeviceRange(c).max
    OBVIOUS
  <2>3. u \in Int /\ DeviceRange(c).min <= u /\ u <= DeviceRange(c).max
    BY <1>2, <2>2, DeviceRangeType
  <2>4. device[c] = [mode |-> m, value |-> u]
    BY <1>1, <2>1, <2>2 DEF ControlInit
  <2> QED
    BY <2>1, <2>3, <2>4 DEF Accepts
<1>5. device \in [Commands -> [mode : {MODE_AUTO, MODE_MANUAL}, value : Int]]
  <2>1. device = [c \in Commands |-> device[c]]
    BY <1>1 DEF ControlInit
  <2> QED
    BY <1>4, <2>1
<1>6. ControlTypeOK
  BY <1>1, <1>5 DEF ControlInit, ControlTypeOK, NoHandle
<1> QED
  BY <1>3, <1>4, <1>6 DEF ControlInv, DeviceInv, AskedInv, AskedOK, CapInv

LEMMA ControlStep == ControlInv /\ [ControlNext]_controlVars => ControlInv'
<1>1. SUFFICES ASSUME ControlInv, [ControlNext]_controlVars PROVE ControlInv'
  OBVIOUS
<1>2. ControlTypeOK /\ DeviceInv /\ AskedInv /\ CapInv
  BY <1>1 DEF ControlInv
<1>3. used \subseteq Commands
  BY <1>2, CommandsAssumption DEF ControlTypeOK
<1>4. CASE Reopen
  <2>1. \A c \in Commands : asked'[c] = Unset /\ control_cap'[c] = Unset
    BY <1>4 DEF Reopen, NoHandle
  <2>2. ControlTypeOK'
    BY <1>2, <1>4 DEF ControlTypeOK, Reopen, NoHandle
  <2>3. DeviceInv'
    BY <1>2, <1>4 DEF DeviceInv, Reopen, Accepts, DeviceRange
  <2> QED
    BY <2>1, <2>2, <2>3 DEF ControlInv, AskedInv, AskedOK, CapInv
<1>5. ASSUME NEW c \in used, DeviceAdjusts(c) PROVE ControlInv'
  <2>1. c \in Commands /\ device[c].mode = MODE_AUTO /\ c \in WithMode
    BY <1>2, <1>3, <1>5, KindsDiffer DEF DeviceAdjusts, DeviceInv
  <2>2. PICK u \in {DeviceRange(c).min, DeviceRange(c).max} : device' = [device EXCEPT ![c].value = u]
    BY <1>5 DEF DeviceAdjusts
  <2>3. backend \in {"uvc", "mf"}
    BY <1>2 DEF ControlTypeOK
  <2>4. u \in Int /\ Accepts(c, u)
    BY <2>1, <2>2, <2>3, DeviceRangeType DEF Accepts
  <2>5. DeviceSet(c, MODE_AUTO, u)
    <3>1. device[c] \in [mode : {MODE_AUTO, MODE_MANUAL}, value : Int]
      BY <1>2, <2>1 DEF ControlTypeOK
    <3>2. [device[c] EXCEPT !.value = u] = [mode |-> MODE_AUTO, value |-> u]
      BY <2>1, <3>1
    <3> QED
      BY <1>2, <2>1, <2>2, <3>2 DEF DeviceSet, ControlTypeOK
  <2>6. UNCHANGED <<used, backend, m_using_60hz_power, control_cap, asked>>
    BY <1>5 DEF DeviceAdjusts
  <2>7. /\ device' \in [Commands -> [mode : {MODE_AUTO, MODE_MANUAL}, value : Int]]
        /\ \A x \in Commands : x # c => device'[x] = device[x]
    BY <1>2, <2>1, <2>4, <2>5, SetDevice
  <2>8. ControlTypeOK'
    BY <1>2, <2>6, <2>7 DEF ControlTypeOK
  <2>9. DeviceInv'
    BY <1>1, <2>1, <2>4, <2>5, <2>6, SetDeviceKeeps
  <2>10. asked[c] = Unset
    BY <1>2, <2>1, KindsDiffer DEF AskedInv, AskedOK
  <2>11. AskedInv'
    BY <1>2, <2>6, <2>7, <2>10, AskedStays DEF AskedInv
  <2> QED
    BY <1>2, <2>6, <2>8, <2>9, <2>11, CapKept DEF ControlInv
<1>6. ASSUME NEW c \in used, color_get_control_capabilities(c) PROVE ControlInv'
  <2>1. UNCHANGED <<used, backend, device, m_using_60hz_power, asked>>
    BY <1>6 DEF color_get_control_capabilities
  <2>2. PICK k : k = IF backend = "uvc" THEN UvcCapabilities(c) ELSE MfCapabilities(c)
    OBVIOUS
  <2>3. control_cap' = [control_cap EXCEPT ![c] = k] /\ c \in Commands
    BY <1>3, <1>6, <2>2 DEF color_get_control_capabilities
  <2>4. CapabilitiesRead(c, k)
    BY <1>2, <2>2, <2>3, CapabilitiesAre
  <2>5. ControlTypeOK'
    BY <1>2, <2>1, <2>3 DEF ControlTypeOK
  <2>6. DeviceInv'
    BY <1>2, <2>1 DEF DeviceInv, Accepts, DeviceRange
  <2>7. AskedInv'
    BY <1>2, <2>1, AskedStays DEF AskedInv
  <2>8. ASSUME NEW x \in Commands, control_cap'[x] # Unset
        PROVE  CapabilitiesRead(x, control_cap[x])'
    <3>1. PICK z : z = control_cap'[x]
      OBVIOUS
    <3>2. x # c => z = control_cap[x]
      BY <1>2, <2>3, <3>1 DEF ControlTypeOK
    <3>3. x = c => z = k
      BY <1>2, <2>3, <3>1 DEF ControlTypeOK
    <3>4. CapabilitiesRead(x, z)
      BY <1>2, <2>4, <2>8, <3>1, <3>2, <3>3 DEF CapInv
    <3>5. CapabilitiesRead(x, z)'
      BY <2>1, <3>4, RangeKept
    <3> QED
      BY <3>1, <3>5 DEF CapabilitiesRead
  <2> QED
    BY <2>5, <2>6, <2>7, <2>8 DEF ControlInv, CapInv
<1>7. ASSUME NEW c \in used, NEW mode \in {MODE_AUTO, MODE_MANUAL}, NEW v \in Requests[c],
             color_set_control(c, mode, v)
      PROVE  ControlInv'
  <2>1. c \in Commands /\ v \in Int /\ UNCHANGED <<used, backend, control_cap>>
    BY <1>3, <1>7, CommandsAssumption DEF color_set_control
  <2>2. CASE backend = "uvc"
    <3>1. UvcSetCameraControl(c, mode, v)
      BY <1>7, <2>2 DEF color_set_control
    <3> QED
      BY <1>1, <2>1, <2>2, <3>1, UvcSets, SetsKeep
  <2>3. CASE backend = "mf"
    <3>1. MfSetCameraControl(c, mode, v)
      BY <1>7, <2>3 DEF color_set_control
    <3> QED
      BY <1>1, <2>1, <2>3, <3>1, MfSets, SetsKeep
  <2> QED
    BY <1>2, <2>2, <2>3 DEF ControlTypeOK
<1>8. CASE UNCHANGED controlVars
  <2>1. UNCHANGED <<used, backend, device, m_using_60hz_power, control_cap, asked>>
    BY <1>8 DEF controlVars
  <2>2. ControlTypeOK'
    BY <1>2, <2>1 DEF ControlTypeOK
  <2>3. DeviceInv'
    BY <1>2, <2>1 DEF DeviceInv, Accepts, DeviceRange
  <2>4. AskedInv'
    BY <1>2, <2>1, AskedStays DEF AskedInv
  <2> QED
    BY <1>2, <2>1, <2>2, <2>3, <2>4, CapKept DEF ControlInv
<1> QED
  BY <1>1, <1>4, <1>5, <1>6, <1>7, <1>8 DEF ControlNext

LEMMA ControlInvariant == ControlSpec => []ControlInv
BY ControlStarts, ControlStep, PTL DEF ControlSpec

(* A control that was set is read as it was set, whatever failed since:    *)
(* the value itself, and of the exposure time the nearest in the table     *)
(* that is not shorter, through the units of either driver, for any        *)
(* integers asked for and any limits of the device.                        *)
THEOREM ControlsReadBack == ControlSpec => []ReadBack
BY ControlInvariant, ReadsWhatWasSet, PTL

(* What is read lies within the capabilities that were read under the same *)
(* power line frequency, for any limits of the device.                     *)
THEOREM ControlsWithinCapabilities == ControlSpec => []WithinCapabilities
BY ControlInvariant, ReadsWithin, PTL

=============================================================================
