--------------------------- MODULE CaptureMemory ---------------------------
(***************************************************************************)
(* The memory of the SDK: buffers from src/src/allocator/allocator.c,      *)
(* reference-counted images around them (src/src/image/image.c), and       *)
(* reference-counted captures that hold images (allocator.c again), used   *)
(* by several threads.                                                     *)
(*                                                                         *)
(* A reference count is changed atomically and whoever brings it to zero   *)
(* is alone with the object, so releasing one is a single action.  Two     *)
(* operations are not: allocator_alloc, which calls the application back   *)
(* under the allocator's read lock, and capture_get_..._image, which reads *)
(* the capture once more after it has given up the capture's lock.         *)
(***************************************************************************)
EXTENDS Integers, FiniteSets

CONSTANTS
  Threads, Images, Captures, Buffers,
  ImageTypes,      \* the slots of a capture: color, depth, ir
  Sources,         \* allocation_source_t
  Hooks,           \* allocate/free pairs an application may install
  DefaultHook,     \* default_alloc and default_free
  SharedSetters,   \* may a slot of a capture be set while it is being read?
  MaxRefs,         \* bound: references a thread holds of one object
  MaxFailures,     \* bound: how often the allocate callback fails
  MaxSessions,     \* bound: devices open at once
  None

ASSUME MemoryAssumption ==
  /\ IsFiniteSet(Threads) /\ IsFiniteSet(Captures) /\ IsFiniteSet(Buffers)
  /\ IsFiniteSet(ImageTypes)
  /\ DefaultHook \in Hooks
  /\ SharedSetters \in BOOLEAN
  /\ MaxRefs \in Nat \ {0} /\ MaxFailures \in Nat /\ MaxSessions \in Nat
  /\ None \notin Images \cup Captures \cup Buffers \cup Hooks \cup Sources

VARIABLES
  alloc, free,     \* allocator_global_t: the installed callbacks
  readers,         \* threads that hold its lock for reading
  sessions,        \* g_allocator_sessions
  count,           \* g_allocated_image_count_..., per source
  buffer,          \* each buffer: who made it, and its allocation_context_t
  image,           \* each image: does the handle exist, ref_count, buffer
  capture,         \* each capture: ref_count and images
  thread,          \* what each thread is in the middle of
  owned,           \* buffers each thread has to release
  iheld, cheld,    \* references each thread has to release
  failures         \* allocations that failed, per source

global == <<alloc, free, readers, sessions>>
heap == <<count, buffer, image>>
held == <<owned, iheld, cheld>>
vars == <<global, heap, capture, thread, held, failures>>

NoBuffer == [by |-> None, free |-> None, source |-> None]
NoImage == [handle |-> FALSE, ref_count |-> 0, buffer |-> None]
NoCapture == [ref_count |-> 0, image |-> [k \in ImageTypes |-> None]]
Idle == [at |-> "idle", image |-> None, buffer |-> None, source |-> None,
         capture |-> None, type |-> None]

Init ==
  /\ alloc = DefaultHook /\ free = DefaultHook
  /\ readers = {}
  /\ sessions = 0
  /\ count = [s \in Sources |-> 0]
  /\ buffer = [b \in Buffers |-> NoBuffer]
  /\ image = [i \in Images |-> NoImage]
  /\ capture = [c \in Captures |-> NoCapture]
  /\ thread = [t \in Threads |-> Idle]
  /\ owned = [t \in Threads |-> {}]
  /\ iheld = [t \in Threads |-> [i \in Images |-> 0]]
  /\ cheld = [t \in Threads |-> [c \in Captures |-> 0]]
  /\ failures = [s \in Sources |-> 0]

-----------------------------------------------------------------------------
(* allocator_initialize, allocator_deinitialize, allocator_set_allocator   *)

Initialize ==
  /\ sessions < MaxSessions
  /\ sessions' = sessions + 1
  /\ UNCHANGED <<alloc, free, readers, heap, capture, thread, held, failures>>

Deinitialize ==
  /\ sessions > 0
  /\ sessions' = sessions - 1
  /\ UNCHANGED <<alloc, free, readers, heap, capture, thread, held, failures>>

MayWriteAlways == TRUE                                           \* mutant

MayWrite == readers = {}

SetAllocator(hook) ==
  /\ MayWrite
  /\ alloc' = hook
  /\ free' = hook
  /\ UNCHANGED <<readers, sessions, heap, capture, thread, held, failures>>

-----------------------------------------------------------------------------
(* Reference counts.  delta is the change in the count of each image; an   *)
(* image whose count comes down to zero is destroyed, and its buffer goes  *)
(* back to allocator_free.                                                 *)

DeadAtOne(delta) ==                                              \* mutant
  {i \in Images : delta[i] < 0 /\ image[i].ref_count + delta[i] <= 1}

Dead(delta) ==
  {i \in Images : delta[i] < 0 /\ image[i].ref_count + delta[i] = 0}

(* The buffers of bs are returned, each to the free callback its header    *)
(* names.                                                                  *)
allocator_free(bs) ==
  /\ buffer' = [b \in Buffers |-> IF b \in bs THEN NoBuffer ELSE buffer[b]]
  /\ count' = [s \in Sources |->
                 count[s] - Cardinality({b \in bs : buffer[b].source = s})]

ChangeRefs(delta) ==
  /\ image' = [i \in Images |->
                 IF i \in Dead(delta) THEN NoImage
                 ELSE [image[i] EXCEPT !.ref_count = @ + delta[i]]]
  /\ allocator_free({image[i].buffer : i \in Dead(delta)})

(* One reference more or less of i, where i may be None. *)
Plus(i) == [j \in Images |-> IF j = i THEN 1 ELSE 0]
Minus(i) == [j \in Images |-> IF j = i THEN -1 ELSE 0]

-----------------------------------------------------------------------------
(* allocator_alloc, for a buffer of its own (i = None) or on behalf of     *)
(* image_create_empty_image, which has made the handle of image i first.   *)

CountAllocation(s) == count' = [count EXCEPT ![s] = @ + 1]

AllocBegins(t, i, s) ==
  /\ thread[t].at = "idle"
  /\ IF i = None THEN UNCHANGED image
     ELSE /\ ~image[i].handle
          /\ image' = [image EXCEPT ![i].handle = TRUE]
  /\ CountAllocation(s)
  /\ thread' = [thread EXCEPT ![t] =
                  [Idle EXCEPT !.at = "counted", !.image = i, !.source = s]]
  /\ UNCHANGED <<global, buffer, capture, held, failures>>

(* The allocate callback runs under the read lock and gives a buffer ...   *)
AllocCalls(t, b) ==
  /\ thread[t].at = "counted"
  /\ buffer[b].by = None
  /\ readers' = readers \cup {t}
  /\ buffer' = [buffer EXCEPT ![b].by = alloc]
  /\ thread' = [thread EXCEPT ![t].at = "called", ![t].buffer = b]
  /\ UNCHANGED <<alloc, free, sessions, count, image, capture, held, failures>>

(* ... or none.                                                            *)
AllocCallFails(t) ==
  /\ thread[t].at = "counted"
  /\ failures[thread[t].source] < MaxFailures
  /\ readers' = readers \cup {t}
  /\ thread' = [thread EXCEPT ![t].at = "called"]
  /\ UNCHANGED <<alloc, free, sessions, heap, capture, held, failures>>

(* The free callback is read under the same lock, for the buffer's header. *)
Recorded(t) ==
  [buffer EXCEPT ![thread[t].buffer].free = free,
                 ![thread[t].buffer].source = thread[t].source]

AllocReturns(t) ==
  /\ thread[t].at = "called"
  /\ readers' = readers \ {t}
  /\ thread' = [thread EXCEPT ![t] = Idle]
  /\ UNCHANGED <<alloc, free, sessions, capture, cheld>>

BufferAllocated(t) ==
  /\ thread[t].image = None /\ thread[t].buffer # None
  /\ AllocReturns(t)
  /\ buffer' = Recorded(t)
  /\ owned' = [owned EXCEPT ![t] = @ \cup {thread[t].buffer}]
  /\ UNCHANGED <<count, image, iheld, failures>>

ImageCreated(t) ==
  /\ thread[t].image # None /\ thread[t].buffer # None
  /\ AllocReturns(t)
  /\ buffer' = Recorded(t)
  /\ image' = [image EXCEPT ![thread[t].image].ref_count = 1,
                            ![thread[t].image].buffer = thread[t].buffer]
  /\ iheld' = [iheld EXCEPT ![t][thread[t].image] = 1]
  /\ UNCHANGED <<count, owned, failures>>

(* The image's lock cannot be created: image_dec_ref undoes everything.    *)
ImageLockFails(t) ==
  /\ thread[t].image # None /\ thread[t].buffer # None
  /\ AllocReturns(t)
  /\ buffer' = [buffer EXCEPT ![thread[t].buffer] = NoBuffer]
  /\ count' = [count EXCEPT ![thread[t].source] = @ - 1]
  /\ image' = [image EXCEPT ![thread[t].image] = NoImage]
  /\ UNCHANGED <<owned, iheld, failures>>

(* No buffer: the count stays up, and the image, if there is one, is given *)
(* to image_dec_ref with a ref_count of zero.                              *)
AllocFailed(t) ==
  /\ thread[t].buffer = None
  /\ AllocReturns(t)
  /\ image' = [i \in Images |->
                 IF i = thread[t].image THEN [image[i] EXCEPT !.ref_count = @ - 1]
                 ELSE image[i]]
  /\ failures' = [failures EXCEPT ![thread[t].source] = @ + 1]
  /\ UNCHANGED <<count, buffer, owned, iheld>>

FreeBuffer(t, b) ==
  /\ thread[t].at = "idle"
  /\ b \in owned[t]
  /\ allocator_free({b})
  /\ owned' = [owned EXCEPT ![t] = @ \ {b}]
  /\ UNCHANGED <<global, image, capture, thread, iheld, cheld, failures>>

-----------------------------------------------------------------------------
(* image_create_from_buffer and image_dec_ref                              *)

ImageFromBuffer(t, b, i) ==
  /\ thread[t].at = "idle"
  /\ b \in owned[t]
  /\ ~image[i].handle
  /\ image' = [image EXCEPT ![i] = [handle |-> TRUE, ref_count |-> 1, buffer |-> b]]
  /\ owned' = [owned EXCEPT ![t] = @ \ {b}]
  /\ iheld' = [iheld EXCEPT ![t][i] = 1]
  /\ UNCHANGED <<global, count, buffer, capture, thread, cheld, failures>>

KeepBufferFreed(b) == allocator_free({b})                        \* mutant

(* "Contract is that if we fail this function, buffer is still valid" *)
KeepBuffer(b) == UNCHANGED <<buffer, count>>

ImageFromBufferFails(t, b) ==
  /\ thread[t].at = "idle"
  /\ b \in owned[t]
  /\ KeepBuffer(b)
  /\ UNCHANGED <<global, image, capture, thread, held, failures>>

ImageDecRef(t, i) ==
  /\ thread[t].at = "idle"
  /\ iheld[t][i] > 0
  /\ ChangeRefs(Minus(i))
  /\ iheld' = [iheld EXCEPT ![t][i] = @ - 1]
  /\ UNCHANGED <<global, capture, thread, owned, cheld, failures>>

(* A thread makes a reference, for itself or for the thread it hands the   *)
(* image to.                                                               *)
ImageIncRef(t, u, i) ==
  /\ thread[t].at = "idle"
  /\ iheld[t][i] > 0
  /\ iheld[u][i] < MaxRefs
  /\ ChangeRefs(Plus(i))
  /\ iheld' = [iheld EXCEPT ![u][i] = @ + 1]
  /\ UNCHANGED <<global, capture, thread, owned, cheld, failures>>

-----------------------------------------------------------------------------
(* Captures                                                                *)

CaptureCreate(t, c) ==
  /\ thread[t].at = "idle"
  /\ capture[c].ref_count = 0
  /\ capture' = [capture EXCEPT ![c].ref_count = 1]
  /\ cheld' = [cheld EXCEPT ![t][c] = 1]
  /\ UNCHANGED <<global, heap, thread, owned, iheld, failures>>

(* Likewise.                                                               *)
CaptureIncRef(t, u, c) ==
  /\ thread[t].at = "idle"
  /\ cheld[t][c] > 0
  /\ cheld[u][c] < MaxRefs
  /\ capture' = [capture EXCEPT ![c].ref_count = @ + 1]
  /\ cheld' = [cheld EXCEPT ![u][c] = @ + 1]
  /\ UNCHANGED <<global, heap, thread, owned, iheld, failures>>

(* The last reference takes the capture's references of its images along.  *)
CaptureDecRef(t, c) ==
  /\ thread[t].at = "idle"
  /\ cheld[t][c] > 0
  /\ IF capture[c].ref_count = 1
     THEN /\ ChangeRefs([i \in Images |->
               -Cardinality({k \in ImageTypes : capture[c].image[k] = i})])
          /\ capture' = [capture EXCEPT ![c] = NoCapture]
     ELSE /\ UNCHANGED heap
          /\ capture' = [capture EXCEPT ![c].ref_count = @ - 1]
  /\ cheld' = [cheld EXCEPT ![t][c] = @ - 1]
  /\ UNCHANGED <<global, thread, owned, iheld, failures>>

SetRefsKeepOld(old, new) == Plus(new)                            \* mutant

SetRefs(old, new) ==
  [i \in Images |-> Plus(new)[i] + Minus(old)[i]]

(* Under the capture's write lock the old image is released and the new    *)
(* one referenced; the caller holds a reference of the new one.  The       *)
(* callers inside the SDK fill a slot before anybody reads it, which the   *)
(* functions themselves do not ask for.                                    *)
CaptureSetImage(t, c, k, i) ==
  /\ thread[t].at = "idle"
  /\ cheld[t][c] > 0
  /\ i \in Images => iheld[t][i] > 0
  /\ SharedSetters \/ \A u \in Threads :
                         ~(/\ thread[u].at = "get"
                           /\ thread[u].capture = c /\ thread[u].type = k)
  /\ ChangeRefs(SetRefs(capture[c].image[k], i))
  /\ capture' = [capture EXCEPT ![c].image[k] = i]
  /\ UNCHANGED <<global, thread, held, failures>>

(* Under the read lock the image is referenced ...                         *)
CaptureGetImage(t, c, k) ==
  LET i == capture[c].image[k]
  IN  /\ thread[t].at = "idle"
      /\ cheld[t][c] > 0
      /\ i \in Images => iheld[t][i] < MaxRefs
      /\ ChangeRefs(Plus(i))
      /\ thread' = [thread EXCEPT ![t] =
           [Idle EXCEPT !.at = "get", !.capture = c, !.type = k, !.image = i]]
      /\ UNCHANGED <<global, capture, held, failures>>

(* ... and after it has been released, the slot is read again for the      *)
(* image to return, which the caller will release.                         *)
CaptureGetReturns(t) ==
  LET i == capture[thread[t].capture].image[thread[t].type]
  IN  /\ thread[t].at = "get"
      /\ iheld' = IF i = None THEN iheld ELSE [iheld EXCEPT ![t][i] = @ + 1]
      /\ thread' = [thread EXCEPT ![t] = Idle]
      /\ UNCHANGED <<global, heap, capture, owned, cheld, failures>>

-----------------------------------------------------------------------------
AllocSteps(t) ==
  \/ \E i \in Images \cup {None}, s \in Sources : AllocBegins(t, i, s)
  \/ \E b \in Buffers : AllocCalls(t, b)
  \/ AllocCallFails(t)
  \/ BufferAllocated(t)
  \/ ImageCreated(t)
  \/ ImageLockFails(t)
  \/ AllocFailed(t)
  \/ \E b \in Buffers : FreeBuffer(t, b)

ImageSteps(t) ==
  \/ \E b \in Buffers, i \in Images : ImageFromBuffer(t, b, i)
  \/ \E b \in Buffers : ImageFromBufferFails(t, b)
  \/ \E i \in Images : ImageDecRef(t, i)
  \/ \E u \in Threads, i \in Images : ImageIncRef(t, u, i)

CaptureSteps(t) ==
  \/ \E c \in Captures : CaptureCreate(t, c)
  \/ \E u \in Threads, c \in Captures : CaptureIncRef(t, u, c)
  \/ \E c \in Captures : CaptureDecRef(t, c)
  \/ \E c \in Captures, k \in ImageTypes, i \in Images \cup {None} :
       CaptureSetImage(t, c, k, i)
  \/ \E c \in Captures, k \in ImageTypes : CaptureGetImage(t, c, k)
  \/ CaptureGetReturns(t)

Next ==
  \/ Initialize
  \/ Deinitialize
  \/ \E hook \in Hooks : SetAllocator(hook)
  \/ \E t \in Threads : AllocSteps(t) \/ ImageSteps(t) \/ CaptureSteps(t)

Spec == Init /\ [][Next]_vars

-----------------------------------------------------------------------------
(* Properties                                                              *)

(* allocator.h: "The SDK will always call the free function that was set   *)
(* at the time that the memory was allocated", also when the application   *)
(* exchanges its callbacks while threads are inside them.                  *)
FreedByItsAllocator ==
  \A b \in Buffers : buffer[b].free # None => buffer[b].free = buffer[b].by

(* zsatypes.h: an accessor adds a reference the caller has to release, a   *)
(* setter one the capture releases.  So the count of an image is the       *)
(* number of references its users will still release: none is released     *)
(* twice and none is forgotten.                                            *)
ImageRefsExact ==
  \A i \in Images : image[i].ref_count >= 0 =>
    image[i].ref_count =
      Cardinality({tn \in Threads \X (1 .. 2 * MaxRefs) : tn[2] <= iheld[tn[1]][i]})
      + Cardinality({ck \in Captures \X ImageTypes : capture[ck[1]].image[ck[2]] = i})
      + Cardinality({t \in Threads : thread[t].at = "get" /\ thread[t].image = i})

(* Whatever a thread, a capture or an image refers to exists, with its     *)
(* buffer and the buffer's header.                                         *)
NothingDangling ==
  LET alive(i) == /\ image[i].handle /\ image[i].ref_count > 0
                  /\ buffer[image[i].buffer].free # None
  IN  /\ \A t \in Threads :
           /\ \A i \in Images : iheld[t][i] > 0 => alive(i)
           /\ \A c \in Captures : cheld[t][c] > 0 => capture[c].ref_count > 0
           /\ \A b \in owned[t] : buffer[b].free # None
      /\ \A c \in Captures, k \in ImageTypes :
           capture[c].image[k] # None => alive(capture[c].image[k])

Owners(b) ==
  {i \in Images : image[i].buffer = b}
    \cup {t \in Threads : b \in owned[t]
                          \/ (thread[t].at = "called" /\ thread[t].buffer = b)}

Outstanding(s) == {b \in Buffers : buffer[b].source = s}
Allocating(s) == {t \in Threads : thread[t].source = s}

(* What allocator_test_for_leaks reports of a source. *)
TestForLeaks(s) == IF sessions # 0 THEN 0 ELSE count[s]

(* A buffer that has been allocated has exactly one owner, who will free   *)
(* it: the thread that asked for it or the image made of it, also when     *)
(* making the image fails.  One that has not has none.                     *)
BuffersOwnedOnce ==
  \A b \in Buffers :
    Cardinality(Owners(b)) = IF buffer[b].by = None THEN 0 ELSE 1

(* The leak counter of a source, which allocator_test_for_leaks reports    *)
(* when the last session is over, is the number of its buffers, plus the   *)
(* allocations under way and those that failed.                            *)
CountExplained ==
  \A s \in Sources :
    LET explained == Cardinality(Outstanding(s)) + Cardinality(Allocating(s)) + failures[s]
    IN  count[s] = explained /\ (sessions = 0 => TestForLeaks(s) = explained)

(* Every buffer has one owner and is counted once: what an owner frees was *)
(* not freed before, and what the leak report shows was really allocated.  *)
BuffersAccounted == BuffersOwnedOnce /\ CountExplained

=============================================================================
