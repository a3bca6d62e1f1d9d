------------------------ MODULE CaptureMemoryProofs ------------------------
(***************************************************************************)
(* For any number of threads, images, captures and pairs of callbacks:     *)
(* every buffer has one owner and is freed by the callback that belongs to *)
(* the one it was allocated with, also when the application exchanges its  *)
(* callbacks while allocations are under way; and, as long as no slot of a *)
(* capture is set while it is being read, the reference counts are exact   *)
(* and what is referred to exists.                                         *)
(***************************************************************************)
EXTENDS CaptureMemory, FiniteSetTheorems, TLAPS

BufferRecord == [by : Hooks \cup {None}, free : Hooks \cup {None},
                 source : Sources \cup {None}]
ImageRecord == [handle : BOOLEAN, ref_count : Int, buffer : Buffers \cup {None}]
CaptureRecord == [ref_count : Int, image : [ImageTypes -> Images \cup {None}]]
ThreadRecord == [at : {"idle", "counted", "called", "get"},
                 image : Images \cup {None}, buffer : Buffers \cup {None},
                 source : Sources \cup {None}, capture : Captures \cup {None},
                 type : ImageTypes \cup {None}]

(* The types the argument uses; they say nothing of the counters.          *)
MemoryTypes ==
  /\ alloc \in Hooks /\ free \in Hooks
  /\ buffer \in [Buffers -> BufferRecord]
  /\ image \in [Images -> ImageRecord]
  /\ capture \in [Captures -> CaptureRecord]
  /\ thread \in [Threads -> ThreadRecord]
  /\ owned \in [Threads -> SUBSET Buffers]

(* A buffer that has been allocated but has no header yet: the thread that *)
(* is about to write it is still a reader of the callbacks, so they are    *)
(* the ones the buffer was allocated with.                                 *)
HeaderPending ==
  \A t \in Threads : thread[t].buffer # None =>
    /\ thread[t].at = "called"
    /\ t \in readers
    /\ buffer[thread[t].buffer].by = alloc

(* What a thread or an image owns has been allocated.                      *)
OwnedIsAllocated ==
  /\ \A t \in Threads : \A b \in owned[t] : buffer[b].by # None
  /\ \A i \in Images : image[i].buffer # None => buffer[image[i].buffer].by # None

(* No buffer has two owners: neither two threads, two images, nor a thread *)
(* and an image, and nobody owns a buffer whose header is to be written.   *)
OneOwner ==
  /\ \A t, u \in Threads : t # u => owned[t] \cap owned[u] = {}
  /\ \A t \in Threads, i \in Images : image[i].buffer \notin owned[t]
  /\ \A i, j \in Images :
       i # j /\ image[i].buffer # None => image[i].buffer # image[j].buffer
  /\ \A t, u \in Threads :
       t # u /\ thread[t].buffer # None => thread[t].buffer # thread[u].buffer
  /\ \A t, u \in Threads : thread[t].buffer \notin owned[u]
  /\ \A t \in Threads, i \in Images :
       thread[t].buffer # None => image[i].buffer # thread[t].buffer

MemoryInv ==
  /\ MemoryTypes
  /\ alloc = free
  /\ HeaderPending
  /\ OwnedIsAllocated
  /\ OneOwner
  /\ FreedByItsAllocator

(* A step that neither gives a thread a buffer nor takes one away.         *)
ThreadsKeepBuffers ==
  \A t \in Threads : /\ thread'[t].buffer = thread[t].buffer
                     /\ thread[t].at = "called" => thread'[t].at = "called"

LEMMA SameThreads == UNCHANGED thread => ThreadsKeepBuffers
BY DEF ThreadsKeepBuffers

-----------------------------------------------------------------------------
(* A change of reference counts that destroys images frees their buffers,  *)
(* which nobody else owns.                                                 *)
LEMMA ChangeRefsKeeps ==
  ASSUME MemoryInv, NEW delta \in [Images -> Int], ChangeRefs(delta),
         UNCHANGED <<alloc, free, readers, owned>>,
         MemoryTypes',
         ThreadsKeepBuffers
  PROVE  MemoryInv'
<1> DEFINE dead == Dead(delta)
           freed == {image[i].buffer : i \in dead}
<1>0. dead \subseteq Images
  BY DEF Dead
<1>1. \A i \in Images : image'[i].buffer = IF i \in dead THEN None ELSE image[i].buffer
  BY DEF ChangeRefs, MemoryInv, MemoryTypes, ImageRecord, NoImage
<1>2. \A b \in Buffers : buffer'[b] = IF b \in freed THEN NoBuffer ELSE buffer[b]
  BY DEF ChangeRefs, allocator_free
<1>3. \A t \in Threads : thread[t].buffer # None => thread[t].buffer \notin freed
  BY <1>0 DEF MemoryInv, OneOwner
<1>4. \A t \in Threads : \A b \in owned[t] : b \notin freed
  BY <1>0 DEF MemoryInv, OneOwner
<1>5. \A i \in Images : i \notin dead /\ image[i].buffer # None => image[i].buffer \notin freed
  BY <1>0 DEF MemoryInv, OneOwner
<1> HIDE DEF dead, freed
<1>6. HeaderPending'
  BY <1>2, <1>3 DEF MemoryInv, MemoryTypes, ThreadRecord, HeaderPending,
                    ThreadsKeepBuffers
<1>7. OwnedIsAllocated'
  BY <1>1, <1>2, <1>4, <1>5 DEF MemoryInv, MemoryTypes, ImageRecord, OwnedIsAllocated
<1>8. OneOwner'
  <2>1. \A t \in Threads : None \notin owned[t]
    BY MemoryAssumption DEF MemoryInv, MemoryTypes
  <2> QED
    BY <1>1, <2>1 DEF MemoryInv, OneOwner, ThreadsKeepBuffers
<1>9. FreedByItsAllocator'
  BY <1>2 DEF MemoryInv, FreedByItsAllocator, NoBuffer
<1> QED
  BY <1>6, <1>7, <1>8, <1>9 DEF MemoryInv

(* The images and buffers keep their types.                                *)
LEMMA ChangeRefsType ==
  ASSUME MemoryTypes, NEW delta \in [Images -> Int], ChangeRefs(delta)
  PROVE  image' \in [Images -> ImageRecord] /\ buffer' \in [Buffers -> BufferRecord]
<1>1. NoImage \in ImageRecord /\ NoBuffer \in BufferRecord
  BY DEF NoImage, ImageRecord, NoBuffer, BufferRecord
<1>2. ASSUME NEW i \in Images
      PROVE  [image[i] EXCEPT !.ref_count = @ + delta[i]] \in ImageRecord
  BY DEF MemoryTypes, ImageRecord
<1>3. image' \in [Images -> ImageRecord]
  BY <1>1, <1>2 DEF ChangeRefs
<1>4. buffer' \in [Buffers -> BufferRecord]
  BY <1>1 DEF MemoryTypes, ChangeRefs, allocator_free
<1> QED
  BY <1>3, <1>4

(* The changes of reference counts the actions make.                       *)
LEMMA DeltaType ==
  ASSUME NEW i, NEW j
  PROVE  Plus(i) \in [Images -> Int] /\ Minus(i) \in [Images -> Int]
         /\ SetRefs(i, j) \in [Images -> Int]
BY DEF Plus, Minus, SetRefs

LEMMA LastReferenceType ==
  ASSUME NEW c
  PROVE  [i \in Images |-> -Cardinality({k \in ImageTypes : capture[c].image[k] = i})]
           \in [Images -> Int]
<1>1. ASSUME NEW i \in Images
      PROVE  Cardinality({k \in ImageTypes : capture[c].image[k] = i}) \in Nat
  <2>1. IsFiniteSet({k \in ImageTypes : capture[c].image[k] = i})
    BY FS_Subset, MemoryAssumption
  <2> QED
    BY <2>1, FS_CardinalityType
<1> QED
  BY <1>1

(* A step that leaves the memory and the callbacks alone.                  *)
LEMMA NothingTouched ==
  ASSUME MemoryInv, UNCHANGED <<alloc, free, buffer, owned>>,
         MemoryTypes',
         readers \subseteq readers',
         \A i \in Images : image'[i].buffer = image[i].buffer,
         ThreadsKeepBuffers
  PROVE  MemoryInv'
<1>1. HeaderPending'
  BY DEF MemoryInv, HeaderPending, ThreadsKeepBuffers
<1>2. OwnedIsAllocated'
  BY DEF MemoryInv, OwnedIsAllocated
<1>3. OneOwner'
  BY DEF MemoryInv, OneOwner, ThreadsKeepBuffers
<1> QED
  BY <1>1, <1>2, <1>3 DEF MemoryInv, FreedByItsAllocator

-----------------------------------------------------------------------------
LEMMA MemoryInit == Init => MemoryInv
BY MemoryAssumption
   DEF Init, MemoryInv, MemoryTypes, BufferRecord, ImageRecord, CaptureRecord,
       ThreadRecord, HeaderPending, OwnedIsAllocated, OneOwner,
       FreedByItsAllocator, NoBuffer, NoImage, NoCapture, Idle

(* allocator_set_allocator waits for the readers, who hold every buffer    *)
(* that has no header yet.                                                 *)
LEMMA SetAllocatorStep ==
  ASSUME MemoryInv, NEW hook \in Hooks, SetAllocator(hook)
  PROVE  MemoryInv'
<1>1. MemoryTypes' /\ OwnedIsAllocated' /\ OneOwner' /\ FreedByItsAllocator'
  BY DEF SetAllocator, heap, held, MemoryInv, MemoryTypes, OwnedIsAllocated, OneOwner,
         FreedByItsAllocator
<1>2. HeaderPending'
  BY DEF SetAllocator, MayWrite, heap, MemoryInv, HeaderPending
<1> QED
  BY <1>1, <1>2 DEF SetAllocator, MemoryInv

(* The thread that leaves allocator_alloc forgets its buffer.              *)
LEMMA AllocReturnsThread ==
  ASSUME MemoryInv, NEW t \in Threads, AllocReturns(t)
  PROVE  /\ thread' \in [Threads -> ThreadRecord]
         /\ \A u \in Threads : u # t => thread'[u] = thread[u]
         /\ thread'[t].buffer = None
BY DEF AllocReturns, MemoryInv, MemoryTypes, ThreadRecord, Idle

(* The header it writes names the callback of the buffer's allocator.      *)
LEMMA RecordedHeader ==
  ASSUME MemoryInv, NEW t \in Threads, thread[t].buffer \in Buffers,
         buffer[thread[t].buffer].by = free, buffer' = Recorded(t)
  PROVE  /\ buffer' \in [Buffers -> BufferRecord]
         /\ FreedByItsAllocator'
         /\ \A c \in Buffers : buffer'[c].by = buffer[c].by
<1> DEFINE b == thread[t].buffer
           new == [buffer[b] EXCEPT !.free = free, !.source = thread[t].source]
<1>1. buffer' = [buffer EXCEPT ![b] = new]
  BY DEF Recorded, MemoryInv, MemoryTypes
<1>2. new \in BufferRecord /\ new.by = free /\ new.free = free
  BY ZenonT(40) DEF MemoryInv, MemoryTypes, BufferRecord, ThreadRecord
<1>3. buffer' \in [Buffers -> BufferRecord]
  BY <1>1, <1>2 DEF MemoryInv, MemoryTypes
<1>4. \A c \in Buffers : buffer'[c] = IF c = b THEN new ELSE buffer[c]
  BY <1>1 DEF MemoryInv, MemoryTypes
<1> QED
  BY <1>2, <1>3, <1>4 DEF MemoryInv, FreedByItsAllocator

LEMMA AllocStep ==
  ASSUME MemoryInv, NEW t \in Threads, AllocSteps(t)
  PROVE  MemoryInv'
<1>1. ASSUME NEW i \in Images \cup {None}, NEW s \in Sources, AllocBegins(t, i, s)
      PROVE  MemoryInv'
  <2>1. MemoryTypes'
    <3>1. [Idle EXCEPT !.at = "counted", !.image = i, !.source = s] \in ThreadRecord
      BY DEF Idle, ThreadRecord
    <3>2. image' \in [Images -> ImageRecord]
      BY <1>1, ZenonT(40) DEF AllocBegins, MemoryInv, MemoryTypes, ImageRecord
    <3> QED
      BY <1>1, <3>1, <3>2 DEF AllocBegins, MemoryInv, MemoryTypes, global, held
  <2>2. thread[t].buffer = None
    BY <1>1 DEF AllocBegins, MemoryInv, HeaderPending
  <2>3. \A j \in Images : image'[j].buffer = image[j].buffer
    BY <1>1 DEF AllocBegins, MemoryInv, MemoryTypes, ImageRecord
  <2>4. ThreadsKeepBuffers
    BY <1>1, <2>2
       DEF AllocBegins, MemoryInv, MemoryTypes, ThreadRecord, Idle, ThreadsKeepBuffers
  <2> QED
    BY <1>1, <2>1, <2>3, <2>4, NothingTouched DEF AllocBegins, global, held
<1>2. ASSUME NEW b \in Buffers, AllocCalls(t, b) PROVE MemoryInv'
  <2>1. MemoryTypes'
    <3>1. [buffer[b] EXCEPT !.by = alloc] \in BufferRecord
      BY DEF MemoryInv, MemoryTypes, BufferRecord
    <3>2. [thread[t] EXCEPT !.at = "called", !.buffer = b] \in ThreadRecord
      BY ZenonT(40) DEF MemoryInv, MemoryTypes, ThreadRecord
    <3>3. buffer' = [buffer EXCEPT ![b] = [buffer[b] EXCEPT !.by = alloc]]
      BY <1>2 DEF AllocCalls, MemoryInv, MemoryTypes
    <3>4. thread' = [thread EXCEPT ![t] =
                       [thread[t] EXCEPT !.at = "called", !.buffer = b]]
      BY <1>2 DEF AllocCalls, MemoryInv, MemoryTypes
    <3> QED
      BY <1>2, <3>1, <3>2, <3>3, <3>4 DEF AllocCalls, MemoryInv, MemoryTypes, held
  <2>2. \A u \in Threads : thread[u].buffer # b
    BY <1>2, MemoryAssumption
       DEF AllocCalls, MemoryInv, MemoryTypes, ThreadRecord, BufferRecord, HeaderPending
  <2>3. \A u \in Threads : b \notin owned[u]
    BY <1>2 DEF AllocCalls, MemoryInv, OwnedIsAllocated
  <2>4. \A i \in Images : image[i].buffer # b
    BY <1>2, MemoryAssumption DEF AllocCalls, MemoryInv, OwnedIsAllocated
  <2>5. \A u \in Threads :
          thread'[u].buffer = IF u = t THEN b ELSE thread[u].buffer
    BY <1>2 DEF AllocCalls, MemoryInv, MemoryTypes, ThreadRecord
  <2>6. HeaderPending'
    BY <1>2, <2>2, <2>5
       DEF AllocCalls, MemoryInv, MemoryTypes, ThreadRecord, BufferRecord, HeaderPending
  <2>7. OwnedIsAllocated'
    BY <1>2, <2>3, <2>4
       DEF AllocCalls, held, MemoryInv, MemoryTypes, BufferRecord, OwnedIsAllocated
  <2>8. OneOwner'
    BY <1>2, <2>2, <2>3, <2>4, <2>5
       DEF AllocCalls, held, MemoryInv, MemoryTypes, ThreadRecord, OneOwner
  <2>9. buffer[b].free = None
    BY <1>2, MemoryAssumption
       DEF AllocCalls, MemoryInv, MemoryTypes, BufferRecord, FreedByItsAllocator
  <2>10. FreedByItsAllocator'
    BY <1>2, <2>9
       DEF AllocCalls, MemoryInv, MemoryTypes, BufferRecord, FreedByItsAllocator
  <2> QED
    BY <1>2, <2>1, <2>6, <2>7, <2>8, <2>10 DEF AllocCalls, MemoryInv
<1>3. CASE AllocCallFails(t)
  <2>1. MemoryTypes'
    BY <1>3, SMTT(30) DEF AllocCallFails, MemoryInv, MemoryTypes, ThreadRecord, heap, held
  <2>2. ThreadsKeepBuffers
    BY <1>3 DEF AllocCallFails, MemoryInv, MemoryTypes, ThreadRecord, ThreadsKeepBuffers
  <2> QED
    BY <1>3, <2>1, <2>2, NothingTouched DEF AllocCallFails, heap, held
<1>4. CASE BufferAllocated(t)
  <2> DEFINE b == thread[t].buffer
  <2>1. b \in Buffers /\ buffer[b].by = free
    BY <1>4 DEF BufferAllocated, MemoryInv, MemoryTypes, ThreadRecord, HeaderPending
  <2>2. \A u \in Threads : thread'[u].buffer = IF u = t THEN None ELSE thread[u].buffer
    BY <1>4, AllocReturnsThread DEF BufferAllocated, MemoryInv
  <2>3. buffer' \in [Buffers -> BufferRecord] /\ FreedByItsAllocator'
        /\ \A c \in Buffers : buffer'[c].by = buffer[c].by
    BY <1>4, <2>1, RecordedHeader DEF BufferAllocated
  <2>4. \A u \in Threads : owned'[u] = IF u = t THEN owned[u] \cup {b} ELSE owned[u]
    BY <1>4 DEF BufferAllocated, MemoryInv, MemoryTypes
  <2>5. MemoryTypes'
    BY <1>4, <2>1, <2>3, AllocReturnsThread
       DEF BufferAllocated, AllocReturns, MemoryInv, MemoryTypes
  <2>6. HeaderPending'
    BY <1>4, <2>2, <2>3, AllocReturnsThread
       DEF BufferAllocated, AllocReturns, MemoryInv, MemoryTypes, ThreadRecord, HeaderPending
  <2>7. OwnedIsAllocated'
    BY <1>4, <2>1, <2>3, <2>4, MemoryAssumption
       DEF BufferAllocated, MemoryInv, MemoryTypes, ImageRecord, OwnedIsAllocated
  <2>8. OneOwner'
    BY <1>4, <2>1, <2>2, <2>4, MemoryAssumption
       DEF BufferAllocated, MemoryInv, MemoryTypes, OneOwner
  <2> QED
    BY <1>4, <2>3, <2>5, <2>6, <2>7, <2>8 DEF BufferAllocated, AllocReturns, MemoryInv
<1>5. CASE ImageCreated(t)
  <2> DEFINE b == thread[t].buffer
             j == thread[t].image
  <2>1. b \in Buffers /\ buffer[b].by = free /\ j \in Images
    BY <1>5 DEF ImageCreated, MemoryInv, MemoryTypes, ThreadRecord, HeaderPending
  <2>2. \A u \in Threads : thread'[u].buffer = IF u = t THEN None ELSE thread[u].buffer
    BY <1>5, AllocReturnsThread DEF ImageCreated, MemoryInv
  <2>3. buffer' \in [Buffers -> BufferRecord] /\ FreedByItsAllocator'
        /\ \A c \in Buffers : buffer'[c].by = buffer[c].by
    BY <1>5, <2>1, RecordedHeader DEF ImageCreated
  <2>4. /\ image' \in [Images -> ImageRecord]
        /\ \A i \in Images : image'[i].buffer = IF i = j THEN b ELSE image[i].buffer
    BY <1>5, <2>1 DEF ImageCreated, MemoryInv, MemoryTypes, ImageRecord
  <2>5. MemoryTypes'
    BY <1>5, <2>3, <2>4, AllocReturnsThread
       DEF ImageCreated, AllocReturns, MemoryInv, MemoryTypes
  <2>6. HeaderPending'
    BY <1>5, <2>2, <2>3, AllocReturnsThread
       DEF ImageCreated, AllocReturns, MemoryInv, MemoryTypes, ThreadRecord, HeaderPending
  <2>7. OwnedIsAllocated'
    BY <1>5, <2>1, <2>3, <2>4, MemoryAssumption, SMTT(30)
       DEF ImageCreated, MemoryInv, MemoryTypes, ImageRecord, OwnedIsAllocated
  <2>8. OneOwner'
    BY <1>5, <2>1, <2>2, <2>4, MemoryAssumption
       DEF ImageCreated, MemoryInv, MemoryTypes, OneOwner
  <2> QED
    BY <1>5, <2>3, <2>5, <2>6, <2>7, <2>8 DEF ImageCreated, AllocReturns, MemoryInv
<1>6. CASE ImageLockFails(t)
  <2> DEFINE b == thread[t].buffer
             j == thread[t].image
  <2>1. b \in Buffers /\ j \in Images
    BY <1>6 DEF ImageLockFails, MemoryInv, MemoryTypes, ThreadRecord
  <2>2. \A u \in Threads : thread'[u].buffer = IF u = t THEN None ELSE thread[u].buffer
    BY <1>6, AllocReturnsThread DEF ImageLockFails, MemoryInv
  <2>3. /\ buffer' \in [Buffers -> BufferRecord]
        /\ \A c \in Buffers : buffer'[c] = IF c = b THEN NoBuffer ELSE buffer[c]
    BY <1>6, <2>1 DEF ImageLockFails, MemoryInv, MemoryTypes, BufferRecord, NoBuffer
  <2>4. /\ image' \in [Images -> ImageRecord]
        /\ \A i \in Images : image'[i].buffer = IF i = j THEN None ELSE image[i].buffer
    BY <1>6, <2>1 DEF ImageLockFails, MemoryInv, MemoryTypes, ImageRecord, NoImage
  <2>5. MemoryTypes'
    BY <1>6, <2>3, <2>4, AllocReturnsThread
       DEF ImageLockFails, AllocReturns, MemoryInv, MemoryTypes
  <2>6. HeaderPending'
    BY <1>6, <2>2, <2>3, AllocReturnsThread
       DEF ImageLockFails, AllocReturns, MemoryInv, MemoryTypes, ThreadRecord,
           HeaderPending, OneOwner
  <2>7. OwnedIsAllocated'
    BY <1>6, <2>1, <2>3, <2>4
       DEF ImageLockFails, MemoryInv, MemoryTypes, ImageRecord, OwnedIsAllocated, OneOwner
  <2>8. OneOwner'
    BY <1>6, <2>1, <2>2, <2>4, MemoryAssumption, SMTT(30)
       DEF ImageLockFails, MemoryInv, MemoryTypes, OneOwner
  <2>9. FreedByItsAllocator'
    BY <2>3 DEF MemoryInv, FreedByItsAllocator, NoBuffer
  <2> QED
    BY <1>6, <2>5, <2>6, <2>7, <2>8, <2>9 DEF ImageLockFails, AllocReturns, MemoryInv
<1>7. CASE AllocFailed(t)
  <2>2. \A u \in Threads : thread'[u].buffer = thread[u].buffer
    BY <1>7, AllocReturnsThread DEF AllocFailed, MemoryInv
  <2>4. /\ image' \in [Images -> ImageRecord]
        /\ \A i \in Images : image'[i].buffer = image[i].buffer
    BY <1>7 DEF AllocFailed, MemoryInv, MemoryTypes, ImageRecord
  <2>5. MemoryTypes'
    BY <1>7, <2>4, AllocReturnsThread
       DEF AllocFailed, AllocReturns, MemoryInv, MemoryTypes
  <2>6. HeaderPending'
    BY <1>7, <2>2, AllocReturnsThread
       DEF AllocFailed, AllocReturns, MemoryInv, MemoryTypes, ThreadRecord, HeaderPending
  <2>7. OwnedIsAllocated' /\ OneOwner'
    BY <1>7, <2>2, <2>4 DEF AllocFailed, MemoryInv, OwnedIsAllocated, OneOwner
  <2> QED
    BY <1>7, <2>5, <2>6, <2>7
       DEF AllocFailed, AllocReturns, MemoryInv, FreedByItsAllocator
<1>8. ASSUME NEW b \in Buffers, FreeBuffer(t, b) PROVE MemoryInv'
  <2>1. \A c \in Buffers : buffer'[c] = IF c = b THEN NoBuffer ELSE buffer[c]
    BY <1>8 DEF FreeBuffer, allocator_free
  <2>2. \A u \in Threads : owned'[u] = IF u = t THEN owned[u] \ {b} ELSE owned[u]
    BY <1>8 DEF FreeBuffer, MemoryInv, MemoryTypes
  <2>3. buffer' \in [Buffers -> BufferRecord]
    BY <1>8 DEF FreeBuffer, allocator_free, MemoryInv, MemoryTypes, BufferRecord, NoBuffer
  <2>4. MemoryTypes'
    BY <1>8, <2>3 DEF FreeBuffer, global, MemoryInv, MemoryTypes
  <2>5. HeaderPending'
    BY <1>8, <2>1 DEF FreeBuffer, global, MemoryInv, MemoryTypes, ThreadRecord,
                      HeaderPending, OneOwner
  <2>6. OwnedIsAllocated'
    BY <1>8, <2>1, <2>2 DEF FreeBuffer, MemoryInv, MemoryTypes, ImageRecord,
                            OwnedIsAllocated, OneOwner
  <2>7. OneOwner'
    BY <1>8, <2>2 DEF FreeBuffer, MemoryInv, OneOwner
  <2>8. FreedByItsAllocator'
    BY <2>1 DEF MemoryInv, FreedByItsAllocator, NoBuffer
  <2> QED
    BY <1>8, <2>4, <2>5, <2>6, <2>7, <2>8 DEF FreeBuffer, global, MemoryInv
<1> QED
  BY <1>1, <1>2, <1>3, <1>4, <1>5, <1>6, <1>7, <1>8 DEF AllocSteps

LEMMA ImageStep ==
  ASSUME MemoryInv, NEW t \in Threads, ImageSteps(t)
  PROVE  MemoryInv'
<1>1. ASSUME NEW b \in Buffers, NEW j \in Images, ImageFromBuffer(t, b, j)
      PROVE  MemoryInv'
  <2>1. /\ image' \in [Images -> ImageRecord]
        /\ \A i \in Images : image'[i].buffer = IF i = j THEN b ELSE image[i].buffer
    BY <1>1 DEF ImageFromBuffer, MemoryInv, MemoryTypes, ImageRecord
  <2>2. \A u \in Threads : owned'[u] = IF u = t THEN owned[u] \ {b} ELSE owned[u]
    BY <1>1 DEF ImageFromBuffer, MemoryInv, MemoryTypes
  <2>3. MemoryTypes'
    BY <1>1, <2>1 DEF ImageFromBuffer, global, MemoryInv, MemoryTypes
  <2>4. HeaderPending'
    BY <1>1 DEF ImageFromBuffer, global, MemoryInv, HeaderPending
  <2>5. OwnedIsAllocated'
    BY <1>1, <2>1, <2>2 DEF ImageFromBuffer, MemoryInv, OwnedIsAllocated
  <2>6. OneOwner'
    <3>1. b \in owned[t] /\ thread' = thread
      BY <1>1 DEF ImageFromBuffer
    <3>2. \A u, v \in Threads : u # v => owned'[u] \cap owned'[v] = {}
      BY <2>2 DEF MemoryInv, OneOwner
    <3>3. \A u \in Threads, i \in Images : image'[i].buffer \notin owned'[u]
      <4>1. \A u \in Threads : b \notin owned'[u]
        BY <2>2, <3>1 DEF MemoryInv, OneOwner
      <4>2. \A u \in Threads, i \in Images : image[i].buffer \notin owned'[u]
        BY <2>2 DEF MemoryInv, OneOwner
      <4> QED
        BY <2>1, <4>1, <4>2
    <3>4. \A i, k \in Images : i # k /\ image'[i].buffer # None
                                => image'[i].buffer # image'[k].buffer
      BY <2>1, <3>1 DEF MemoryInv, OneOwner
    <3>5. \A u, v \in Threads : thread[u].buffer \notin owned'[v]
      BY <2>2 DEF MemoryInv, OneOwner
    <3>6. \A u \in Threads, i \in Images :
            thread[u].buffer # None => image'[i].buffer # thread[u].buffer
      BY <2>1, <3>1 DEF MemoryInv, OneOwner
    <3> QED
      BY <3>1, <3>2, <3>3, <3>4, <3>5, <3>6 DEF MemoryInv, OneOwner
  <2> QED
    BY <1>1, <2>3, <2>4, <2>5, <2>6
       DEF ImageFromBuffer, global, MemoryInv, FreedByItsAllocator
<1>2. ASSUME NEW b \in Buffers, ImageFromBufferFails(t, b) PROVE MemoryInv'
  <2>1. MemoryTypes'
    BY <1>2 DEF ImageFromBufferFails, KeepBuffer, global, held, MemoryInv, MemoryTypes
  <2> QED
    BY <1>2, <2>1, NothingTouched, SameThreads
       DEF ImageFromBufferFails, KeepBuffer, global, held
<1>3. ASSUME NEW delta \in [Images -> Int], ChangeRefs(delta),
             UNCHANGED <<global, capture, thread, owned>>
      PROVE  MemoryInv'
  <2>1. MemoryTypes'
    BY <1>3, ChangeRefsType DEF global, MemoryInv, MemoryTypes
  <2> QED
    BY <1>3, <2>1, ChangeRefsKeeps, SameThreads DEF global
<1>4. ASSUME NEW i \in Images, ImageDecRef(t, i) PROVE MemoryInv'
  BY <1>3, <1>4, DeltaType DEF ImageDecRef
<1>5. ASSUME NEW u \in Threads, NEW i \in Images, ImageIncRef(t, u, i) PROVE MemoryInv'
  BY <1>3, <1>5, DeltaType DEF ImageIncRef
<1> QED
  BY <1>1, <1>2, <1>4, <1>5 DEF ImageSteps

LEMMA CaptureStep ==
  ASSUME MemoryInv, NEW t \in Threads, CaptureSteps(t)
  PROVE  MemoryInv'
<1>1. ASSUME NEW delta \in [Images -> Int], ChangeRefs(delta), UNCHANGED <<global, owned>>,
             capture' \in [Captures -> CaptureRecord], thread' \in [Threads -> ThreadRecord],
             ThreadsKeepBuffers
      PROVE  MemoryInv'
  <2>1. MemoryTypes'
    BY <1>1, ChangeRefsType DEF global, MemoryInv, MemoryTypes
  <2> QED
    BY <1>1, <2>1, ChangeRefsKeeps DEF global
<1>2. ASSUME UNCHANGED <<global, heap, owned>>,
             capture' \in [Captures -> CaptureRecord], thread' \in [Threads -> ThreadRecord],
             ThreadsKeepBuffers
      PROVE  MemoryInv'
  <2>1. MemoryTypes'
    BY <1>2 DEF global, heap, MemoryInv, MemoryTypes
  <2> QED
    BY <1>2, <2>1, NothingTouched, SameThreads DEF global, heap
<1>3. ASSUME NEW c \in Captures, CaptureCreate(t, c) PROVE MemoryInv'
  <2>1. capture' \in [Captures -> CaptureRecord]
    BY <1>3 DEF CaptureCreate, MemoryInv, MemoryTypes, CaptureRecord
  <2> QED
    BY <1>2, <1>3, <2>1, SameThreads DEF CaptureCreate, MemoryInv, MemoryTypes
<1>4. ASSUME NEW u \in Threads, NEW c \in Captures, CaptureIncRef(t, u, c) PROVE MemoryInv'
  <2>1. capture' \in [Captures -> CaptureRecord]
    BY <1>4 DEF CaptureIncRef, MemoryInv, MemoryTypes, CaptureRecord
  <2> QED
    BY <1>2, <1>4, <2>1, SameThreads DEF CaptureIncRef, MemoryInv, MemoryTypes
<1>5. ASSUME NEW c \in Captures, CaptureDecRef(t, c) PROVE MemoryInv'
  <2>1. NoCapture \in CaptureRecord
    BY DEF NoCapture, CaptureRecord
  <2>2. capture' \in [Captures -> CaptureRecord]
    <3>1. CASE capture[c].ref_count = 1
      BY <1>5, <2>1, <3>1 DEF CaptureDecRef, MemoryInv, MemoryTypes
    <3>2. CASE capture[c].ref_count # 1
      BY <1>5, <3>2 DEF CaptureDecRef, MemoryInv, MemoryTypes, CaptureRecord
    <3> QED
      BY <3>1, <3>2
  <2>3. UNCHANGED <<global, thread, owned>>
    BY <1>5 DEF CaptureDecRef
  <2>4. CASE capture[c].ref_count = 1
    <3> DEFINE delta == [i \in Images |->
                  -Cardinality({k \in ImageTypes : capture[c].image[k] = i})]
    <3>1. delta \in [Images -> Int]
      BY LastReferenceType
    <3>2. ChangeRefs(delta)
      BY <1>5, <2>4 DEF CaptureDecRef
    <3> HIDE DEF delta
    <3> QED
      BY <1>1, <2>2, <2>3, <3>1, <3>2, SameThreads DEF MemoryInv, MemoryTypes
  <2>5. CASE capture[c].ref_count # 1
    BY <1>2, <1>5, <2>2, <2>3, <2>5, SameThreads DEF CaptureDecRef, MemoryInv, MemoryTypes
  <2> QED
    BY <2>4, <2>5
<1>6. ASSUME NEW c \in Captures, NEW k \in ImageTypes, NEW i \in Images \cup {None},
             CaptureSetImage(t, c, k, i)
      PROVE  MemoryInv'
  <2>1. [capture[c] EXCEPT !.image = [capture[c].image EXCEPT ![k] = i]] \in CaptureRecord
    BY DEF MemoryInv, MemoryTypes, CaptureRecord
  <2>2. capture' = [capture EXCEPT ![c] =
                      [capture[c] EXCEPT !.image = [capture[c].image EXCEPT ![k] = i]]]
    BY <1>6 DEF CaptureSetImage, MemoryInv, MemoryTypes
  <2>3. capture' \in [Captures -> CaptureRecord]
    BY <2>1, <2>2 DEF MemoryInv, MemoryTypes
  <2> QED
    BY <1>1, <1>6, <2>3, DeltaType, SameThreads
       DEF CaptureSetImage, held, MemoryInv, MemoryTypes
<1>7. ASSUME NEW c \in Captures, NEW k \in ImageTypes, CaptureGetImage(t, c, k)
      PROVE  MemoryInv'
  <2> DEFINE i == capture[c].image[k]
             r == [Idle EXCEPT !.at = "get", !.capture = c, !.type = k, !.image = i]
  <2>1. i \in Images \cup {None}
    BY DEF MemoryInv, MemoryTypes, CaptureRecord
  <2>2. r \in ThreadRecord /\ r.buffer = None
    BY <2>1 DEF ThreadRecord, Idle
  <2>3. thread[t].at # "called" /\ thread[t].buffer = None
    BY <1>7 DEF CaptureGetImage, MemoryInv, HeaderPending
  <2>4. thread' = [thread EXCEPT ![t] = r]
    BY <1>7 DEF CaptureGetImage
  <2> HIDE DEF r
  <2>5. /\ thread' \in [Threads -> ThreadRecord]
        /\ ThreadsKeepBuffers
    BY <2>2, <2>3, <2>4 DEF MemoryInv, MemoryTypes, ThreadsKeepBuffers
  <2> QED
    <3>1. ChangeRefs(Plus(i)) /\ UNCHANGED <<global, capture, owned>>
      BY <1>7 DEF CaptureGetImage, held, global
    <3>2. Plus(i) \in [Images -> Int]
      BY DeltaType
    <3>3. capture' \in [Captures -> CaptureRecord]
      BY <3>1 DEF MemoryInv, MemoryTypes
    <3> QED
      BY <1>1, <2>5, <3>1, <3>2, <3>3 DEF global
<1>8. CASE CaptureGetReturns(t)
  <2>1. thread[t].at # "called" /\ thread[t].buffer = None
    BY <1>8 DEF CaptureGetReturns, MemoryInv, HeaderPending
  <2>2. /\ thread' \in [Threads -> ThreadRecord]
        /\ ThreadsKeepBuffers
    BY <1>8, <2>1
       DEF CaptureGetReturns, MemoryInv, MemoryTypes, ThreadRecord, Idle, ThreadsKeepBuffers
  <2> QED
    <3>1. UNCHANGED <<global, heap, capture, owned>>
      BY <1>8 DEF CaptureGetReturns, global, heap
    <3>2. capture' \in [Captures -> CaptureRecord]
      BY <3>1 DEF MemoryInv, MemoryTypes
    <3> QED
      BY <1>2, <2>2, <3>1, <3>2 DEF global, heap
<1> QED
  BY <1>3, <1>4, <1>5, <1>6, <1>7, <1>8 DEF CaptureSteps

LEMMA MemoryStep == MemoryInv /\ [Next]_vars => MemoryInv'
<1> SUFFICES ASSUME MemoryInv, [Next]_vars PROVE MemoryInv'
  OBVIOUS
<1>1. CASE Initialize \/ Deinitialize
  BY <1>1 DEF Initialize, Deinitialize, heap, held, MemoryInv, MemoryTypes,
              HeaderPending, OwnedIsAllocated, OneOwner, FreedByItsAllocator
<1>2. CASE UNCHANGED vars
  BY <1>2 DEF vars, global, heap, held, MemoryInv, MemoryTypes,
              HeaderPending, OwnedIsAllocated, OneOwner, FreedByItsAllocator
<1> QED
  BY <1>1, <1>2, SetAllocatorStep, AllocStep, ImageStep, CaptureStep DEF Next

(* Whatever the application does with its callbacks, a buffer is returned  *)
(* to the free callback that was installed together with the allocate      *)
(* callback that made it, as allocator_free promises.                      *)
THEOREM FreeMatchesAlloc == Spec => []FreedByItsAllocator
<1>1. MemoryInv => FreedByItsAllocator
  BY DEF MemoryInv
<1> QED
  BY <1>1, MemoryInit, MemoryStep, PTL DEF Spec

(* On every path through allocator_alloc, image_create_empty_image,        *)
(* image_create_from_buffer and image_dec_ref a buffer has at most one     *)
(* owner, so it is freed at most once.                                     *)
THEOREM NoBufferHasTwoOwners == Spec => []OneOwner
<1>1. MemoryInv => OneOwner
  BY DEF MemoryInv
<1> QED
  BY <1>1, MemoryInit, MemoryStep, PTL DEF Spec

-----------------------------------------------------------------------------
(* The references: who will release which image and which capture.         *)

(* The references of x that threads have to release, by the counters of f. *)
Refs(f, x) == {tn \in Threads \X (1 .. 2 * MaxRefs) : tn[2] <= f[tn[1]][x]}

Slots(i) == {ck \in Captures \X ImageTypes : capture[ck[1]].image[ck[2]] = i}
Gets(i) == {t \in Threads : thread[t].at = "get" /\ thread[t].image = i}
Users(i) == Cardinality(Refs(iheld, i)) + Cardinality(Slots(i)) + Cardinality(Gets(i))

CounterTypes ==
  /\ count \in [Sources -> Int]
  /\ failures \in [Sources -> Nat]
  /\ iheld \in [Threads -> [Images -> Nat]]
  /\ cheld \in [Threads -> [Captures -> Nat]]

(* The counters fit in the range Refs counts: a thread that is about to    *)
(* get one more reference has room for it.                                 *)
RoomForRefs ==
  \A t \in Threads :
    /\ \A i \in Images : /\ iheld[t][i] <= MaxRefs + 1
                         /\ thread[t].at = "get" /\ thread[t].image = i => iheld[t][i] <= MaxRefs
    /\ \A c \in Captures : cheld[t][c] <= MaxRefs

(* A buffer without a header is with the thread that is about to write it. *)
Headers ==
  /\ \A b \in Buffers :
       /\ buffer[b].by = None => buffer[b] = NoBuffer
       /\ buffer[b].source = None <=> buffer[b].free = None
       /\ buffer[b].by # None => Owners(b) # {}
  /\ \A t \in Threads :
       /\ thread[t].buffer # None => buffer[thread[t].buffer].free = None
       /\ \A b \in owned[t] : buffer[b].free # None
  /\ \A i \in Images : image[i].buffer # None => buffer[image[i].buffer].free # None

(* An image has references once it has a buffer; before, it is with the    *)
(* thread that makes it, or was lost by one that failed to.                *)
ImageStates ==
  \A i \in Images :
    /\ ~image[i].handle => image[i] = NoImage
    /\ image[i].ref_count > 0 <=> image[i].buffer # None
    /\ \A t, u \in Threads :
         thread[t].at \in {"counted", "called"} /\ thread[t].image = i =>
           /\ image[i].handle /\ image[i].ref_count = 0
           /\ thread[u].at \in {"counted", "called"} /\ thread[u].image = i => t = u

ThreadStates ==
  \A t \in Threads :
    /\ thread[t].source # None <=> thread[t].at \in {"counted", "called"}
    /\ thread[t].at = "get" =>
         /\ thread[t].capture \in Captures /\ thread[t].type \in ImageTypes
         /\ cheld[t][thread[t].capture] > 0
         /\ capture[thread[t].capture].image[thread[t].type] = thread[t].image

(* The count of an image and of a capture is the number of references.     *)
ImagesExact ==
  \A i \in Images : Users(i) = IF image[i].ref_count > 0 THEN image[i].ref_count ELSE 0

CapturesExact ==
  \A c \in Captures :
    /\ capture[c].ref_count = Cardinality(Refs(cheld, c))
    /\ capture[c].ref_count = 0 => \A k \in ImageTypes : capture[c].image[k] = None

(* CountExplained, without the sessions.                                   *)
Explained ==
  \A s \in Sources :
    count[s] = Cardinality(Outstanding(s)) + Cardinality(Allocating(s)) + failures[s]

RefInv ==
  /\ CounterTypes
  /\ RoomForRefs
  /\ Headers
  /\ ImageStates
  /\ ThreadStates
  /\ ImagesExact
  /\ CapturesExact
  /\ Explained

-----------------------------------------------------------------------------
(* Counting references                                                     *)

LEMMA RefsCounted ==
  ASSUME NEW f, NEW x
  PROVE  IsFiniteSet(Refs(f, x)) /\ Cardinality(Refs(f, x)) \in Nat
<1>1. IsFiniteSet(1 .. 2 * MaxRefs)
  BY MemoryAssumption, FS_Interval
<1>2. IsFiniteSet(Threads \X (1 .. 2 * MaxRefs))
  BY <1>1, MemoryAssumption, FS_Product
<1>3. IsFiniteSet(Refs(f, x))
  BY <1>2, FS_Subset DEF Refs
<1> QED
  BY <1>3, FS_CardinalityType

LEMMA RefsSame ==
  ASSUME NEW f, NEW g, NEW x, \A u \in Threads : g[u][x] = f[u][x]
  PROVE  Refs(g, x) = Refs(f, x)
BY DEF Refs

LEMMA RefsUp ==
  ASSUME NEW f, NEW g, NEW x, NEW t \in Threads,
         \A u \in Threads : f[u][x] \in Nat,
         f[t][x] < 2 * MaxRefs,
         g[t][x] = f[t][x] + 1,
         \A u \in Threads : u # t => g[u][x] = f[u][x]
  PROVE  Cardinality(Refs(g, x)) = Cardinality(Refs(f, x)) + 1
<1> DEFINE n == f[t][x] + 1
<1>1. n \in 1 .. 2 * MaxRefs /\ ~(n <= f[t][x])
  BY MemoryAssumption
<1>2. <<t, n>> \notin Refs(f, x)
  BY <1>1 DEF Refs
<1>3. Refs(g, x) = Refs(f, x) \cup {<<t, n>>}
  <2>1. ASSUME NEW u \in Threads, NEW m \in 1 .. 2 * MaxRefs
        PROVE  m <= g[u][x] <=> m <= f[u][x] \/ (u = t /\ m = n)
    BY <1>1
  <2>2. \A tn \in Threads \X (1 .. 2 * MaxRefs) :
          tn = <<tn[1], tn[2]>> /\ tn[1] \in Threads /\ tn[2] \in 1 .. 2 * MaxRefs
    OBVIOUS
  <2>3. <<t, n>> \in Threads \X (1 .. 2 * MaxRefs)
    BY <1>1
  <2> HIDE DEF n
  <2> QED
    BY <2>1, <2>2, <2>3 DEF Refs
<1> QED
  BY <1>2, <1>3, RefsCounted, FS_AddElement, ZenonT(40)

LEMMA RefsDown ==
  ASSUME NEW f, NEW g, NEW x, NEW t \in Threads,
         \A u \in Threads : f[u][x] \in Nat,
         f[t][x] > 0, f[t][x] <= 2 * MaxRefs,
         g[t][x] = f[t][x] - 1,
         \A u \in Threads : u # t => g[u][x] = f[u][x]
  PROVE  Cardinality(Refs(g, x)) = Cardinality(Refs(f, x)) - 1
<1>1. /\ \A u \in Threads : g[u][x] \in Nat
      /\ g[t][x] < 2 * MaxRefs /\ f[t][x] = g[t][x] + 1
  BY MemoryAssumption
<1>2. Cardinality(Refs(f, x)) = Cardinality(Refs(g, x)) + 1
  BY <1>1, RefsUp
<1> QED
  BY <1>2, RefsCounted

LEMMA RefsSome ==
  ASSUME NEW f, NEW x, NEW t \in Threads, f[t][x] \in Nat, f[t][x] > 0
  PROVE  Cardinality(Refs(f, x)) > 0
<1>1. <<t, 1>> \in Refs(f, x)
  BY MemoryAssumption DEF Refs
<1> QED
  BY <1>1, RefsCounted, FS_EmptySet

LEMMA RefsOne ==
  ASSUME NEW f, NEW x, NEW t \in Threads, \A u \in Threads : f[u][x] \in Nat,
         f[t][x] > 0, Cardinality(Refs(f, x)) = 1
  PROVE  \A u \in Threads : u # t => f[u][x] = 0
<1> SUFFICES ASSUME NEW u \in Threads, u # t, f[u][x] # 0 PROVE FALSE
  OBVIOUS
<1>1. <<t, 1>> \in Refs(f, x) /\ <<u, 1>> \in Refs(f, x)
  BY MemoryAssumption DEF Refs
<1>2. PICK y : Refs(f, x) = {y}
  BY RefsCounted, FS_Singleton
<1> QED
  BY <1>1, <1>2

LEMMA SlotsCounted ==
  ASSUME NEW i
  PROVE  IsFiniteSet(Slots(i)) /\ Cardinality(Slots(i)) \in Nat
<1>1. IsFiniteSet(Captures \X ImageTypes)
  BY MemoryAssumption, FS_Product
<1>2. IsFiniteSet(Slots(i))
  BY <1>1, FS_Subset DEF Slots
<1> QED
  BY <1>2, FS_CardinalityType

LEMMA GetsCounted ==
  ASSUME NEW i
  PROVE  IsFiniteSet(Gets(i)) /\ Cardinality(Gets(i)) \in Nat
<1>2. IsFiniteSet(Gets(i))
  BY MemoryAssumption, FS_Subset DEF Gets
<1> QED
  BY <1>2, FS_CardinalityType

(* The same of the state after a step.                                     *)
LEMMA CountedAfter ==
  ASSUME NEW i
  PROVE  /\ IsFiniteSet(Slots(i)') /\ Cardinality(Slots(i)') \in Nat
         /\ IsFiniteSet(Gets(i)') /\ Cardinality(Gets(i)') \in Nat
<1>1. IsFiniteSet(Captures \X ImageTypes)
  BY MemoryAssumption, FS_Product
<1>2. IsFiniteSet(Slots(i)')
  BY <1>1, FS_Subset DEF Slots
<1>3. IsFiniteSet(Gets(i)')
  BY MemoryAssumption, FS_Subset DEF Gets
<1> QED
  BY <1>2, <1>3, FS_CardinalityType

LEMMA UsersCounted ==
  ASSUME NEW i
  PROVE  Users(i) \in Nat /\ Users(i)' \in Nat
BY RefsCounted, SlotsCounted, GetsCounted, CountedAfter DEF Users

(* What is referred to is used, and what is used is there.                 *)
LEMMA UsedIsThere ==
  ASSUME MemoryInv, RefInv, NEW i \in Images,
         \/ \E t \in Threads : iheld[t][i] > 0
         \/ \E c \in Captures, k \in ImageTypes : capture[c].image[k] = i
         \/ Gets(i) # {}
  PROVE  /\ Users(i) > 0 /\ image[i].ref_count > 0 /\ image[i].handle
         /\ image[i].buffer \in Buffers /\ buffer[image[i].buffer].free # None
<1>1. Users(i) > 0
  <2>1. CASE \E t \in Threads : iheld[t][i] > 0
    <3>1. PICK t \in Threads : iheld[t][i] > 0 /\ iheld[t][i] \in Nat
      BY <2>1 DEF RefInv, CounterTypes
    <3> QED
      BY <3>1, RefsSome, RefsCounted, SlotsCounted, GetsCounted DEF Users
  <2>2. CASE \E c \in Captures, k \in ImageTypes : capture[c].image[k] = i
    <3>1. PICK c \in Captures, k \in ImageTypes : capture[c].image[k] = i
      BY <2>2
    <3>2. <<c, k>> \in Slots(i)
      BY <3>1 DEF Slots
    <3>3. Cardinality(Slots(i)) > 0
      BY <3>2, SlotsCounted, FS_EmptySet
    <3> QED
      BY <3>3, RefsCounted, SlotsCounted, GetsCounted DEF Users
  <2>3. CASE Gets(i) # {}
    <3>1. Cardinality(Gets(i)) > 0
      BY <2>3, GetsCounted, FS_EmptySet
    <3> QED
      BY <3>1, RefsCounted, SlotsCounted, GetsCounted DEF Users
  <2> QED
    BY <2>1, <2>2, <2>3
<1>2. image[i].ref_count > 0
  BY <1>1 DEF RefInv, ImagesExact
<1>3. image[i].buffer # None /\ image[i].handle
  BY <1>2 DEF RefInv, ImageStates, NoImage
<1> QED
  BY <1>1, <1>2, <1>3 DEF MemoryInv, MemoryTypes, ImageRecord, RefInv, Headers

(* allocator_free lowers the count of a source by the buffers it returns.  *)
LEMMA FreeCounts ==
  ASSUME MemoryInv, RefInv, NEW bs \in SUBSET Buffers, allocator_free(bs), NEW s \in Sources
  PROVE  /\ count' \in [Sources -> Int]
         /\ count'[s] - Cardinality(Outstanding(s)') = count[s] - Cardinality(Outstanding(s))
<1> DEFINE gone == {b \in bs : buffer[b].source = s}
<1>1. \A b \in Buffers : buffer'[b] = IF b \in bs THEN NoBuffer ELSE buffer[b]
  BY DEF allocator_free
<1>2. Outstanding(s)' = Outstanding(s) \ gone
  BY <1>1, MemoryAssumption DEF Outstanding, NoBuffer
<1>3. Outstanding(s) \cap gone = gone
  BY DEF Outstanding
<1>4. IsFiniteSet(Outstanding(s)) /\ IsFiniteSet(gone)
  BY MemoryAssumption, FS_Subset DEF Outstanding
<1>5. Cardinality(Outstanding(s)') = Cardinality(Outstanding(s)) - Cardinality(gone)
  BY <1>2, <1>3, <1>4, FS_Difference
<1>6. count'[s] = count[s] - Cardinality(gone) /\ count[s] \in Int
  BY DEF allocator_free, RefInv, CounterTypes
<1>7. \A r \in Sources : IsFiniteSet({b \in bs : buffer[b].source = r})
  BY MemoryAssumption, FS_Subset
<1>8. \A r \in Sources : count[r] - Cardinality({b \in bs : buffer[b].source = r}) \in Int
  BY <1>7, FS_CardinalityType DEF RefInv, CounterTypes
<1>9. count' \in [Sources -> Int]
  BY <1>8 DEF allocator_free
<1>10. Cardinality(Outstanding(s)) \in Nat /\ Cardinality(gone) \in Nat
  BY <1>4, FS_CardinalityType
<1> HIDE DEF gone
<1> QED
  BY <1>5, <1>6, <1>9, <1>10

(* A step after which threads are where they were in allocator_alloc.      *)
AllocationsStay ==
  \A t \in Threads :
    /\ thread'[t].source = thread[t].source /\ thread'[t].buffer = thread[t].buffer
    /\ thread[t].at = "called" <=> thread'[t].at = "called"
    /\ thread[t].at \in {"counted", "called"} <=> thread'[t].at \in {"counted", "called"}
    /\ thread'[t].at \in {"counted", "called"} => thread'[t].image = thread[t].image

LEMMA ThreadsStay == UNCHANGED thread => AllocationsStay
BY DEF AllocationsStay

LEMMA AllocatingStays ==
  ASSUME AllocationsStay, NEW s
  PROVE  Allocating(s)' = Allocating(s)
BY DEF AllocationsStay, Allocating

(* Counts that change with the references stay exact, and an image that    *)
(* loses its last reference takes its buffer along.                        *)
LEMMA ChangeRefsExact ==
  ASSUME MemoryInv, RefInv, NEW delta \in [Images -> Int], ChangeRefs(delta),
         AllocationsStay, UNCHANGED <<owned, failures>>,
         \A i \in Images : Users(i)' = Users(i) + delta[i],
         \A i \in Images : delta[i] > 0 => Users(i) > 0
  PROVE  /\ Headers' /\ ImageStates' /\ Explained' /\ count' \in [Sources -> Int]
         /\ \A i \in Images :
              Users(i)' = IF image'[i].ref_count > 0 THEN image'[i].ref_count ELSE 0
<1> DEFINE dead == Dead(delta)
           freed == {image[i].buffer : i \in dead}
<1>1. \A i \in Images : image'[i] = IF i \in dead THEN NoImage
                                    ELSE [image[i] EXCEPT !.ref_count = image[i].ref_count + delta[i]]
  BY DEF ChangeRefs
<1>2. \A i \in Images : image[i] \in ImageRecord
  BY DEF MemoryInv, MemoryTypes
<1>3. \A i \in Images :
        /\ image[i].ref_count <= 0 => delta[i] = 0
        /\ i \in dead <=> delta[i] < 0 /\ image[i].ref_count + delta[i] = 0
        /\ image[i].ref_count > 0 => image[i].ref_count + delta[i] >= 0
  <2> SUFFICES ASSUME NEW i \in Images
               PROVE  /\ image[i].ref_count <= 0 => delta[i] = 0
                      /\ i \in dead <=> delta[i] < 0 /\ image[i].ref_count + delta[i] = 0
                      /\ image[i].ref_count > 0 => image[i].ref_count + delta[i] >= 0
    OBVIOUS
  <2>1. /\ Users(i) \in Nat /\ Users(i) + delta[i] \in Nat /\ delta[i] \in Int
        /\ delta[i] > 0 => Users(i) > 0
        /\ image[i].ref_count \in Int
        /\ Users(i) = IF image[i].ref_count > 0 THEN image[i].ref_count ELSE 0
    BY <1>2, UsersCounted DEF RefInv, ImagesExact, ImageRecord
  <2> QED
    BY <2>1 DEF Dead
<1>4. \A i \in Images :
        \/ i \in dead /\ image'[i] = NoImage /\ image[i].ref_count > 0
        \/ /\ i \notin dead
           /\ image'[i].handle = image[i].handle /\ image'[i].buffer = image[i].buffer
           /\ image'[i].ref_count = image[i].ref_count + delta[i]
           /\ image[i].ref_count > 0 => image'[i].ref_count > 0
           /\ image[i].ref_count <= 0 => image'[i] = image[i]
  <2>4. ASSUME NEW i \in dead
        PROVE  i \in Images /\ image'[i] = NoImage /\ image[i].ref_count > 0
    <3>1. i \in Images
      BY DEF Dead
    <3>2. image[i].ref_count \in Int /\ delta[i] \in Int
      BY <1>2, <3>1 DEF ImageRecord
    <3>3. i \in dead
      BY <2>4
    <3> HIDE DEF dead
    <3>4. delta[i] < 0 /\ image[i].ref_count + delta[i] = 0
      BY <1>3, <3>1, <3>3
    <3>5. image'[i] = NoImage
      BY <1>1, <3>1, <3>3
    <3> QED
      BY <3>1, <3>2, <3>4, <3>5
  <2> SUFFICES ASSUME NEW i \in Images, i \notin dead
               PROVE  /\ image'[i].handle = image[i].handle /\ image'[i].buffer = image[i].buffer
                      /\ image'[i].ref_count = image[i].ref_count + delta[i]
                      /\ image[i].ref_count > 0 => image'[i].ref_count > 0
                      /\ image[i].ref_count <= 0 => image'[i] = image[i]
    BY <2>4
  <2> HIDE DEF dead
  <2>1. image[i].ref_count \in Int /\ delta[i] \in Int
    BY <1>2 DEF ImageRecord
  <2>2. image'[i] = [handle |-> image[i].handle, ref_count |-> image[i].ref_count + delta[i],
                     buffer |-> image[i].buffer]
    BY <1>1, <1>2 DEF ImageRecord
  <2>3. image[i] = [handle |-> image[i].handle, ref_count |-> image[i].ref_count,
                    buffer |-> image[i].buffer]
    BY <1>2 DEF ImageRecord
  <2> QED
    BY <1>3, <2>1, <2>2, <2>3
<1>5. \A i \in Images :
        Users(i)' = IF image'[i].ref_count > 0 THEN image'[i].ref_count ELSE 0
  <2> SUFFICES ASSUME NEW i \in Images
               PROVE  Users(i)' = IF image'[i].ref_count > 0 THEN image'[i].ref_count ELSE 0
    OBVIOUS
  <2>1. /\ Users(i)' = Users(i) + delta[i] /\ delta[i] \in Int /\ image[i].ref_count \in Int
        /\ Users(i) = IF image[i].ref_count > 0 THEN image[i].ref_count ELSE 0
    BY <1>2 DEF RefInv, ImagesExact, ImageRecord
  <2> HIDE DEF dead
  <2> QED
    BY <1>3, <1>4, <2>1 DEF NoImage
<1>6. /\ \A b \in Buffers : buffer'[b] = IF b \in freed THEN NoBuffer ELSE buffer[b]
      /\ allocator_free(freed)
  BY DEF ChangeRefs, allocator_free
<1>7. dead \subseteq Images /\ freed \subseteq Buffers
  <2>1. dead \subseteq Images
    BY DEF Dead
  <2>2. \A i \in dead : image[i].buffer # None
    BY <1>4, <2>1 DEF RefInv, ImageStates
  <2> QED
    BY <1>2, <2>1, <2>2 DEF ImageRecord
<1>8. /\ \A t \in Threads : thread[t].buffer \notin freed
      /\ \A t \in Threads : \A b \in owned[t] : b \notin freed
      /\ \A i \in Images : i \notin dead => image[i].buffer \notin freed
  <2>1. \A i \in dead : image[i].buffer # None /\ i \in Images
    BY <1>4, <1>7 DEF RefInv, ImageStates
  <2> HIDE DEF dead
  <2> QED
    BY <2>1 DEF MemoryInv, OneOwner
<1>9. Explained'
  <2> SUFFICES ASSUME NEW s \in Sources
               PROVE  count'[s] = Cardinality(Outstanding(s)') + Cardinality(Allocating(s)') + failures'[s]
    BY DEF Explained
  <2>1. count'[s] - Cardinality(Outstanding(s)') = count[s] - Cardinality(Outstanding(s))
    BY <1>6, <1>7, FreeCounts
  <2>2. Allocating(s)' = Allocating(s) /\ failures'[s] = failures[s]
    BY AllocatingStays
  <2>3. count[s] = Cardinality(Outstanding(s)) + Cardinality(Allocating(s)) + failures[s]
    BY DEF RefInv, Explained
  <2>4. IsFiniteSet(Outstanding(s)) /\ IsFiniteSet(Outstanding(s)') /\ IsFiniteSet(Allocating(s))
    BY MemoryAssumption, FS_Subset DEF Outstanding, Allocating
  <2>5. /\ Cardinality(Outstanding(s)) \in Nat /\ Cardinality(Outstanding(s)') \in Nat
        /\ Cardinality(Allocating(s)) \in Nat
    BY <2>4, FS_CardinalityType
  <2>6. count'[s] \in Int /\ count[s] \in Int /\ failures[s] \in Nat
    BY <1>6, <1>7, FreeCounts DEF RefInv, CounterTypes
  <2> QED
    BY <2>1, <2>2, <2>3, <2>5, <2>6
<1>10. count' \in [Sources -> Int]
  <2>1. CASE Sources = {}
    BY <1>6, <2>1 DEF allocator_free
  <2>2. CASE Sources # {}
    BY <1>6, <1>7, <2>2, FreeCounts
  <2> QED
    BY <2>1, <2>2
<1> HIDE DEF dead, freed
<1>11. ImageStates'
  <2>1. \A i \in Images : /\ ~image'[i].handle => image'[i] = NoImage
                          /\ image'[i].ref_count > 0 <=> image'[i].buffer # None
    <3> SUFFICES ASSUME NEW i \in Images
                 PROVE  /\ ~image'[i].handle => image'[i] = NoImage
                        /\ image'[i].ref_count > 0 <=> image'[i].buffer # None
      OBVIOUS
    <3>1. CASE i \in dead
      <4>1. image'[i] = NoImage
        BY <1>4, <3>1
      <4> QED
        BY <4>1 DEF NoImage
    <3>2. CASE i \notin dead
      <4>1. ~image[i].handle => image[i].ref_count <= 0
        BY DEF RefInv, ImageStates, NoImage
      <4>2. image[i].ref_count \in Int
        BY <1>2 DEF ImageRecord
      <4>3. /\ ~image[i].handle => image[i] = NoImage
            /\ image[i].ref_count > 0 <=> image[i].buffer # None
        BY DEF RefInv, ImageStates
      <4>4. CASE image[i].ref_count > 0
        BY <1>4, <3>2, <4>1, <4>2, <4>3, <4>4
      <4>5. CASE image[i].ref_count <= 0
        BY <1>4, <3>2, <4>3, <4>5
      <4> QED
        BY <4>2, <4>4, <4>5
    <3> QED
      BY <3>1, <3>2
  <2>2. \A i \in Images : image[i].ref_count = 0 => image'[i] = image[i]
    BY <1>4
  <2> QED
    BY <2>1, <2>2 DEF RefInv, ImageStates, AllocationsStay
<1>12. Headers'
  <2>1. \A b \in Buffers : /\ buffer'[b].by = None => buffer'[b] = NoBuffer
                           /\ buffer'[b].source = None <=> buffer'[b].free = None
    BY <1>6 DEF RefInv, Headers, NoBuffer
  <2>2. \A t \in Threads : thread'[t].buffer # None => buffer'[thread'[t].buffer].free = None
    BY <1>6, <1>8 DEF RefInv, Headers, AllocationsStay, MemoryInv, MemoryTypes, ThreadRecord
  <2>3. \A t \in Threads : \A b \in owned'[t] : buffer'[b].free # None
    BY <1>6, <1>8 DEF RefInv, Headers, MemoryInv, MemoryTypes
  <2>4. \A i \in Images : image'[i].buffer # None => buffer'[image'[i].buffer].free # None
    BY <1>2, <1>4, <1>6, <1>8 DEF RefInv, Headers, NoImage, ImageRecord
  <2>5. \A b \in Buffers : buffer'[b].by # None => Owners(b)' # {}
    <3> SUFFICES ASSUME NEW b \in Buffers, buffer'[b].by # None PROVE Owners(b)' # {}
      OBVIOUS
    <3>1. b \notin freed /\ buffer[b].by # None
      BY <1>6 DEF NoBuffer
    <3>2. PICK o \in Owners(b) : TRUE
      BY <3>1 DEF RefInv, Headers
    <3>3. CASE o \in Images /\ image[o].buffer = b
      <4>1. o \notin dead
        BY <3>1, <3>3 DEF freed
      <4> QED
        BY <1>4, <3>3, <4>1 DEF Owners
    <3>4. CASE o \in Threads /\ (b \in owned[o] \/ (thread[o].at = "called" /\ thread[o].buffer = b))
      BY <3>4 DEF Owners, AllocationsStay
    <3> QED
      BY <3>2, <3>3, <3>4 DEF Owners
  <2> QED
    BY <2>1, <2>2, <2>3, <2>4, <2>5 DEF Headers
<1> QED
  BY <1>5, <1>9, <1>10, <1>11, <1>12

-----------------------------------------------------------------------------
(* The steps that move references                                          *)

(* The memory is left alone, and every image has as many users as before.  *)
LEMMA HeapStays ==
  ASSUME MemoryInv, RefInv, AllocationsStay, UNCHANGED <<heap, owned, failures>>,
         \A i \in Images : Users(i)' = Users(i)
  PROVE  Headers' /\ ImageStates' /\ Explained' /\ ImagesExact' /\ count' \in [Sources -> Int]
<1>1. image' = image /\ buffer' = buffer /\ count' = count
  BY DEF heap
<1>2. \A b \in Buffers : Owners(b)' = Owners(b)
  BY <1>1 DEF Owners, AllocationsStay
<1>3. Headers'
  BY <1>1, <1>2 DEF RefInv, Headers, AllocationsStay
<1>4. ImageStates'
  BY <1>1 DEF RefInv, ImageStates, AllocationsStay
<1>5. \A s \in Sources : Outstanding(s)' = Outstanding(s) /\ Allocating(s)' = Allocating(s)
  BY <1>1, AllocatingStays DEF Outstanding
<1>6. Explained'
  BY <1>1, <1>5 DEF RefInv, Explained
<1> QED
  BY <1>1, <1>3, <1>4, <1>6 DEF RefInv, ImagesExact, CounterTypes

(* The slots and the threads in capture_get_..._image are left alone.      *)
LEMMA CapturesStay ==
  ASSUME RefInv, UNCHANGED <<capture, thread, cheld>>
  PROVE  /\ ThreadStates' /\ CapturesExact' /\ AllocationsStay
         /\ \A i : Slots(i)' = Slots(i) /\ Gets(i)' = Gets(i)
BY ThreadsStay DEF RefInv, ThreadStates, CapturesExact, Slots, Gets

LEMMA HeldMore ==
  ASSUME RefInv, NEW u \in Threads, NEW i \in Images, iheld[u][i] < 2 * MaxRefs,
         iheld' = [iheld EXCEPT ![u][i] = @ + 1]
  PROVE  /\ iheld' \in [Threads -> [Images -> Nat]]
         /\ \A v \in Threads, j \in Images :
              iheld'[v][j] = IF v = u /\ j = i THEN iheld[v][j] + 1 ELSE iheld[v][j]
         /\ \A j \in Images :
              Cardinality(Refs(iheld, j)') = Cardinality(Refs(iheld, j)) + Plus(i)[j]
<1>1. \A v \in Threads : iheld[v] \in [Images -> Nat]
  BY DEF RefInv, CounterTypes
<1>2. iheld' = [iheld EXCEPT ![u] = [iheld[u] EXCEPT ![i] = iheld[u][i] + 1]]
  BY <1>1 DEF RefInv, CounterTypes
<1>3. [iheld[u] EXCEPT ![i] = iheld[u][i] + 1] \in [Images -> Nat]
  BY <1>1
<1>4. iheld' \in [Threads -> [Images -> Nat]]
  BY <1>2, <1>3 DEF RefInv, CounterTypes
<1>5. \A v \in Threads, j \in Images :
         iheld'[v][j] = IF v = u /\ j = i THEN iheld[v][j] + 1 ELSE iheld[v][j]
  BY <1>1, <1>2 DEF RefInv, CounterTypes
<1>10. PICK g : g = iheld'
  OBVIOUS
<1>11. PICK f : f = iheld
  OBVIOUS
<1>6. Cardinality(Refs(g, i)) = Cardinality(Refs(f, i)) + 1
  <2>1. /\ \A v \in Threads : f[v][i] \in Nat
        /\ f[u][i] < 2 * MaxRefs /\ g[u][i] = f[u][i] + 1
        /\ \A v \in Threads : v # u => g[v][i] = f[v][i]
    BY <1>1, <1>5, <1>10, <1>11
  <2> QED
    BY <2>1, RefsUp
<1>7. ASSUME NEW j \in Images, j # i
      PROVE  Refs(g, j) = Refs(f, j)
  <2>1. \A v \in Threads : g[v][j] = f[v][j]
    BY <1>5, <1>7, <1>10, <1>11
  <2> QED
    BY <2>1, RefsSame
<1>8. \A j \in Images : Refs(iheld, j)' = Refs(g, j) /\ Refs(iheld, j) = Refs(f, j)
  BY <1>10, <1>11 DEF Refs
<1>12. ASSUME NEW j \in Images
       PROVE  Cardinality(Refs(iheld, j)') = Cardinality(Refs(iheld, j)) + Plus(i)[j]
  <2>1. Refs(iheld, j)' = Refs(g, j) /\ Refs(iheld, j) = Refs(f, j)
    BY <1>8
  <2>2. Cardinality(Refs(f, j)) \in Nat
    BY RefsCounted
  <2>3. CASE j = i
    BY <1>6, <2>1, <2>2, <2>3 DEF Plus
  <2>4. CASE j # i
    BY <1>7, <2>1, <2>2, <2>4 DEF Plus
  <2> QED
    BY <2>3, <2>4
<1> QED
  BY <1>4, <1>5, <1>12

LEMMA HeldLess ==
  ASSUME RefInv, NEW u \in Threads, NEW i \in Images, iheld[u][i] > 0,
         iheld' = [iheld EXCEPT ![u][i] = @ - 1]
  PROVE  /\ iheld' \in [Threads -> [Images -> Nat]]
         /\ \A v \in Threads, j \in Images :
              iheld'[v][j] = IF v = u /\ j = i THEN iheld[v][j] - 1 ELSE iheld[v][j]
         /\ \A j \in Images :
              Cardinality(Refs(iheld, j)') = Cardinality(Refs(iheld, j)) + Minus(i)[j]
<1>1. \A v \in Threads : iheld[v] \in [Images -> Nat]
  BY DEF RefInv, CounterTypes
<1>2. iheld' = [iheld EXCEPT ![u] = [iheld[u] EXCEPT ![i] = iheld[u][i] - 1]]
  BY <1>1 DEF RefInv, CounterTypes
<1>3. [iheld[u] EXCEPT ![i] = iheld[u][i] - 1] \in [Images -> Nat]
  BY <1>1
<1>4. iheld' \in [Threads -> [Images -> Nat]]
  BY <1>2, <1>3 DEF RefInv, CounterTypes
<1>5. \A v \in Threads, j \in Images :
         iheld'[v][j] = IF v = u /\ j = i THEN iheld[v][j] - 1 ELSE iheld[v][j]
  BY <1>1, <1>2 DEF RefInv, CounterTypes
<1>9. iheld[u][i] <= 2 * MaxRefs
  BY <1>1, MemoryAssumption DEF RefInv, RoomForRefs
<1>10. PICK g : g = iheld'
  OBVIOUS
<1>11. PICK f : f = iheld
  OBVIOUS
<1>6. Cardinality(Refs(g, i)) = Cardinality(Refs(f, i)) - 1
  <2>1. /\ \A v \in Threads : f[v][i] \in Nat
        /\ f[u][i] > 0 /\ f[u][i] <= 2 * MaxRefs /\ g[u][i] = f[u][i] - 1
        /\ \A v \in Threads : v # u => g[v][i] = f[v][i]
    BY <1>1, <1>5, <1>10, <1>11, <1>9
  <2> QED
    BY <2>1, RefsDown
<1>7. ASSUME NEW j \in Images, j # i
      PROVE  Refs(g, j) = Refs(f, j)
  <2>1. \A v \in Threads : g[v][j] = f[v][j]
    BY <1>5, <1>7, <1>10, <1>11
  <2> QED
    BY <2>1, RefsSame
<1>8. \A j \in Images : Refs(iheld, j)' = Refs(g, j) /\ Refs(iheld, j) = Refs(f, j)
  BY <1>10, <1>11 DEF Refs
<1>12. ASSUME NEW j \in Images
       PROVE  Cardinality(Refs(iheld, j)') = Cardinality(Refs(iheld, j)) + Minus(i)[j]
  <2>1. Refs(iheld, j)' = Refs(g, j) /\ Refs(iheld, j) = Refs(f, j)
    BY <1>8
  <2>2. Cardinality(Refs(f, j)) \in Nat
    BY RefsCounted
  <2>3. CASE j = i
    BY <1>6, <2>1, <2>2, <2>3 DEF Minus
  <2>4. CASE j # i
    BY <1>7, <2>1, <2>2, <2>4 DEF Minus
  <2> QED
    BY <2>3, <2>4
<1> QED
  BY <1>4, <1>5, <1>12

LEMMA ImageDecRefKeeps ==
  ASSUME MemoryInv, RefInv, NEW t \in Threads, NEW i \in Images, ImageDecRef(t, i)
  PROVE  RefInv'
<1>1. /\ iheld[t][i] > 0 /\ ChangeRefs(Minus(i)) /\ iheld' = [iheld EXCEPT ![t][i] = @ - 1]
      /\ UNCHANGED <<capture, thread, owned, cheld, failures>>
  BY DEF ImageDecRef
<1>2. /\ ThreadStates' /\ CapturesExact' /\ AllocationsStay
      /\ \A j : Slots(j)' = Slots(j) /\ Gets(j)' = Gets(j)
  BY <1>1, CapturesStay
<1>3. /\ iheld' \in [Threads -> [Images -> Nat]]
      /\ \A v \in Threads, j \in Images :
           iheld'[v][j] = IF v = t /\ j = i THEN iheld[v][j] - 1 ELSE iheld[v][j]
      /\ \A j \in Images : Cardinality(Refs(iheld, j)') = Cardinality(Refs(iheld, j)) + Minus(i)[j]
  BY <1>1, HeldLess
<1>4. Minus(i) \in [Images -> Int]
  BY DeltaType
<1>5. \A j \in Images : Users(j)' = Users(j) + Minus(i)[j]
  <2> SUFFICES ASSUME NEW j \in Images PROVE Users(j)' = Users(j) + Minus(i)[j]
    OBVIOUS
  <2>1. Cardinality(Refs(iheld, j)') = Cardinality(Refs(iheld, j)) + Minus(i)[j] /\ Minus(i)[j] \in Int
    BY <1>3, <1>4
  <2> QED
    BY <1>2, <2>1, RefsCounted, SlotsCounted, GetsCounted DEF Users
<1>6. \A j \in Images : Minus(i)[j] > 0 => Users(j) > 0
  BY DEF Minus
<1>7. Headers' /\ ImageStates' /\ Explained' /\ count' \in [Sources -> Int] /\ ImagesExact'
  BY <1>1, <1>2, <1>4, <1>5, <1>6, ChangeRefsExact DEF ImagesExact
<1>8. RoomForRefs'
  BY <1>1, <1>3, MemoryAssumption DEF RefInv, RoomForRefs, CounterTypes
<1> QED
  BY <1>1, <1>2, <1>3, <1>7, <1>8 DEF RefInv, CounterTypes

LEMMA ImageIncRefKeeps ==
  ASSUME MemoryInv, RefInv, NEW t \in Threads, NEW u \in Threads, NEW i \in Images,
         ImageIncRef(t, u, i)
  PROVE  RefInv'
<1>1. /\ iheld[t][i] > 0 /\ iheld[u][i] < MaxRefs
      /\ ChangeRefs(Plus(i)) /\ iheld' = [iheld EXCEPT ![u][i] = @ + 1]
      /\ UNCHANGED <<capture, thread, owned, cheld, failures>>
  BY DEF ImageIncRef
<1>2. /\ ThreadStates' /\ CapturesExact' /\ AllocationsStay
      /\ \A j : Slots(j)' = Slots(j) /\ Gets(j)' = Gets(j)
  BY <1>1, CapturesStay
<1>9. iheld[u][i] < 2 * MaxRefs
  BY <1>1, MemoryAssumption DEF RefInv, CounterTypes
<1>3. /\ iheld' \in [Threads -> [Images -> Nat]]
      /\ \A v \in Threads, j \in Images :
           iheld'[v][j] = IF v = u /\ j = i THEN iheld[v][j] + 1 ELSE iheld[v][j]
      /\ \A j \in Images : Cardinality(Refs(iheld, j)') = Cardinality(Refs(iheld, j)) + Plus(i)[j]
  BY <1>1, <1>9, HeldMore
<1>4. Plus(i) \in [Images -> Int]
  BY DeltaType
<1>5. \A j \in Images : Users(j)' = Users(j) + Plus(i)[j]
  <2> SUFFICES ASSUME NEW j \in Images PROVE Users(j)' = Users(j) + Plus(i)[j]
    OBVIOUS
  <2>1. Cardinality(Refs(iheld, j)') = Cardinality(Refs(iheld, j)) + Plus(i)[j] /\ Plus(i)[j] \in Int
    BY <1>3, <1>4
  <2> QED
    BY <1>2, <2>1, RefsCounted, SlotsCounted, GetsCounted DEF Users
<1>6. \A j \in Images : Plus(i)[j] > 0 => Users(j) > 0
  BY <1>1, UsedIsThere DEF Plus
<1>7. Headers' /\ ImageStates' /\ Explained' /\ count' \in [Sources -> Int] /\ ImagesExact'
  BY <1>1, <1>2, <1>4, <1>5, <1>6, ChangeRefsExact DEF ImagesExact
<1>8. RoomForRefs'
  BY <1>1, <1>3, MemoryAssumption DEF RefInv, RoomForRefs, CounterTypes
<1> QED
  BY <1>1, <1>2, <1>3, <1>7, <1>8 DEF RefInv, CounterTypes

(* A thread that is idle starts to read a slot.                            *)
LEMMA CaptureGetImageKeeps ==
  ASSUME MemoryInv, RefInv, NEW t \in Threads, NEW c \in Captures, NEW k \in ImageTypes,
         CaptureGetImage(t, c, k)
  PROVE  RefInv'
<1> DEFINE r == [Idle EXCEPT !.at = "get", !.capture = c, !.type = k, !.image = capture[c].image[k]]
<1>1. PICK i : i = capture[c].image[k]
  OBVIOUS
<1>2. /\ thread[t].at = "idle" /\ cheld[t][c] > 0 /\ (i \in Images => iheld[t][i] < MaxRefs)
      /\ ChangeRefs(Plus(i)) /\ thread' = [thread EXCEPT ![t] = r]
      /\ UNCHANGED <<capture, owned, iheld, cheld, failures>>
  BY <1>1 DEF CaptureGetImage, held
<1>3. i \in Images \cup {None} /\ thread \in [Threads -> ThreadRecord]
  BY <1>1 DEF MemoryInv, MemoryTypes, CaptureRecord
<1>4. /\ r.at = "get" /\ r.image = i /\ r.source = None /\ r.buffer = None
      /\ r.capture = c /\ r.type = k
  BY <1>1 DEF Idle
<1> HIDE DEF r
<1>5. thread'[t] = r /\ \A u \in Threads : u # t => thread'[u] = thread[u]
  BY <1>2, <1>3
<1>6. thread[t].source = None /\ thread[t].buffer = None
  BY <1>2 DEF RefInv, ThreadStates, MemoryInv, HeaderPending
<1>7. AllocationsStay
  BY <1>2, <1>4, <1>5, <1>6 DEF AllocationsStay
<1>8. \A j \in Images : Gets(j)' = IF j = i THEN Gets(j) \cup {t} ELSE Gets(j)
  BY <1>2, <1>4, <1>5 DEF Gets
<1>9. t \notin Gets(i)
  BY <1>2 DEF Gets
<1>10. \A j \in Images : Slots(j)' = Slots(j) /\ Refs(iheld, j)' = Refs(iheld, j)
  BY <1>2 DEF Slots, Refs
<1>11. Plus(i) \in [Images -> Int]
  BY DeltaType
<1>12. ASSUME NEW j \in Images PROVE Users(j)' = Users(j) + Plus(i)[j]
  <2>1. Cardinality(Gets(j)') = Cardinality(Gets(j)) + Plus(i)[j]
    <3>1. CASE j = i
      BY <1>8, <1>9, <3>1, GetsCounted, FS_AddElement DEF Plus
    <3>2. CASE j # i
      BY <1>8, <3>2, GetsCounted DEF Plus
    <3> QED
      BY <3>1, <3>2
  <2>2. Plus(i)[j] \in Int
    BY <1>11
  <2> QED
    BY <1>10, <2>1, <2>2, RefsCounted, SlotsCounted, GetsCounted DEF Users
<1>13. ASSUME NEW j \in Images, Plus(i)[j] > 0 PROVE Users(j) > 0
  <2>1. j = i
    BY <1>13 DEF Plus
  <2> QED
    BY <1>1, <2>1, UsedIsThere
<1>14. Headers' /\ ImageStates' /\ Explained' /\ count' \in [Sources -> Int] /\ ImagesExact'
  BY <1>2, <1>7, <1>11, <1>12, <1>13, ChangeRefsExact DEF ImagesExact
<1>15. RoomForRefs'
  BY <1>2, <1>4, <1>5, MemoryAssumption DEF RefInv, RoomForRefs, CounterTypes
<1>16. ThreadStates'
  <2>1. /\ thread'[t].source = None /\ thread'[t].at = "get"
        /\ thread'[t].capture = c /\ thread'[t].type = k /\ cheld'[t][c] > 0
        /\ capture'[c].image[k] = thread'[t].image
    BY <1>1, <1>2, <1>4, <1>5
  <2> QED
    BY <1>2, <1>5, <2>1 DEF RefInv, ThreadStates
<1>17. CapturesExact'
  BY <1>2 DEF RefInv, CapturesExact, Refs
<1> QED
  BY <1>2, <1>14, <1>15, <1>16, <1>17 DEF RefInv, CounterTypes

(* The thread that read the slot twice gets the image it referenced.       *)
LEMMA CaptureGetReturnsKeeps ==
  ASSUME MemoryInv, RefInv, NEW t \in Threads, CaptureGetReturns(t)
  PROVE  RefInv'
<1>1. PICK i : i = capture[thread[t].capture].image[thread[t].type]
  OBVIOUS
<1>2. /\ thread[t].at = "get" /\ thread' = [thread EXCEPT ![t] = Idle]
      /\ iheld' = IF i = None THEN iheld ELSE [iheld EXCEPT ![t][i] = @ + 1]
      /\ UNCHANGED <<heap, capture, owned, cheld, failures>>
  BY <1>1 DEF CaptureGetReturns
<1>3. i = thread[t].image /\ i \in Images \cup {None} /\ thread \in [Threads -> ThreadRecord]
  BY <1>1, <1>2 DEF RefInv, ThreadStates, MemoryInv, MemoryTypes, ThreadRecord
<1>4. /\ thread'[t] = Idle /\ \A u \in Threads : u # t => thread'[u] = thread[u]
  BY <1>2, <1>3
<1>5. Idle.at = "idle" /\ Idle.image = None /\ Idle.source = None /\ Idle.buffer = None
  BY DEF Idle
<1>6. thread[t].source = None /\ thread[t].buffer = None
  BY <1>2 DEF RefInv, ThreadStates, MemoryInv, HeaderPending
<1>7. AllocationsStay
  BY <1>2, <1>4, <1>5, <1>6 DEF AllocationsStay
<1>8. \A j \in Images : Gets(j)' = IF j = i THEN Gets(j) \ {t} ELSE Gets(j)
  BY <1>2, <1>3, <1>4, <1>5 DEF Gets
<1>9. i \in Images => t \in Gets(i)
  BY <1>2, <1>3 DEF Gets
<1>10. \A j \in Images : Slots(j)' = Slots(j)
  BY <1>2 DEF Slots
<1>11. /\ iheld' \in [Threads -> [Images -> Nat]]
       /\ \A v \in Threads, j \in Images :
            iheld'[v][j] = IF v = t /\ j = i THEN iheld[v][j] + 1 ELSE iheld[v][j]
       /\ \A j \in Images : Cardinality(Refs(iheld, j)') = Cardinality(Refs(iheld, j)) + Plus(i)[j]
  <2>1. CASE i = None
    <3>1. iheld' = iheld /\ \A j \in Images : Refs(iheld, j)' = Refs(iheld, j) /\ Plus(i)[j] = 0
      BY <1>2, <2>1, MemoryAssumption DEF Refs, Plus
    <3>2. \A j \in Images : Cardinality(Refs(iheld, j)) \in Nat
      BY RefsCounted
    <3> QED
      BY <2>1, <3>1, <3>2, MemoryAssumption DEF RefInv, CounterTypes
  <2>2. CASE i # None
    <3>1. i \in Images /\ iheld' = [iheld EXCEPT ![t][i] = @ + 1]
      BY <1>2, <1>3, <2>2
    <3>2. iheld[t][i] < 2 * MaxRefs
      <4>1. iheld[t][i] <= MaxRefs /\ iheld[t][i] \in Nat
        BY <1>2, <1>3, <3>1 DEF RefInv, RoomForRefs, CounterTypes
      <4> QED
        BY <4>1, MemoryAssumption
    <3> QED
      BY <3>1, <3>2, HeldMore
  <2> QED
    BY <2>1, <2>2
<1>12. ASSUME NEW j \in Images PROVE Users(j)' = Users(j)
  <2>1. Cardinality(Gets(j)') = Cardinality(Gets(j)) - Plus(i)[j]
    <3>1. CASE j = i
      BY <1>8, <1>9, <3>1, GetsCounted, FS_RemoveElement DEF Plus
    <3>2. CASE j # i
      BY <1>8, <3>2, GetsCounted DEF Plus
    <3> QED
      BY <3>1, <3>2
  <2>2. Plus(i)[j] \in Int
    BY DEF Plus
  <2> QED
    BY <1>10, <1>11, <2>1, <2>2, RefsCounted, SlotsCounted, GetsCounted DEF Users
<1>14. Headers' /\ ImageStates' /\ Explained' /\ count' \in [Sources -> Int] /\ ImagesExact'
  BY <1>2, <1>7, <1>12, HeapStays
<1>15. RoomForRefs'
  <2>1. \A j \in Images : j = i => iheld[t][j] <= MaxRefs
    BY <1>2, <1>3 DEF RefInv, RoomForRefs
  <2> QED
    BY <1>2, <1>3, <1>4, <1>5, <1>11, <2>1, MemoryAssumption DEF RefInv, RoomForRefs, CounterTypes
<1>16. ThreadStates'
  BY <1>2, <1>4, <1>5 DEF RefInv, ThreadStates
<1>17. CapturesExact'
  BY <1>2 DEF RefInv, CapturesExact, Refs
<1> QED
  BY <1>2, <1>11, <1>14, <1>15, <1>16, <1>17 DEF RefInv, CounterTypes

LEMMA SlotsMove ==
  ASSUME MemoryInv, NEW c \in Captures, NEW k \in ImageTypes, NEW old, NEW new,
         old = capture[c].image[k], new = capture'[c].image[k],
         \A d \in Captures, l \in ImageTypes :
           <<d, l>> # <<c, k>> => capture'[d].image[l] = capture[d].image[l],
         NEW j \in Images
  PROVE  Cardinality(Slots(j)') = Cardinality(Slots(j)) + SetRefs(old, new)[j]
<1>1. SetRefs(old, new)[j] = (IF j = new THEN 1 ELSE 0) - (IF j = old THEN 1 ELSE 0)
  BY DEF SetRefs, Plus, Minus
<1>2. PICK S : S = Slots(j)
  OBVIOUS
<1>3. PICK T : T = Slots(j)'
  OBVIOUS
<1>4. PICK x : x = <<c, k>>
  OBVIOUS
<1>5. S \ {x} = T \ {x}
  BY <1>2, <1>3, <1>4 DEF Slots
<1>6. (x \in S <=> j = old) /\ (x \in T <=> j = new)
  BY <1>2, <1>3, <1>4 DEF Slots
<1>7. /\ IsFiniteSet(S) /\ Cardinality(S) \in Nat
      /\ IsFiniteSet(T) /\ Cardinality(T) \in Nat
  BY <1>2, <1>3, SlotsCounted, CountedAfter
<1>8. Cardinality(S \ {x}) = IF j = old THEN Cardinality(S) - 1 ELSE Cardinality(S)
  BY <1>6, <1>7, FS_RemoveElement
<1>9. Cardinality(T \ {x}) = IF j = new THEN Cardinality(T) - 1 ELSE Cardinality(T)
  BY <1>6, <1>7, FS_RemoveElement
<1>11. Cardinality(S \ {x}) = Cardinality(T \ {x})
  BY <1>5
<1>10. Cardinality(T) = Cardinality(S) + SetRefs(old, new)[j]
  <2>1. CASE j = old /\ j = new
    BY <1>1, <1>7, <1>8, <1>9, <1>11, <2>1
  <2>2. CASE j = old /\ j # new
    BY <1>1, <1>7, <1>8, <1>9, <1>11, <2>2
  <2>3. CASE j # old /\ j = new
    BY <1>1, <1>7, <1>8, <1>9, <1>11, <2>3
  <2>4. CASE j # old /\ j # new
    BY <1>1, <1>7, <1>8, <1>9, <1>11, <2>4
  <2> QED
    BY <2>1, <2>2, <2>3, <2>4
<1> QED
  BY <1>2, <1>3, <1>10

(* capture_set_..._image, while nobody reads the slot.                     *)
LEMMA CaptureSetImageKeeps ==
  ASSUME ~SharedSetters, MemoryInv, RefInv, NEW t \in Threads, NEW c \in Captures,
         NEW k \in ImageTypes, NEW i \in Images \cup {None}, CaptureSetImage(t, c, k, i)
  PROVE  RefInv'
<1>1. PICK old : old = capture[c].image[k]
  OBVIOUS
<1>2. /\ cheld[t][c] > 0 /\ (i \in Images => iheld[t][i] > 0)
      /\ \A u \in Threads : ~(/\ thread[u].at = "get"
                              /\ thread[u].capture = c /\ thread[u].type = k)
      /\ ChangeRefs(SetRefs(old, i))
      /\ capture' = [capture EXCEPT ![c].image[k] = i]
      /\ UNCHANGED <<thread, owned, iheld, cheld, failures>>
  BY <1>1 DEF CaptureSetImage, held
<1>3. /\ \A d \in Captures : capture'[d].ref_count = capture[d].ref_count
      /\ \A d \in Captures, l \in ImageTypes :
           capture'[d].image[l] = IF d = c /\ l = k THEN i ELSE capture[d].image[l]
  BY <1>2 DEF MemoryInv, MemoryTypes, CaptureRecord
<1>4. \A j \in Images : Gets(j)' = Gets(j) /\ Refs(iheld, j)' = Refs(iheld, j)
  BY <1>2 DEF Gets, Refs
<1>5. SetRefs(old, i) \in [Images -> Int]
  BY DeltaType
<1>6. ASSUME NEW j \in Images PROVE Users(j)' = Users(j) + SetRefs(old, i)[j]
  <2>1. Cardinality(Slots(j)') = Cardinality(Slots(j)) + SetRefs(old, i)[j]
    <3>1. i = capture'[c].image[k]
          /\ \A d \in Captures, l \in ImageTypes :
               <<d, l>> # <<c, k>> => capture'[d].image[l] = capture[d].image[l]
      BY <1>3
    <3> QED
      BY <1>1, <3>1, SlotsMove
  <2>2. SetRefs(old, i)[j] \in Int
    BY <1>5
  <2> QED
    BY <1>4, <2>1, <2>2, RefsCounted, SlotsCounted, GetsCounted DEF Users
<1>7. ASSUME NEW j \in Images, SetRefs(old, i)[j] > 0 PROVE Users(j) > 0
  <2>1. j = i
    BY <1>7 DEF SetRefs, Plus, Minus
  <2> QED
    BY <1>2, <2>1, UsedIsThere
<1>8. AllocationsStay
  BY <1>2, ThreadsStay
<1>9. Headers' /\ ImageStates' /\ Explained' /\ count' \in [Sources -> Int] /\ ImagesExact'
  BY <1>2, <1>5, <1>6, <1>7, <1>8, ChangeRefsExact DEF ImagesExact
<1>10. RoomForRefs'
  BY <1>2 DEF RefInv, RoomForRefs
<1>11. ThreadStates'
  BY <1>2, <1>3 DEF RefInv, ThreadStates
<1>12. CapturesExact'
  <2>1. \A d \in Captures : Refs(cheld, d)' = Refs(cheld, d)
    BY <1>2 DEF Refs
  <2>2. capture[c].ref_count # 0
    BY <1>2, RefsSome DEF RefInv, CapturesExact, CounterTypes
  <2> QED
    BY <1>3, <2>1, <2>2 DEF RefInv, CapturesExact
<1> QED
  BY <1>2, <1>9, <1>10, <1>11, <1>12 DEF RefInv, CounterTypes

LEMMA CheldMore ==
  ASSUME RefInv, NEW u \in Threads, NEW c \in Captures, cheld[u][c] < MaxRefs,
         cheld' = [cheld EXCEPT ![u][c] = cheld[u][c] + 1]
  PROVE  /\ cheld' \in [Threads -> [Captures -> Nat]]
         /\ \A v \in Threads, d \in Captures :
              cheld'[v][d] = IF v = u /\ d = c THEN cheld[v][d] + 1 ELSE cheld[v][d]
         /\ Cardinality(Refs(cheld, c)') = Cardinality(Refs(cheld, c)) + 1
         /\ \A d \in Captures : d # c => Refs(cheld, d)' = Refs(cheld, d)
<1>1. \A v \in Threads : cheld[v] \in [Captures -> Nat]
  BY DEF RefInv, CounterTypes
<1>2. cheld' = [cheld EXCEPT ![u] = [cheld[u] EXCEPT ![c] = cheld[u][c] + 1]]
  BY <1>1 DEF RefInv, CounterTypes
<1>3. [cheld[u] EXCEPT ![c] = cheld[u][c] + 1] \in [Captures -> Nat]
  BY <1>1
<1>4. cheld' \in [Threads -> [Captures -> Nat]]
  BY <1>2, <1>3 DEF RefInv, CounterTypes
<1>5. \A v \in Threads, d \in Captures :
         cheld'[v][d] = IF v = u /\ d = c THEN cheld[v][d] + 1 ELSE cheld[v][d]
  BY <1>1, <1>2 DEF RefInv, CounterTypes
<1>6. PICK g : g = cheld'
  OBVIOUS
<1>7. PICK f : f = cheld
  OBVIOUS
<1>8. Cardinality(Refs(g, c)) = Cardinality(Refs(f, c)) + 1
  <2>1. /\ \A v \in Threads : f[v][c] \in Nat
        /\ f[u][c] < 2 * MaxRefs /\ g[u][c] = f[u][c] + 1
        /\ \A v \in Threads : v # u => g[v][c] = f[v][c]
    BY <1>1, <1>5, <1>6, <1>7, MemoryAssumption
  <2> QED
    BY <2>1, RefsUp
<1>9. \A d \in Captures : Refs(cheld, d)' = Refs(g, d) /\ Refs(cheld, d) = Refs(f, d)
  BY <1>6, <1>7 DEF Refs
<1>10. \A d \in Captures : d # c => Refs(cheld, d)' = Refs(cheld, d)
  BY <1>5 DEF Refs
<1> QED
  BY <1>4, <1>5, <1>8, <1>9, <1>10

LEMMA CheldLess ==
  ASSUME RefInv, NEW u \in Threads, NEW c \in Captures, cheld[u][c] > 0,
         cheld' = [cheld EXCEPT ![u][c] = cheld[u][c] - 1]
  PROVE  /\ cheld' \in [Threads -> [Captures -> Nat]]
         /\ \A v \in Threads, d \in Captures :
              cheld'[v][d] = IF v = u /\ d = c THEN cheld[v][d] - 1 ELSE cheld[v][d]
         /\ Cardinality(Refs(cheld, c)') = Cardinality(Refs(cheld, c)) - 1
         /\ \A d \in Captures : d # c => Refs(cheld, d)' = Refs(cheld, d)
<1>1. \A v \in Threads : cheld[v] \in [Captures -> Nat]
  BY DEF RefInv, CounterTypes
<1>2. cheld' = [cheld EXCEPT ![u] = [cheld[u] EXCEPT ![c] = cheld[u][c] - 1]]
  BY <1>1 DEF RefInv, CounterTypes
<1>3. [cheld[u] EXCEPT ![c] = cheld[u][c] - 1] \in [Captures -> Nat]
  BY <1>1
<1>4. cheld' \in [Threads -> [Captures -> Nat]]
  BY <1>2, <1>3 DEF RefInv, CounterTypes
<1>5. \A v \in Threads, d \in Captures :
         cheld'[v][d] = IF v = u /\ d = c THEN cheld[v][d] - 1 ELSE cheld[v][d]
  BY <1>1, <1>2 DEF RefInv, CounterTypes
<1>6. PICK g : g = cheld'
  OBVIOUS
<1>7. PICK f : f = cheld
  OBVIOUS
<1>8. Cardinality(Refs(g, c)) = Cardinality(Refs(f, c)) - 1
  <2>1. /\ \A v \in Threads : f[v][c] \in Nat
        /\ f[u][c] > 0 /\ f[u][c] <= MaxRefs /\ g[u][c] = f[u][c] - 1
        /\ \A v \in Threads : v # u => g[v][c] = f[v][c]
    BY <1>1, <1>5, <1>6, <1>7 DEF RefInv, RoomForRefs
  <2>2. f[u][c] <= 2 * MaxRefs
    BY <2>1, MemoryAssumption
  <2> QED
    BY <2>1, <2>2, RefsDown
<1>9. \A d \in Captures : Refs(cheld, d)' = Refs(g, d) /\ Refs(cheld, d) = Refs(f, d)
  BY <1>6, <1>7 DEF Refs
<1>10. \A d \in Captures : d # c => Refs(cheld, d)' = Refs(cheld, d)
  BY <1>5 DEF Refs
<1> QED
  BY <1>4, <1>5, <1>8, <1>9, <1>10

(* A step that changes the references of a capture and not its images.     *)
LEMMA CountOnly ==
  ASSUME MemoryInv, RefInv, UNCHANGED <<heap, thread, owned, iheld, failures>>,
         \A c \in Captures, k \in ImageTypes : capture'[c].image[k] = capture[c].image[k],
         cheld' \in [Threads -> [Captures -> Nat]],
         \A t \in Threads, c \in Captures : cheld'[t][c] <= MaxRefs,
         \A t \in Threads : thread[t].at = "get" => cheld'[t][thread[t].capture] > 0,
         CapturesExact'
  PROVE  RefInv'
<1>1. \A i \in Images : Slots(i)' = Slots(i) /\ Gets(i)' = Gets(i) /\ Refs(iheld, i)' = Refs(iheld, i)
  BY DEF Slots, Gets, Refs
<1>2. \A i \in Images : Users(i)' = Users(i)
  BY <1>1 DEF Users
<1>3. Headers' /\ ImageStates' /\ Explained' /\ ImagesExact' /\ count' \in [Sources -> Int]
  BY <1>2, HeapStays, ThreadsStay
<1>4. RoomForRefs'
  BY DEF RefInv, RoomForRefs
<1>5. ThreadStates'
  BY DEF RefInv, ThreadStates
<1> QED
  BY <1>3, <1>4, <1>5 DEF RefInv, CounterTypes

LEMMA CaptureCreateKeeps ==
  ASSUME MemoryInv, RefInv, NEW t \in Threads, NEW c \in Captures, CaptureCreate(t, c)
  PROVE  RefInv'
<1>1. /\ thread[t].at = "idle" /\ capture[c].ref_count = 0
      /\ capture' = [capture EXCEPT ![c].ref_count = 1] /\ cheld' = [cheld EXCEPT ![t][c] = 1]
      /\ UNCHANGED <<heap, thread, owned, iheld, failures>>
  BY DEF CaptureCreate
<1>2. /\ \A d \in Captures, l \in ImageTypes : capture'[d].image[l] = capture[d].image[l]
      /\ \A d \in Captures : capture'[d].ref_count = IF d = c THEN 1 ELSE capture[d].ref_count
  BY <1>1 DEF MemoryInv, MemoryTypes, CaptureRecord
<1>3. cheld[t][c] = 0
  BY <1>1, RefsSome DEF RefInv, CapturesExact, CounterTypes
<1>4. /\ cheld' \in [Threads -> [Captures -> Nat]]
      /\ \A v \in Threads, d \in Captures :
           cheld'[v][d] = IF v = t /\ d = c THEN cheld[v][d] + 1 ELSE cheld[v][d]
      /\ Cardinality(Refs(cheld, c)') = Cardinality(Refs(cheld, c)) + 1
      /\ \A d \in Captures : d # c => Refs(cheld, d)' = Refs(cheld, d)
  <2>1. cheld[t][c] < MaxRefs /\ cheld' = [cheld EXCEPT ![t][c] = cheld[t][c] + 1]
    BY <1>1, <1>3, MemoryAssumption
  <2> QED
    BY <2>1, CheldMore
<1>5. CapturesExact'
  <2> SUFFICES ASSUME NEW d \in Captures
               PROVE  /\ capture'[d].ref_count = Cardinality(Refs(cheld, d)')
                      /\ capture'[d].ref_count = 0 => \A k \in ImageTypes : capture'[d].image[k] = None
    BY DEF CapturesExact
  <2>5. /\ capture[d].ref_count = Cardinality(Refs(cheld, d))
        /\ capture[d].ref_count = 0 => \A k \in ImageTypes : capture[d].image[k] = None
    BY DEF RefInv, CapturesExact
  <2>6. CASE d = c
    BY <1>1, <1>2, <1>4, <2>5, <2>6
  <2>7. CASE d # c
    BY <1>1, <1>2, <1>4, <2>5, <2>7
  <2> QED
    BY <2>6, <2>7
<1>6. \A u \in Threads, d \in Captures : cheld'[u][d] <= MaxRefs
  BY <1>3, <1>4, MemoryAssumption DEF RefInv, RoomForRefs
<1>7. \A u \in Threads : thread[u].at = "get" => cheld'[u][thread[u].capture] > 0
  BY <1>1, <1>4 DEF RefInv, ThreadStates
<1> QED
  BY <1>1, <1>2, <1>4, <1>5, <1>6, <1>7, CountOnly

LEMMA CaptureIncRefKeeps ==
  ASSUME MemoryInv, RefInv, NEW t \in Threads, NEW u \in Threads, NEW c \in Captures,
         CaptureIncRef(t, u, c)
  PROVE  RefInv'
<1>1. /\ cheld[t][c] > 0 /\ cheld[u][c] < MaxRefs
      /\ capture' = [capture EXCEPT ![c].ref_count = @ + 1]
      /\ cheld' = [cheld EXCEPT ![u][c] = cheld[u][c] + 1]
      /\ UNCHANGED <<heap, thread, owned, iheld, failures>>
  BY DEF CaptureIncRef, RefInv, CounterTypes
<1>2. /\ \A d \in Captures, l \in ImageTypes : capture'[d].image[l] = capture[d].image[l]
      /\ \A d \in Captures : /\ capture[d].ref_count \in Int
                             /\ capture'[d].ref_count =
                                  IF d = c THEN capture[d].ref_count + 1 ELSE capture[d].ref_count
  BY <1>1 DEF MemoryInv, MemoryTypes, CaptureRecord
<1>4. /\ cheld' \in [Threads -> [Captures -> Nat]]
      /\ \A v \in Threads, d \in Captures :
           cheld'[v][d] = IF v = u /\ d = c THEN cheld[v][d] + 1 ELSE cheld[v][d]
      /\ Cardinality(Refs(cheld, c)') = Cardinality(Refs(cheld, c)) + 1
      /\ \A d \in Captures : d # c => Refs(cheld, d)' = Refs(cheld, d)
  BY <1>1, CheldMore, ZenonT(40)
<1>5. CapturesExact'
  <2>1. capture[c].ref_count > 0
    BY <1>1, <1>2, RefsSome DEF RefInv, CapturesExact, CounterTypes
  <2> SUFFICES ASSUME NEW d \in Captures
               PROVE  /\ capture'[d].ref_count = Cardinality(Refs(cheld, d)')
                      /\ capture'[d].ref_count = 0 => \A k \in ImageTypes : capture'[d].image[k] = None
    BY DEF CapturesExact
  <2>5. /\ capture[d].ref_count = Cardinality(Refs(cheld, d))
        /\ capture[d].ref_count = 0 => \A k \in ImageTypes : capture[d].image[k] = None
    BY DEF RefInv, CapturesExact
  <2>6. CASE d = c
    BY <1>1, <1>2, <1>4, <2>1, <2>5, <2>6
  <2>7. CASE d # c
    BY <1>1, <1>2, <1>4, <2>1, <2>5, <2>7
  <2> QED
    BY <2>6, <2>7
<1>6. \A v \in Threads, d \in Captures : cheld'[v][d] <= MaxRefs
  BY <1>1, <1>4, MemoryAssumption DEF RefInv, RoomForRefs, CounterTypes
<1>7. \A v \in Threads : thread[v].at = "get" => cheld'[v][thread[v].capture] > 0
  BY <1>1, <1>4 DEF RefInv, ThreadStates, CounterTypes
<1> QED
  BY <1>1, <1>2, <1>4, <1>5, <1>6, <1>7, CountOnly

(* The last reference of a capture takes the slots along.                  *)
LEMMA SlotsEnd ==
  ASSUME MemoryInv, NEW c \in Captures,
         \A k \in ImageTypes : capture'[c].image[k] = None,
         \A d \in Captures, k \in ImageTypes : d # c => capture'[d].image[k] = capture[d].image[k],
         NEW i \in Images
  PROVE  Cardinality(Slots(i)')
           = Cardinality(Slots(i)) - Cardinality({k \in ImageTypes : capture[c].image[k] = i})
<1> DEFINE K == {k \in ImageTypes : capture[c].image[k] = i}
<1>1. PICK S : S = Slots(i)
  OBVIOUS
<1>2. PICK T : T = Slots(i)'
  OBVIOUS
<1>3. PICK P : P = {c} \X K
  OBVIOUS
<1>4. T = S \ P /\ S \cap P = P
  BY <1>1, <1>2, <1>3, MemoryAssumption DEF Slots
<1>5. IsFiniteSet(K) /\ Cardinality(K) \in Nat
  BY MemoryAssumption, FS_Subset, FS_CardinalityType
<1>6. IsFiniteSet(S) /\ Cardinality(S) \in Nat
  BY <1>1, SlotsCounted
<1> HIDE DEF K
<1>7. Cardinality(P) = Cardinality(K)
  <2>1. IsFiniteSet({c}) /\ Cardinality({c}) = 1
    BY FS_Singleton
  <2>2. Cardinality(P) = Cardinality({c}) * Cardinality(K)
    BY <1>3, <1>5, <2>1, FS_Product
  <2> QED
    BY <1>5, <2>1, <2>2
<1>8. Cardinality(T) = Cardinality(S) - Cardinality(K)
  <2>1. Cardinality(S \ P) = Cardinality(S) - Cardinality(S \cap P)
    BY <1>6, FS_Difference
  <2>2. Cardinality(S \cap P) = Cardinality(P) /\ Cardinality(S \ P) = Cardinality(T)
    BY <1>4
  <2> QED
    BY <1>7, <2>1, <2>2
<1> QED
  BY <1>1, <1>2, <1>8 DEF K

LEMMA CaptureDecRefKeeps ==
  ASSUME MemoryInv, RefInv, NEW t \in Threads, NEW c \in Captures, CaptureDecRef(t, c)
  PROVE  RefInv'
<1>1. /\ thread[t].at = "idle" /\ cheld[t][c] > 0
      /\ cheld' = [cheld EXCEPT ![t][c] = cheld[t][c] - 1]
      /\ UNCHANGED <<thread, owned, iheld, failures>>
  BY DEF CaptureDecRef, RefInv, CounterTypes
<1>2. /\ cheld' \in [Threads -> [Captures -> Nat]]
      /\ \A v \in Threads, d \in Captures :
           cheld'[v][d] = IF v = t /\ d = c THEN cheld[v][d] - 1 ELSE cheld[v][d]
      /\ Cardinality(Refs(cheld, c)') = Cardinality(Refs(cheld, c)) - 1
      /\ \A d \in Captures : d # c => Refs(cheld, d)' = Refs(cheld, d)
  BY <1>1, CheldLess
<1>3. \A v \in Threads, d \in Captures : cheld'[v][d] <= MaxRefs
  BY <1>1, <1>2, MemoryAssumption DEF RefInv, RoomForRefs, CounterTypes
<1>4. \A v \in Threads : thread[v].at = "get" => cheld'[v][thread[v].capture] > 0
  BY <1>1, <1>2 DEF RefInv, ThreadStates
<1>5. CASE capture[c].ref_count # 1
  <2>1. /\ UNCHANGED heap
        /\ capture' = [capture EXCEPT ![c].ref_count = @ - 1]
    BY <1>5 DEF CaptureDecRef
  <2>2. /\ \A d \in Captures, l \in ImageTypes : capture'[d].image[l] = capture[d].image[l]
        /\ \A d \in Captures : /\ capture[d].ref_count \in Int
                               /\ capture'[d].ref_count =
                                    IF d = c THEN capture[d].ref_count - 1 ELSE capture[d].ref_count
    BY <2>1 DEF MemoryInv, MemoryTypes, CaptureRecord
  <2>3. CapturesExact'
    <3> SUFFICES ASSUME NEW d \in Captures
                 PROVE  /\ capture'[d].ref_count = Cardinality(Refs(cheld, d)')
                        /\ capture'[d].ref_count = 0 => \A k \in ImageTypes : capture'[d].image[k] = None
      BY DEF CapturesExact
    <3>5. /\ capture[d].ref_count = Cardinality(Refs(cheld, d))
          /\ capture[d].ref_count = 0 => \A k \in ImageTypes : capture[d].image[k] = None
      BY DEF RefInv, CapturesExact
    <3>6. CASE d = c
      <4>1. capture[c].ref_count \in Int /\ capture'[c].ref_count = capture[c].ref_count - 1
        BY <2>2
      <4>2. capture'[c].ref_count # 0
        BY <1>5, <4>1
      <4> QED
        BY <1>2, <3>5, <3>6, <4>1, <4>2
    <3>7. CASE d # c
      BY <1>2, <1>5, <2>2, <3>5, <3>7
    <3> QED
      BY <3>6, <3>7
  <2> QED
    BY <1>1, <1>2, <1>3, <1>4, <2>1, <2>2, <2>3, CountOnly
<1>6. CASE capture[c].ref_count = 1
  <2> DEFINE delta == [i \in Images |->
                        -Cardinality({k \in ImageTypes : capture[c].image[k] = i})]
  <2>1. ChangeRefs(delta) /\ capture' = [capture EXCEPT ![c] = NoCapture]
    BY <1>6 DEF CaptureDecRef
  <2>2. /\ capture'[c].ref_count = 0 /\ \A k \in ImageTypes : capture'[c].image[k] = None
        /\ \A d \in Captures : d # c => capture'[d] = capture[d]
    BY <2>1 DEF MemoryInv, MemoryTypes, NoCapture
  <2>3. delta \in [Images -> Int]
    BY LastReferenceType
  <2>4. ASSUME NEW i \in Images
        PROVE  Users(i)' = Users(i) + delta[i] /\ ~(delta[i] > 0)
    <3>1. PICK n : n = Cardinality({k \in ImageTypes : capture[c].image[k] = i})
      OBVIOUS
    <3>2. n \in Nat /\ delta[i] = -n
      BY <3>1, MemoryAssumption, FS_Subset, FS_CardinalityType
    <3>3. Cardinality(Slots(i)') = Cardinality(Slots(i)) - n
      BY <2>2, <3>1, SlotsEnd
    <3>4. Gets(i)' = Gets(i) /\ Refs(iheld, i)' = Refs(iheld, i)
      BY <1>1 DEF Gets, Refs
    <3> HIDE DEF delta
    <3> QED
      BY <3>2, <3>3, <3>4, RefsCounted, SlotsCounted, GetsCounted DEF Users
  <2> HIDE DEF delta
  <2>5. Headers' /\ ImageStates' /\ Explained' /\ count' \in [Sources -> Int] /\ ImagesExact'
    BY <1>1, <2>1, <2>3, <2>4, ChangeRefsExact, ThreadsStay DEF ImagesExact
  <2>6. \A u \in Threads : u # t => cheld[u][c] = 0
    <3>1. Cardinality(Refs(cheld, c)) = 1 /\ \A u \in Threads : cheld[u][c] \in Nat
      BY <1>6 DEF RefInv, CapturesExact, CounterTypes
    <3> QED
      BY <1>1, <3>1, RefsOne
  <2>7. \A u \in Threads : thread[u].at = "get" => thread[u].capture # c
    BY <1>1, <2>6 DEF RefInv, ThreadStates
  <2>8. ThreadStates'
    BY <1>1, <1>4, <2>2, <2>7 DEF RefInv, ThreadStates
  <2>9. CapturesExact'
    <3> SUFFICES ASSUME NEW d \in Captures
                 PROVE  /\ capture'[d].ref_count = Cardinality(Refs(cheld, d)')
                        /\ capture'[d].ref_count = 0 => \A k \in ImageTypes : capture'[d].image[k] = None
      BY DEF CapturesExact
    <3>5. /\ capture[d].ref_count = Cardinality(Refs(cheld, d))
          /\ capture[d].ref_count = 0 => \A k \in ImageTypes : capture[d].image[k] = None
      BY DEF RefInv, CapturesExact
    <3>6. CASE d = c
      BY <1>2, <1>6, <2>2, <3>5, <3>6
    <3>7. CASE d # c
      BY <1>2, <1>6, <2>2, <3>5, <3>7
    <3> QED
      BY <3>6, <3>7
  <2>10. RoomForRefs'
    BY <1>1, <1>3 DEF RefInv, RoomForRefs
  <2> QED
    BY <1>1, <1>2, <2>5, <2>8, <2>9, <2>10 DEF RefInv, CounterTypes
<1> QED
  BY <1>5, <1>6

-----------------------------------------------------------------------------
(* The steps of allocator_alloc and allocator_free                         *)

(* A thread moves inside allocator_alloc, or into it or out of it.         *)
LEMMA ThreadMoves ==
  ASSUME RefInv, NEW t \in Threads, thread[t].at # "get", thread'[t].at # "get",
         thread'[t].source # None <=> thread'[t].at \in {"counted", "called"},
         \A u \in Threads : u # t => thread'[u] = thread[u],
         UNCHANGED <<capture, cheld>>
  PROVE  /\ ThreadStates' /\ CapturesExact'
         /\ \A i : Slots(i)' = Slots(i) /\ Gets(i)' = Gets(i)
<1>1. \A i : Slots(i)' = Slots(i) /\ Gets(i)' = Gets(i)
  BY DEF Slots, Gets
<1>2. CapturesExact'
  BY DEF RefInv, CapturesExact
<1>3. ThreadStates'
  <2> SUFFICES ASSUME NEW u \in Threads
               PROVE  /\ thread'[u].source # None <=> thread'[u].at \in {"counted", "called"}
                      /\ thread'[u].at = "get" =>
                           /\ thread'[u].capture \in Captures /\ thread'[u].type \in ImageTypes
                           /\ cheld'[u][thread'[u].capture] > 0
                           /\ capture'[thread'[u].capture].image[thread'[u].type] = thread'[u].image
    BY DEF ThreadStates
  <2>1. CASE u = t
    BY <2>1
  <2>2. CASE u # t
    BY <2>2 DEF RefInv, ThreadStates
  <2> QED
    BY <2>1, <2>2
<1> QED
  BY <1>1, <1>2, <1>3

(* ... and nobody gets or loses a reference.                               *)
LEMMA ReferencesStay ==
  ASSUME RefInv, NEW t \in Threads, thread[t].at # "get", thread'[t].at # "get",
         thread'[t].source # None <=> thread'[t].at \in {"counted", "called"},
         \A u \in Threads : u # t => thread'[u] = thread[u],
         UNCHANGED <<capture, iheld, cheld>>,
         \A i \in Images : image'[i].ref_count # image[i].ref_count =>
           ~(image[i].ref_count > 0) /\ ~(image'[i].ref_count > 0)
  PROVE  RoomForRefs' /\ ThreadStates' /\ ImagesExact' /\ CapturesExact'
<1>1. /\ ThreadStates' /\ CapturesExact'
      /\ \A i : Slots(i)' = Slots(i) /\ Gets(i)' = Gets(i)
  BY ThreadMoves
<1>2. \A i : Users(i)' = Users(i)
  BY <1>1 DEF Users, Refs
<1>3. ImagesExact'
  BY <1>2 DEF RefInv, ImagesExact
<1>4. RoomForRefs'
  BY DEF RefInv, RoomForRefs
<1> QED
  BY <1>1, <1>3, <1>4

(* The images are left alone, and a thread that makes one still makes it.  *)
LEMMA ImagesStay ==
  ASSUME RefInv, NEW t \in Threads, thread[t].at \in {"counted", "called"},
         thread'[t].image = thread[t].image,
         \A u \in Threads : u # t => thread'[u] = thread[u],
         UNCHANGED image
  PROVE  ImageStates'
<1>1. \A u \in Threads : thread'[u].at \in {"counted", "called"} => thread[u].at \in {"counted", "called"}
  OBVIOUS
<1>2. \A u \in Threads : thread'[u].image = thread[u].image
  OBVIOUS
<1> SUFFICES ASSUME NEW i \in Images
             PROVE  /\ ~image[i].handle => image[i] = NoImage
                    /\ image[i].ref_count > 0 <=> image[i].buffer # None
                    /\ \A v, u \in Threads :
                         thread'[v].at \in {"counted", "called"} /\ thread'[v].image = i =>
                           /\ image[i].handle /\ image[i].ref_count = 0
                           /\ thread'[u].at \in {"counted", "called"} /\ thread'[u].image = i => v = u
  BY DEF ImageStates
<1> QED
  BY <1>1, <1>2 DEF RefInv, ImageStates

LEMMA Countable ==
  ASSUME NEW s
  PROVE  /\ IsFiniteSet(Outstanding(s)) /\ IsFiniteSet(Outstanding(s)')
         /\ IsFiniteSet(Allocating(s)) /\ IsFiniteSet(Allocating(s)')
         /\ Cardinality(Outstanding(s)) \in Nat /\ Cardinality(Outstanding(s)') \in Nat
         /\ Cardinality(Allocating(s)) \in Nat /\ Cardinality(Allocating(s)') \in Nat
<1>1. /\ IsFiniteSet(Outstanding(s)) /\ IsFiniteSet(Outstanding(s)')
      /\ IsFiniteSet(Allocating(s)) /\ IsFiniteSet(Allocating(s)')
  BY MemoryAssumption, FS_Subset DEF Outstanding, Allocating
<1> QED
  BY <1>1, FS_CardinalityType

(* A thread enters allocator_alloc on behalf of source r, or leaves it.    *)
LEMMA AllocationBegins ==
  ASSUME NEW t \in Threads, NEW r \in Sources, thread[t].source = None, thread'[t].source = r,
         \A u \in Threads : u # t => thread'[u] = thread[u], NEW s \in Sources
  PROVE  Cardinality(Allocating(s)') = Cardinality(Allocating(s)) + (IF s = r THEN 1 ELSE 0)
<1>1. t \notin Allocating(s)
  BY MemoryAssumption DEF Allocating
<1>2. CASE s = r
  <2>1. Allocating(s)' = Allocating(s) \cup {t}
    BY <1>2 DEF Allocating
  <2> QED
    BY <1>1, <1>2, <2>1, Countable, FS_AddElement, ZenonT(40)
<1>3. CASE s # r
  <2>1. Allocating(s)' = Allocating(s)
    BY <1>1, <1>3 DEF Allocating
  <2> QED
    BY <1>3, <2>1, Countable
<1> QED
  BY <1>2, <1>3

LEMMA AllocationEnds ==
  ASSUME NEW t \in Threads, NEW r \in Sources, thread[t].source = r, thread'[t].source = None,
         \A u \in Threads : u # t => thread'[u] = thread[u], NEW s \in Sources
  PROVE  Cardinality(Allocating(s)') = Cardinality(Allocating(s)) - (IF s = r THEN 1 ELSE 0)
<1>1. t \notin Allocating(s)'
  BY MemoryAssumption DEF Allocating
<1>2. CASE s = r
  <2>1. Allocating(s)' = Allocating(s) \ {t} /\ t \in Allocating(s)
    BY <1>1, <1>2 DEF Allocating
  <2> QED
    BY <1>2, <2>1, Countable, FS_RemoveElement, ZenonT(40)
<1>3. CASE s # r
  <2>1. Allocating(s)' = Allocating(s)
    BY <1>1, <1>3 DEF Allocating
  <2> QED
    BY <1>3, <2>1, Countable
<1> QED
  BY <1>2, <1>3

LEMMA AllocBeginsKeeps ==
  ASSUME MemoryInv, RefInv, NEW t \in Threads, NEW i \in Images \cup {None}, NEW s \in Sources,
         AllocBegins(t, i, s)
  PROVE  RefInv'
<1>1. /\ thread[t].at = "idle"
      /\ thread' = [thread EXCEPT ![t] =
                      [Idle EXCEPT !.at = "counted", !.image = i, !.source = s]]
      /\ count' = [count EXCEPT ![s] = @ + 1]
      /\ UNCHANGED <<buffer, capture, owned, iheld, cheld, failures>>
  BY DEF AllocBegins, CountAllocation, held
<1>2. /\ thread'[t].at = "counted" /\ thread'[t].image = i /\ thread'[t].source = s
      /\ thread'[t].buffer = None
      /\ \A u \in Threads : u # t => thread'[u] = thread[u]
  BY <1>1 DEF Idle, MemoryInv, MemoryTypes
<1>3. thread[t].source = None /\ s # None
  BY <1>1, MemoryAssumption DEF RefInv, ThreadStates
<1>4. \A j \in Images :
        /\ j # i => image'[j] = image[j]
        /\ j = i => image'[j].handle /\ image'[j].ref_count = 0 /\ image'[j].buffer = None
  <2>1. CASE i = None
    BY <2>1, MemoryAssumption DEF AllocBegins
  <2>2. CASE i # None
    <3>1. image[i] = NoImage /\ image' = [image EXCEPT ![i].handle = TRUE] /\ i \in Images
      BY <2>2 DEF AllocBegins, RefInv, ImageStates
    <3>7. image[i] \in ImageRecord
      BY <3>1 DEF MemoryInv, MemoryTypes
    <3>2. image[i].ref_count = 0 /\ image[i].buffer = None
      BY <3>1 DEF NoImage
    <3>3. image' = [image EXCEPT ![i] = [image[i] EXCEPT !.handle = TRUE]]
      BY <3>1 DEF MemoryInv, MemoryTypes
    <3>4. image'[i] = [image[i] EXCEPT !.handle = TRUE]
      BY <3>1, <3>3 DEF MemoryInv, MemoryTypes
    <3>5. image'[i].handle /\ image'[i].ref_count = 0 /\ image'[i].buffer = None
      BY <3>2, <3>4, <3>7 DEF ImageRecord
    <3>6. \A j \in Images : j # i => image'[j] = image[j]
      BY <3>3 DEF MemoryInv, MemoryTypes
    <3> QED
      BY <3>5, <3>6
  <2> QED
    BY <2>1, <2>2
<1>5. \A j \in Images : j = i => image[j] = NoImage
  BY MemoryAssumption DEF AllocBegins, RefInv, ImageStates
<1>6. RoomForRefs' /\ ThreadStates' /\ ImagesExact' /\ CapturesExact'
  <2>1. \A j \in Images : image'[j].ref_count = image[j].ref_count
    BY <1>4, <1>5 DEF NoImage
  <2>2. thread'[t].source # None <=> thread'[t].at \in {"counted", "called"}
    BY <1>2, <1>3
  <2> QED
    BY <1>1, <1>2, <2>1, <2>2, ReferencesStay
<1>7. CounterTypes'
  BY <1>1 DEF RefInv, CounterTypes
<1>8. Headers'
  <2>1. \A j \in Images : image'[j].buffer = image[j].buffer
    BY <1>4, <1>5 DEF NoImage
  <2>2. \A b \in Buffers : Owners(b)' = Owners(b)
    BY <1>1, <1>2, <2>1 DEF Owners
  <2>3. \A u \in Threads : thread'[u].buffer # None => thread'[u] = thread[u]
    BY <1>2
  <2> QED
    BY <1>1, <2>1, <2>2, <2>3, ZenonT(40) DEF RefInv, Headers
<1>9. ImageStates'
  <2> SUFFICES ASSUME NEW j \in Images
               PROVE  /\ ~image'[j].handle => image'[j] = NoImage
                      /\ image'[j].ref_count > 0 <=> image'[j].buffer # None
                      /\ \A v, u \in Threads :
                           thread'[v].at \in {"counted", "called"} /\ thread'[v].image = j =>
                             /\ image'[j].handle /\ image'[j].ref_count = 0
                             /\ thread'[u].at \in {"counted", "called"} /\ thread'[u].image = j => v = u
    BY DEF ImageStates
  <2>1. CASE j = i
    <3>1. \A u \in Threads : ~(thread[u].at \in {"counted", "called"} /\ thread[u].image = i)
      BY <1>5, <2>1 DEF RefInv, ImageStates, NoImage
    <3>2. image'[j].handle /\ image'[j].ref_count = 0 /\ image'[j].buffer = None
      BY <1>4, <2>1
    <3> QED
      BY <1>2, <2>1, <3>1, <3>2
  <2>2. CASE j # i
    <3>1. image'[j] = image[j]
      BY <1>4, <2>2
    <3> QED
      BY <1>2, <2>2, <3>1 DEF RefInv, ImageStates
  <2> QED
    BY <2>1, <2>2
<1>10. Explained'
  <2> SUFFICES ASSUME NEW r \in Sources
               PROVE  count'[r] = Cardinality(Outstanding(r)') + Cardinality(Allocating(r)') + failures'[r]
    BY DEF Explained
  <2>1. Outstanding(r)' = Outstanding(r)
    BY <1>1 DEF Outstanding
  <2>2. Cardinality(Allocating(r)') = Cardinality(Allocating(r)) + (IF r = s THEN 1 ELSE 0)
    BY <1>2, <1>3, AllocationBegins
  <2>3. /\ count'[r] = count[r] + (IF r = s THEN 1 ELSE 0) /\ failures'[r] = failures[r]
        /\ count[r] \in Int /\ failures[r] \in Nat
        /\ count[r] = Cardinality(Outstanding(r)) + Cardinality(Allocating(r)) + failures[r]
    BY <1>1 DEF RefInv, CounterTypes, Explained
  <2>4. Cardinality(Outstanding(r)') = Cardinality(Outstanding(r))
    BY <2>1
  <2> QED
    BY <2>2, <2>3, <2>4, Countable
<1> QED
  BY <1>6, <1>7, <1>8, <1>9, <1>10 DEF RefInv

LEMMA AllocCallsKeeps ==
  ASSUME MemoryInv, RefInv, NEW t \in Threads, NEW b \in Buffers, AllocCalls(t, b)
  PROVE  RefInv'
<1>1. /\ thread[t].at = "counted" /\ buffer[b].by = None
      /\ buffer' = [buffer EXCEPT ![b].by = alloc]
      /\ thread' = [thread EXCEPT ![t].at = "called", ![t].buffer = b]
      /\ UNCHANGED <<count, image, capture, owned, iheld, cheld, failures>>
  BY DEF AllocCalls, held
<1>2. /\ thread'[t].at = "called" /\ thread'[t].image = thread[t].image
      /\ thread'[t].source = thread[t].source /\ thread'[t].buffer = b
      /\ \A u \in Threads : u # t => thread'[u] = thread[u]
  BY <1>1 DEF MemoryInv, MemoryTypes, ThreadRecord
<1>3. /\ \A d \in Buffers : d # b => buffer'[d] = buffer[d]
      /\ buffer'[b].by = alloc /\ alloc # None
      /\ buffer'[b].free = None /\ buffer'[b].source = None
      /\ buffer[b].free = None /\ buffer[b].source = None
  <2>1. buffer[b] = NoBuffer
    BY <1>1 DEF RefInv, Headers
  <2> QED
    BY <1>1, <2>1, MemoryAssumption DEF MemoryInv, MemoryTypes, BufferRecord, NoBuffer
<1>4. RoomForRefs' /\ ThreadStates' /\ ImagesExact' /\ CapturesExact'
  <2>1. thread'[t].source # None <=> thread'[t].at \in {"counted", "called"}
    BY <1>1, <1>2 DEF RefInv, ThreadStates
  <2> QED
    BY <1>1, <1>2, <2>1, ReferencesStay
<1>5. CounterTypes'
  BY <1>1 DEF RefInv, CounterTypes
<1>6. Headers'
  <2>1. \A d \in Buffers : buffer'[d].by # None => Owners(d)' # {}
    <3> SUFFICES ASSUME NEW d \in Buffers, buffer'[d].by # None PROVE Owners(d)' # {}
      OBVIOUS
    <3>1. CASE d = b
      BY <1>2, <3>1 DEF Owners
    <3>2. CASE d # b
      <4>1. Owners(d) # {}
        BY <1>3, <3>2 DEF RefInv, Headers
      <4>2. Owners(d) \subseteq Owners(d)'
        BY <1>1, <1>2 DEF Owners
      <4> QED
        BY <4>1, <4>2
    <3> QED
      BY <3>1, <3>2
  <2>2. \A d \in Buffers : buffer'[d].free = buffer[d].free /\ buffer'[d].source = buffer[d].source
    BY <1>3
  <2>3. \A d \in Buffers : buffer'[d].by = None => buffer'[d] = NoBuffer
    BY <1>3 DEF RefInv, Headers
  <2>4. \A u \in Threads : thread'[u].buffer # None => buffer'[thread'[u].buffer].free = None
    BY <1>2, <1>3, <2>2 DEF RefInv, Headers, MemoryInv, MemoryTypes, ThreadRecord
  <2>5. \A u \in Threads : \A d \in owned'[u] : buffer'[d].free # None
    BY <1>1, <2>2 DEF RefInv, Headers, MemoryInv, MemoryTypes
  <2>6. \A i \in Images : image'[i].buffer # None => buffer'[image'[i].buffer].free # None
    BY <1>1, <2>2 DEF RefInv, Headers, MemoryInv, MemoryTypes, ImageRecord
  <2> QED
    BY <2>1, <2>2, <2>3, <2>4, <2>5, <2>6 DEF RefInv, Headers
<1>7. ImageStates'
  BY <1>1, <1>2, ImagesStay
<1>8. Explained'
  <2>1. \A s \in Sources : Outstanding(s)' = Outstanding(s)
    BY <1>3 DEF Outstanding
  <2>2. \A s \in Sources : Allocating(s)' = Allocating(s)
    BY <1>2 DEF Allocating
  <2> QED
    BY <1>1, <2>1, <2>2 DEF RefInv, Explained
<1> QED
  BY <1>4, <1>5, <1>6, <1>7, <1>8 DEF RefInv

LEMMA AllocCallFailsKeeps ==
  ASSUME MemoryInv, RefInv, NEW t \in Threads, AllocCallFails(t)
  PROVE  RefInv'
<1>1. /\ thread[t].at = "counted"
      /\ thread' = [thread EXCEPT ![t].at = "called"]
      /\ UNCHANGED <<count, buffer, image, capture, owned, iheld, cheld, failures>>
  BY DEF AllocCallFails, held, heap
<1>2. /\ thread'[t].at = "called" /\ thread'[t].image = thread[t].image
      /\ thread'[t].source = thread[t].source /\ thread'[t].buffer = thread[t].buffer
      /\ \A u \in Threads : u # t => thread'[u] = thread[u]
  BY <1>1 DEF MemoryInv, MemoryTypes, ThreadRecord
<1>3. thread[t].buffer = None
  BY <1>1 DEF MemoryInv, HeaderPending
<1>4. RoomForRefs' /\ ThreadStates' /\ ImagesExact' /\ CapturesExact'
  <2>1. thread'[t].source # None <=> thread'[t].at \in {"counted", "called"}
    BY <1>1, <1>2 DEF RefInv, ThreadStates
  <2> QED
    BY <1>1, <1>2, <2>1, ReferencesStay
<1>5. CounterTypes'
  BY <1>1 DEF RefInv, CounterTypes
<1>6. Headers'
  <2>1. \A d \in Buffers : Owners(d)' = Owners(d)
    BY <1>1, <1>2, <1>3, MemoryAssumption DEF Owners
  <2>2. \A u \in Threads : thread'[u].buffer = thread[u].buffer
    BY <1>2
  <2> QED
    BY <1>1, <2>1, <2>2 DEF RefInv, Headers
<1>7. ImageStates'
  BY <1>1, <1>2, ImagesStay
<1>8. Explained'
  <2>1. \A s \in Sources : Outstanding(s)' = Outstanding(s)
    BY <1>1 DEF Outstanding
  <2>2. \A s \in Sources : Allocating(s)' = Allocating(s)
    BY <1>2 DEF Allocating
  <2> QED
    BY <1>1, <2>1, <2>2 DEF RefInv, Explained
<1> QED
  BY <1>4, <1>5, <1>6, <1>7, <1>8 DEF RefInv


(* The source of an allocation that returns, and what the thread returns   *)
(* to.                                                                     *)
LEMMA Returning ==
  ASSUME MemoryInv, RefInv, NEW t \in Threads, AllocReturns(t)
  PROVE  /\ thread[t].at = "called" /\ thread[t].source \in Sources
         /\ thread'[t].at = "idle" /\ thread'[t].source = None
         /\ thread'[t].buffer = None /\ thread'[t].image = None
         /\ \A u \in Threads : u # t => thread'[u] = thread[u]
         /\ UNCHANGED <<capture, cheld>>
<1>1. thread[t].at = "called" /\ thread' = [thread EXCEPT ![t] = Idle] /\ UNCHANGED <<capture, cheld>>
  BY DEF AllocReturns
<1>2. thread[t].source \in Sources
  BY <1>1 DEF RefInv, ThreadStates, MemoryInv, MemoryTypes, ThreadRecord
<1>3. /\ thread'[t].at = "idle" /\ thread'[t].source = None
      /\ thread'[t].buffer = None /\ thread'[t].image = None
      /\ \A u \in Threads : u # t => thread'[u] = thread[u]
  BY <1>1 DEF Idle, MemoryInv, MemoryTypes
<1> QED
  BY <1>1, <1>2, <1>3

(* The header of the buffer is written.                                    *)
LEMMA HeaderWritten ==
  ASSUME MemoryInv, RefInv, NEW t \in Threads, AllocReturns(t), thread[t].buffer # None,
         buffer' = Recorded(t)
  PROVE  LET b == thread[t].buffer
         IN  /\ b \in Buffers
             /\ \A d \in Buffers : d # b => buffer'[d] = buffer[d]
             /\ buffer'[b].by = buffer[b].by /\ buffer[b].by # None
             /\ buffer[b].free = None /\ buffer'[b].free # None
             /\ buffer[b].source = None /\ buffer'[b].source = thread[t].source
<1> DEFINE b == thread[t].buffer
<1>1. b \in Buffers
  BY DEF MemoryInv, MemoryTypes, ThreadRecord
<1>2. buffer' = [buffer EXCEPT ![b].free = free, ![b].source = thread[t].source]
  BY DEF Recorded
<1>3. buffer[b] \in BufferRecord /\ free # None
  BY <1>1, MemoryAssumption DEF MemoryInv, MemoryTypes
<1>4. buffer[b].free = None /\ buffer[b].source = None
  BY <1>1 DEF RefInv, Headers
<1>5. buffer[b].by # None
  BY MemoryAssumption DEF MemoryInv, MemoryTypes, HeaderPending
<1> HIDE DEF b
<1>6. /\ \A d \in Buffers : d # b => buffer'[d] = buffer[d]
      /\ buffer'[b].by = buffer[b].by /\ buffer'[b].free = free
      /\ buffer'[b].source = thread[t].source
  BY <1>1, <1>2, <1>3 DEF MemoryInv, MemoryTypes, BufferRecord
<1> QED
  BY <1>1, <1>3, <1>4, <1>5, <1>6 DEF b

(* The buffer is counted instead of the allocation.                        *)
LEMMA BufferCounted ==
  ASSUME MemoryInv, RefInv, NEW t \in Threads, AllocReturns(t), thread[t].buffer # None,
         buffer' = Recorded(t), UNCHANGED <<count, failures>>
  PROVE  Explained'
<1> DEFINE b == thread[t].buffer
           r == thread[t].source
<1> SUFFICES ASSUME NEW s \in Sources
             PROVE  count'[s] = Cardinality(Outstanding(s)') + Cardinality(Allocating(s)') + failures'[s]
  BY DEF Explained
<1>1. /\ b \in Buffers
      /\ \A d \in Buffers : d # b => buffer'[d] = buffer[d]
      /\ buffer[b].source = None /\ buffer'[b].source = r
  BY HeaderWritten
<1>2. r \in Sources /\ thread'[t].source = None /\ \A u \in Threads : u # t => thread'[u] = thread[u]
  BY Returning
<1> HIDE DEF b
<1>3. Cardinality(Allocating(s)') = Cardinality(Allocating(s)) - (IF s = r THEN 1 ELSE 0)
  BY <1>2, AllocationEnds
<1> HIDE DEF r
<1>4. b \notin Outstanding(s)
  BY <1>1, MemoryAssumption DEF Outstanding
<1>5. Cardinality(Outstanding(s)') = Cardinality(Outstanding(s)) + (IF s = r THEN 1 ELSE 0)
  <2>1. CASE s = r
    <3>1. Outstanding(s)' = Outstanding(s) \cup {b}
      BY <1>1, <2>1 DEF Outstanding
    <3> QED
      BY <1>4, <2>1, <3>1, Countable, FS_AddElement
  <2>2. CASE s # r
    <3>1. Outstanding(s)' = Outstanding(s)
      BY <1>1, <1>4, <2>2 DEF Outstanding
    <3> QED
      BY <2>2, <3>1, Countable
  <2> QED
    BY <2>1, <2>2
<1>6. /\ count'[s] = count[s] /\ failures'[s] = failures[s]
      /\ count[s] \in Int /\ failures[s] \in Nat
      /\ count[s] = Cardinality(Outstanding(s)) + Cardinality(Allocating(s)) + failures[s]
  BY DEF RefInv, CounterTypes, Explained
<1>7. CASE s = r
  BY <1>3, <1>5, <1>6, <1>7, Countable
<1>8. CASE s # r
  BY <1>3, <1>5, <1>6, <1>8, Countable
<1> QED
  BY <1>7, <1>8

LEMMA BufferAllocatedKeeps ==
  ASSUME MemoryInv, RefInv, NEW t \in Threads, BufferAllocated(t)
  PROVE  RefInv'
<1> DEFINE b == thread[t].buffer
<1>1. /\ thread[t].image = None /\ b # None /\ AllocReturns(t) /\ buffer' = Recorded(t)
      /\ owned' = [owned EXCEPT ![t] = @ \cup {b}]
      /\ UNCHANGED <<count, image, iheld, failures>>
  BY DEF BufferAllocated
<1>2. /\ thread[t].at = "called" /\ thread'[t].at = "idle" /\ thread'[t].source = None
      /\ thread'[t].buffer = None
      /\ \A u \in Threads : u # t => thread'[u] = thread[u]
      /\ UNCHANGED <<capture, cheld>>
  BY <1>1, Returning
<1>3. /\ b \in Buffers
      /\ \A d \in Buffers : d # b => buffer'[d] = buffer[d]
      /\ buffer'[b].by = buffer[b].by /\ buffer[b].by # None
      /\ buffer'[b].free # None /\ buffer'[b].source = thread[t].source
  BY <1>1, HeaderWritten
<1>4. RoomForRefs' /\ ThreadStates' /\ ImagesExact' /\ CapturesExact'
  BY <1>1, <1>2, ReferencesStay
<1>5. CounterTypes'
  BY <1>1, <1>2 DEF RefInv, CounterTypes
<1>6. Explained'
  BY <1>1, BufferCounted
<1>7. ImageStates'
  BY <1>1, <1>2 DEF RefInv, ImageStates
<1>8. Headers'
  <2>0. thread[t].source # None
    BY <1>2 DEF RefInv, ThreadStates
  <2>1. \A u \in Threads : u # t /\ thread[u].buffer # None => thread[u].buffer # b
    BY <1>1 DEF MemoryInv, OneOwner
  <2>9. b = thread[t].buffer
    OBVIOUS
  <2> HIDE DEF b
  <2>2. \A u \in Threads : owned'[u] = IF u = t THEN owned[u] \cup {b} ELSE owned[u]
    BY <1>1 DEF MemoryInv, MemoryTypes
  <2>3. \A d \in Buffers : buffer'[d].by # None => Owners(d)' # {}
    <3> SUFFICES ASSUME NEW d \in Buffers, buffer'[d].by # None PROVE Owners(d)' # {}
      OBVIOUS
    <3>1. CASE d = b
      <4>1. t \in Owners(d)'
        BY <2>2, <3>1 DEF Owners
      <4> QED
        BY <4>1
    <3>2. CASE d # b
      <4>1. Owners(d) # {}
        BY <1>3, <3>2 DEF RefInv, Headers
      <4>2. Owners(d) \subseteq Owners(d)'
        BY <1>1, <1>2, <2>2, <2>9, <3>2 DEF Owners
      <4> QED
        BY <4>1, <4>2
    <3> QED
      BY <3>1, <3>2
  <2>4. \A d \in Buffers : /\ buffer'[d].by = None => buffer'[d] = NoBuffer
                           /\ buffer'[d].source = None <=> buffer'[d].free = None
    BY <1>3, <2>0 DEF RefInv, Headers
  <2>5. \A u \in Threads : thread'[u].buffer # None => buffer'[thread'[u].buffer].free = None
    BY <1>2, <1>3, <2>1 DEF RefInv, Headers, MemoryInv, MemoryTypes, ThreadRecord
  <2>6. \A u \in Threads : \A d \in owned'[u] : buffer'[d].free # None
    <3> SUFFICES ASSUME NEW u \in Threads, NEW d \in owned'[u] PROVE buffer'[d].free # None
      OBVIOUS
    <3>1. CASE d = b
      BY <1>3, <3>1
    <3>2. CASE d # b
      <4>1. d \in owned[u]
        BY <2>2, <3>2
      <4>2. d \in Buffers /\ buffer[d].free # None
        BY <4>1 DEF RefInv, Headers, MemoryInv, MemoryTypes
      <4> QED
        BY <1>3, <3>2, <4>2
    <3> QED
      BY <3>1, <3>2
  <2>7. \A i \in Images : image'[i].buffer # None => buffer'[image'[i].buffer].free # None
    BY <1>1, <1>3 DEF RefInv, Headers, MemoryInv, MemoryTypes, ImageRecord
  <2> QED
    BY <2>3, <2>4, <2>5, <2>6, <2>7 DEF Headers
<1> QED
  BY <1>4, <1>5, <1>6, <1>7, <1>8 DEF RefInv

(* An image without references is made, and its first one is its maker's.  *)
LEMMA FirstReference ==
  ASSUME MemoryInv, RefInv, NEW t \in Threads, NEW i \in Images, ~(image[i].ref_count > 0),
         iheld' = [iheld EXCEPT ![t][i] = 1], image'[i].ref_count = 1,
         \A j \in Images : j # i => image'[j] = image[j],
         \A j : Slots(j)' = Slots(j) /\ Gets(j)' = Gets(j)
  PROVE  /\ iheld' \in [Threads -> [Images -> Nat]]
         /\ ImagesExact'
         /\ \A v \in Threads, j \in Images : iheld'[v][j] = IF v = t /\ j = i THEN 1 ELSE iheld[v][j]
<1>1. iheld[t][i] = 0
  <2>1. ~(iheld[t][i] > 0) /\ iheld[t][i] \in Nat
    BY UsedIsThere DEF RefInv, CounterTypes
  <2> QED
    BY <2>1
<1>2. iheld[t][i] < 2 * MaxRefs
  BY <1>1, MemoryAssumption
<1>3. iheld' = [iheld EXCEPT ![t][i] = @ + 1]
  BY <1>1 DEF RefInv, CounterTypes
<1>4. /\ iheld' \in [Threads -> [Images -> Nat]]
      /\ \A v \in Threads, j \in Images :
           iheld'[v][j] = IF v = t /\ j = i THEN iheld[v][j] + 1 ELSE iheld[v][j]
      /\ \A j \in Images : Cardinality(Refs(iheld, j)') = Cardinality(Refs(iheld, j)) + Plus(i)[j]
  BY <1>2, <1>3, HeldMore, ZenonT(40)
<1>5. ASSUME NEW j \in Images
      PROVE  Users(j)' = IF image'[j].ref_count > 0 THEN image'[j].ref_count ELSE 0
  <2>1. Cardinality(Refs(iheld, j)') = Cardinality(Refs(iheld, j)) + (IF j = i THEN 1 ELSE 0)
    BY <1>4 DEF Plus
  <2>2. Users(j)' = Users(j) + (IF j = i THEN 1 ELSE 0)
    BY <2>1, RefsCounted, SlotsCounted, GetsCounted DEF Users
  <2>3. Users(j) = IF image[j].ref_count > 0 THEN image[j].ref_count ELSE 0
    BY DEF RefInv, ImagesExact
  <2>4. CASE j = i
    BY <2>2, <2>3, <2>4
  <2>5. CASE j # i
    BY <2>2, <2>3, <2>5, UsersCounted
  <2> QED
    BY <2>4, <2>5
<1> QED
  BY <1>1, <1>4, <1>5 DEF ImagesExact

LEMMA ImageCreatedKeeps ==
  ASSUME MemoryInv, RefInv, NEW t \in Threads, ImageCreated(t)
  PROVE  RefInv'
<1> DEFINE b == thread[t].buffer
           i == thread[t].image
<1>1. /\ i # None /\ b # None /\ AllocReturns(t) /\ buffer' = Recorded(t)
      /\ image' = [image EXCEPT ![i].ref_count = 1, ![i].buffer = b]
      /\ iheld' = [iheld EXCEPT ![t][i] = 1]
      /\ UNCHANGED <<count, owned, failures>>
  BY DEF ImageCreated
<1>2. /\ thread[t].at = "called" /\ thread'[t].at = "idle" /\ thread'[t].source = None
      /\ thread'[t].buffer = None
      /\ \A u \in Threads : u # t => thread'[u] = thread[u]
      /\ UNCHANGED <<capture, cheld>>
  BY <1>1, Returning
<1>3. /\ b \in Buffers
      /\ \A d \in Buffers : d # b => buffer'[d] = buffer[d]
      /\ buffer'[b].by = buffer[b].by /\ buffer[b].by # None
      /\ buffer'[b].free # None /\ buffer'[b].source = thread[t].source
  BY <1>1, HeaderWritten
<1>4. i \in Images
  BY <1>1 DEF MemoryInv, MemoryTypes, ThreadRecord
<1>5. image[i].handle /\ image[i].ref_count = 0
  BY <1>2, <1>4 DEF RefInv, ImageStates
<1>6. Explained'
  BY <1>1, BufferCounted
<1>7. /\ thread[t].source # None
      /\ \A u \in Threads : u # t /\ thread[u].buffer # None => thread[u].buffer # b
      /\ \A u \in Threads : u # t /\ thread[u].at \in {"counted", "called"} => thread[u].image # i
  BY <1>1, <1>2, <1>4 DEF RefInv, ThreadStates, ImageStates, MemoryInv, OneOwner
<1>8. b = thread[t].buffer /\ i = thread[t].image
  OBVIOUS
<1> HIDE DEF b, i
<1>9. /\ image'[i].handle /\ image'[i].ref_count = 1 /\ image'[i].buffer = b
      /\ \A j \in Images : j # i => image'[j] = image[j]
  <2>1. image[i] \in ImageRecord
    BY <1>4 DEF MemoryInv, MemoryTypes
  <2> QED
    BY <1>1, <1>4, <1>5, <2>1 DEF MemoryInv, MemoryTypes, ImageRecord
<1>10. /\ ThreadStates' /\ CapturesExact'
       /\ \A j : Slots(j)' = Slots(j) /\ Gets(j)' = Gets(j)
  BY <1>2, ThreadMoves
<1>11. /\ iheld' \in [Threads -> [Images -> Nat]]
       /\ ImagesExact'
       /\ \A v \in Threads, j \in Images : iheld'[v][j] = IF v = t /\ j = i THEN 1 ELSE iheld[v][j]
  <2>1. ~(image[i].ref_count > 0)
    BY <1>5
  <2>2. \A j : Slots(j)' = Slots(j) /\ Gets(j)' = Gets(j)
    BY <1>10
  <2>3. iheld' = [iheld EXCEPT ![t][i] = 1]
    BY <1>1
  <2>4. image'[i].ref_count = 1 /\ \A j \in Images : j # i => image'[j] = image[j]
    BY <1>9
  <2> QED
    BY <1>4, <2>1, <2>2, <2>3, <2>4, FirstReference, ZenonT(40)
<1>12. CounterTypes'
  BY <1>1, <1>2, <1>11 DEF RefInv, CounterTypes
<1>13. RoomForRefs'
  BY <1>2, <1>11, MemoryAssumption DEF RefInv, RoomForRefs
<1>14. ImageStates'
  <2> SUFFICES ASSUME NEW j \in Images
               PROVE  /\ ~image'[j].handle => image'[j] = NoImage
                      /\ image'[j].ref_count > 0 <=> image'[j].buffer # None
                      /\ \A v, u \in Threads :
                           thread'[v].at \in {"counted", "called"} /\ thread'[v].image = j =>
                             /\ image'[j].handle /\ image'[j].ref_count = 0
                             /\ thread'[u].at \in {"counted", "called"} /\ thread'[u].image = j => v = u
    BY DEF ImageStates
  <2>1. CASE j = i
    <3>1. \A v \in Threads : ~(thread'[v].at \in {"counted", "called"} /\ thread'[v].image = j)
      BY <1>2, <1>7, <2>1
    <3> QED
      BY <1>1, <1>9, <2>1, <3>1
  <2>2. CASE j # i
    BY <1>2, <1>9, <2>2 DEF RefInv, ImageStates
  <2> QED
    BY <2>1, <2>2
<1>15. Headers'
  <2>3. \A d \in Buffers : buffer'[d].by # None => Owners(d)' # {}
    <3> SUFFICES ASSUME NEW d \in Buffers, buffer'[d].by # None PROVE Owners(d)' # {}
      OBVIOUS
    <3>1. CASE d = b
      <4>1. i \in Owners(d)'
        BY <1>4, <1>9, <3>1 DEF Owners
      <4> QED
        BY <4>1
    <3>2. CASE d # b
      <4>1. Owners(d) # {}
        BY <1>3, <3>2 DEF RefInv, Headers
      <4>2. image[i].buffer # d
        BY <1>4, <1>5, MemoryAssumption DEF RefInv, ImageStates
      <4>3. Owners(d) \subseteq Owners(d)'
        BY <1>1, <1>2, <1>8, <1>9, <3>2, <4>2 DEF Owners
      <4> QED
        BY <4>1, <4>3
    <3> QED
      BY <3>1, <3>2
  <2>4. \A d \in Buffers : /\ buffer'[d].by = None => buffer'[d] = NoBuffer
                           /\ buffer'[d].source = None <=> buffer'[d].free = None
    BY <1>3, <1>7 DEF RefInv, Headers
  <2>5. \A u \in Threads : thread'[u].buffer # None => buffer'[thread'[u].buffer].free = None
    BY <1>2, <1>3, <1>7 DEF RefInv, Headers, MemoryInv, MemoryTypes, ThreadRecord
  <2>6. \A u \in Threads : \A d \in owned'[u] : buffer'[d].free # None
    BY <1>1, <1>3 DEF RefInv, Headers, MemoryInv, MemoryTypes
  <2>7. \A j \in Images : image'[j].buffer # None => buffer'[image'[j].buffer].free # None
    BY <1>3, <1>9 DEF RefInv, Headers, MemoryInv, MemoryTypes, ImageRecord
  <2> QED
    BY <2>3, <2>4, <2>5, <2>6, <2>7 DEF Headers
<1> QED
  BY <1>6, <1>10, <1>11, <1>12, <1>13, <1>14, <1>15 DEF RefInv


(* image_create_empty_image gives everything back when the image has no    *)
(* lock.                                                                   *)
LEMMA ImageLockFailsKeeps ==
  ASSUME MemoryInv, RefInv, NEW t \in Threads, ImageLockFails(t)
  PROVE  RefInv'
<1> DEFINE b == thread[t].buffer
           i == thread[t].image
           r == thread[t].source
<1>1. /\ i # None /\ b # None /\ AllocReturns(t)
      /\ buffer' = [buffer EXCEPT ![b] = NoBuffer]
      /\ count' = [count EXCEPT ![r] = @ - 1]
      /\ image' = [image EXCEPT ![i] = NoImage]
      /\ UNCHANGED <<owned, iheld, failures>>
  BY DEF ImageLockFails
<1>2. /\ thread[t].at = "called" /\ thread'[t].at = "idle" /\ thread'[t].source = None
      /\ thread'[t].buffer = None /\ r \in Sources
      /\ \A u \in Threads : u # t => thread'[u] = thread[u]
      /\ UNCHANGED <<capture, cheld>>
  BY <1>1, Returning
<1>3. i \in Images /\ b \in Buffers
  BY <1>1 DEF MemoryInv, MemoryTypes, ThreadRecord
<1>4. image[i].handle /\ image[i].ref_count = 0 /\ image[i].buffer = None
  <2>1. image[i].handle /\ image[i].ref_count = 0
    BY <1>2, <1>3 DEF RefInv, ImageStates
  <2> QED
    BY <1>3, <2>1 DEF RefInv, ImageStates
<1>5. buffer[b].free = None /\ buffer[b].source = None
  BY <1>1, <1>3 DEF RefInv, Headers
<1>6. /\ \A u \in Threads : u # t /\ thread[u].buffer # None => thread[u].buffer # b
      /\ \A u \in Threads : b \notin owned[u]
      /\ \A j \in Images : image[j].buffer # b
      /\ \A u \in Threads : u # t /\ thread[u].at \in {"counted", "called"} => thread[u].image # i
  BY <1>1, <1>2, <1>3 DEF RefInv, ImageStates, MemoryInv, OneOwner
<1>7. b = thread[t].buffer /\ i = thread[t].image /\ r = thread[t].source
  OBVIOUS
<1> HIDE DEF b, i, r
<1>8. /\ image'[i] = NoImage /\ \A j \in Images : j # i => image'[j] = image[j]
      /\ buffer'[b] = NoBuffer /\ \A d \in Buffers : d # b => buffer'[d] = buffer[d]
  BY <1>1, <1>3 DEF MemoryInv, MemoryTypes
<1>9. image'[i].ref_count = 0 /\ image'[i].buffer = None
  BY <1>8 DEF NoImage
<1>10. RoomForRefs' /\ ThreadStates' /\ ImagesExact' /\ CapturesExact'
  <2>1. \A j \in Images : image'[j].ref_count = image[j].ref_count
    BY <1>4, <1>8, <1>9
  <2> QED
    BY <1>1, <1>2, <2>1, ReferencesStay
<1>11. CounterTypes'
  BY <1>1, <1>2 DEF RefInv, CounterTypes
<1>12. ImageStates'
  <2> SUFFICES ASSUME NEW j \in Images
               PROVE  /\ ~image'[j].handle => image'[j] = NoImage
                      /\ image'[j].ref_count > 0 <=> image'[j].buffer # None
                      /\ \A v, u \in Threads :
                           thread'[v].at \in {"counted", "called"} /\ thread'[v].image = j =>
                             /\ image'[j].handle /\ image'[j].ref_count = 0
                             /\ thread'[u].at \in {"counted", "called"} /\ thread'[u].image = j => v = u
    BY DEF ImageStates
  <2>1. CASE j = i
    <3>1. \A v \in Threads : ~(thread'[v].at \in {"counted", "called"} /\ thread'[v].image = j)
      BY <1>2, <1>6, <2>1
    <3> QED
      BY <1>8, <1>9, <2>1, <3>1
  <2>2. CASE j # i
    BY <1>2, <1>8, <2>2 DEF RefInv, ImageStates
  <2> QED
    BY <2>1, <2>2
<1>13. Headers'
  <2>1. buffer'[b].by = None /\ buffer'[b].free = None /\ buffer'[b].source = None
    BY <1>8 DEF NoBuffer
  <2>3. \A d \in Buffers : buffer'[d].by # None => Owners(d)' # {}
    <3> SUFFICES ASSUME NEW d \in Buffers, buffer'[d].by # None PROVE Owners(d)' # {}
      OBVIOUS
    <3>1. d # b /\ buffer[d].by # None
      BY <1>8, <2>1
    <3>2. Owners(d) # {}
      BY <3>1 DEF RefInv, Headers
    <3>3. image[i].buffer # d
      BY <1>4, MemoryAssumption
    <3>4. Owners(d) \subseteq Owners(d)'
      BY <1>1, <1>2, <1>7, <1>8, <3>1, <3>3 DEF Owners
    <3> QED
      BY <3>2, <3>4
  <2>4. \A d \in Buffers : /\ buffer'[d].by = None => buffer'[d] = NoBuffer
                           /\ buffer'[d].source = None <=> buffer'[d].free = None
    BY <1>8, <2>1 DEF RefInv, Headers
  <2>5. \A u \in Threads : thread'[u].buffer # None => buffer'[thread'[u].buffer].free = None
    BY <1>2, <1>8, <1>6 DEF RefInv, Headers, MemoryInv, MemoryTypes, ThreadRecord
  <2>6. \A u \in Threads : \A d \in owned'[u] : buffer'[d].free # None
    BY <1>1, <1>8, <1>6 DEF RefInv, Headers, MemoryInv, MemoryTypes
  <2>7. \A j \in Images : image'[j].buffer # None => buffer'[image'[j].buffer].free # None
    BY <1>8, <1>9, <1>6 DEF RefInv, Headers, MemoryInv, MemoryTypes, ImageRecord
  <2> QED
    BY <2>3, <2>4, <2>5, <2>6, <2>7 DEF Headers
<1>14. Explained'
  <2> SUFFICES ASSUME NEW s \in Sources
               PROVE  count'[s] = Cardinality(Outstanding(s)') + Cardinality(Allocating(s)') + failures'[s]
    BY DEF Explained
  <2>1. Outstanding(s)' = Outstanding(s)
    BY <1>5, <1>8, MemoryAssumption DEF Outstanding, NoBuffer
  <2>2. Cardinality(Allocating(s)') = Cardinality(Allocating(s)) - (IF s = r THEN 1 ELSE 0)
    BY <1>2, <1>7, AllocationEnds
  <2>3. /\ count'[s] = count[s] - (IF s = r THEN 1 ELSE 0) /\ failures'[s] = failures[s]
        /\ count[s] \in Int /\ failures[s] \in Nat
        /\ count[s] = Cardinality(Outstanding(s)) + Cardinality(Allocating(s)) + failures[s]
    BY <1>1 DEF RefInv, CounterTypes, Explained
  <2>4. Cardinality(Outstanding(s)') = Cardinality(Outstanding(s))
    BY <2>1
  <2>5. CASE s = r
    BY <2>2, <2>3, <2>4, <2>5, Countable
  <2>6. CASE s # r
    BY <2>2, <2>3, <2>4, <2>6, Countable
  <2> QED
    BY <2>5, <2>6
<1> QED
  BY <1>10, <1>11, <1>12, <1>13, <1>14 DEF RefInv

(* The allocate callback gave nothing: the count stays up, as a failure,   *)
(* and the image, which never had a reference, stays without one.          *)
LEMMA AllocFailedKeeps ==
  ASSUME MemoryInv, RefInv, NEW t \in Threads, AllocFailed(t)
  PROVE  RefInv'
<1> DEFINE i == thread[t].image
           r == thread[t].source
<1>1. /\ thread[t].buffer = None /\ AllocReturns(t)
      /\ image' = [j \in Images |-> IF j = i THEN [image[j] EXCEPT !.ref_count = @ - 1] ELSE image[j]]
      /\ failures' = [failures EXCEPT ![r] = @ + 1]
      /\ UNCHANGED <<count, buffer, owned, iheld>>
  BY DEF AllocFailed
<1>2. /\ thread[t].at = "called" /\ thread'[t].at = "idle" /\ thread'[t].source = None
      /\ thread'[t].buffer = None /\ r \in Sources
      /\ \A u \in Threads : u # t => thread'[u] = thread[u]
      /\ UNCHANGED <<capture, cheld>>
  BY <1>1, Returning
<1>3. \A j \in Images : j = i =>
        /\ image[j].handle /\ image[j].ref_count = 0 /\ image[j].buffer = None
        /\ \A u \in Threads : u # t /\ thread[u].at \in {"counted", "called"} => thread[u].image # i
  BY <1>2 DEF RefInv, ImageStates
<1>7. i = thread[t].image /\ r = thread[t].source
  OBVIOUS
<1> HIDE DEF i, r
<1>8. \A j \in Images :
        /\ j # i => image'[j] = image[j]
        /\ j = i => image'[j].handle /\ image'[j].ref_count = -1 /\ image'[j].buffer = None
  <2> SUFFICES ASSUME NEW j \in Images, j = i
               PROVE  image'[j].handle /\ image'[j].ref_count = -1 /\ image'[j].buffer = None
    BY <1>1
  <2>1. image[j] \in ImageRecord
    BY DEF MemoryInv, MemoryTypes
  <2>2. image'[j] = [image[j] EXCEPT !.ref_count = image[j].ref_count - 1]
    BY <1>1
  <2> QED
    BY <1>3, <2>1, <2>2 DEF ImageRecord
<1>10. RoomForRefs' /\ ThreadStates' /\ ImagesExact' /\ CapturesExact'
  <2>1. \A j \in Images : image'[j].ref_count # image[j].ref_count =>
          ~(image[j].ref_count > 0) /\ ~(image'[j].ref_count > 0)
    BY <1>3, <1>8
  <2> QED
    BY <1>1, <1>2, <2>1, ReferencesStay
<1>11. CounterTypes'
  BY <1>1, <1>2 DEF RefInv, CounterTypes
<1>12. ImageStates'
  <2> SUFFICES ASSUME NEW j \in Images
               PROVE  /\ ~image'[j].handle => image'[j] = NoImage
                      /\ image'[j].ref_count > 0 <=> image'[j].buffer # None
                      /\ \A v, u \in Threads :
                           thread'[v].at \in {"counted", "called"} /\ thread'[v].image = j =>
                             /\ image'[j].handle /\ image'[j].ref_count = 0
                             /\ thread'[u].at \in {"counted", "called"} /\ thread'[u].image = j => v = u
    BY DEF ImageStates
  <2>1. CASE j = i
    <3>1. \A v \in Threads : ~(thread'[v].at \in {"counted", "called"} /\ thread'[v].image = j)
      BY <1>2, <1>3, <2>1
    <3>2. image'[j].handle /\ image'[j].ref_count = -1 /\ image'[j].buffer = None
      BY <1>8, <2>1
    <3> QED
      BY <3>1, <3>2
  <2>2. CASE j # i
    BY <1>2, <1>8, <2>2 DEF RefInv, ImageStates
  <2> QED
    BY <2>1, <2>2
<1>13. Headers'
  <2>1. \A j \in Images : image'[j].buffer = image[j].buffer
    BY <1>3, <1>8
  <2>2. \A d \in Buffers : Owners(d)' = Owners(d)
    BY <1>1, <1>2, <2>1, MemoryAssumption DEF Owners
  <2>3. \A u \in Threads : thread'[u].buffer # None => thread'[u] = thread[u]
    BY <1>2
  <2> QED
    BY <1>1, <2>1, <2>2, <2>3 DEF RefInv, Headers
<1>14. Explained'
  <2> SUFFICES ASSUME NEW s \in Sources
               PROVE  count'[s] = Cardinality(Outstanding(s)') + Cardinality(Allocating(s)') + failures'[s]
    BY DEF Explained
  <2>1. Outstanding(s)' = Outstanding(s)
    BY <1>1 DEF Outstanding
  <2>2. Cardinality(Allocating(s)') = Cardinality(Allocating(s)) - (IF s = r THEN 1 ELSE 0)
    BY <1>2, <1>7, AllocationEnds
  <2>3. /\ count'[s] = count[s] /\ failures'[s] = failures[s] + (IF s = r THEN 1 ELSE 0)
        /\ count[s] \in Int /\ failures[s] \in Nat
        /\ count[s] = Cardinality(Outstanding(s)) + Cardinality(Allocating(s)) + failures[s]
    BY <1>1 DEF RefInv, CounterTypes, Explained
  <2>4. Cardinality(Outstanding(s)') = Cardinality(Outstanding(s))
    BY <2>1
  <2>5. CASE s = r
    BY <2>2, <2>3, <2>4, <2>5, Countable
  <2>6. CASE s # r
    BY <2>2, <2>3, <2>4, <2>6, Countable
  <2> QED
    BY <2>5, <2>6
<1> QED
  BY <1>10, <1>11, <1>12, <1>13, <1>14 DEF RefInv

LEMMA FreeBufferKeeps ==
  ASSUME MemoryInv, RefInv, NEW t \in Threads, NEW b \in Buffers, FreeBuffer(t, b)
  PROVE  RefInv'
<1>1. /\ thread[t].at = "idle" /\ b \in owned[t] /\ allocator_free({b})
      /\ owned' = [owned EXCEPT ![t] = @ \ {b}]
      /\ UNCHANGED <<image, capture, thread, iheld, cheld, failures>>
  BY DEF FreeBuffer
<1>2. buffer'[b] = NoBuffer /\ \A d \in Buffers : d # b => buffer'[d] = buffer[d]
  BY <1>1 DEF allocator_free
<1>3. \A u \in Threads : owned'[u] = IF u = t THEN owned[u] \ {b} ELSE owned[u]
  BY <1>1 DEF MemoryInv, MemoryTypes
<1>4. /\ \A u \in Threads : thread[u].buffer # b
      /\ \A u \in Threads : u # t => b \notin owned[u]
      /\ \A j \in Images : image[j].buffer # b
  BY <1>1 DEF MemoryInv, OneOwner
<1>5. RoomForRefs' /\ ThreadStates' /\ ImagesExact' /\ CapturesExact'
  <2>1. thread'[t].source # None <=> thread'[t].at \in {"counted", "called"}
    BY <1>1 DEF RefInv, ThreadStates
  <2> QED
    BY <1>1, <2>1, ReferencesStay
<1>6. count' \in [Sources -> Int]
  <2>1. CASE Sources = {}
    BY <1>1, <2>1 DEF allocator_free
  <2>2. CASE Sources # {}
    BY <1>1, <2>2, FreeCounts
  <2> QED
    BY <2>1, <2>2
<1>7. CounterTypes'
  BY <1>1, <1>6 DEF RefInv, CounterTypes
<1>8. ImageStates'
  BY <1>1 DEF RefInv, ImageStates
<1>9. Headers'
  <2>1. buffer'[b].by = None /\ buffer'[b].free = None /\ buffer'[b].source = None
    BY <1>2 DEF NoBuffer
  <2>2. \A d \in Buffers : buffer'[d].by # None => Owners(d)' # {}
    <3> SUFFICES ASSUME NEW d \in Buffers, buffer'[d].by # None PROVE Owners(d)' # {}
      OBVIOUS
    <3>1. d # b /\ buffer[d].by # None
      BY <1>2, <2>1
    <3>2. Owners(d) # {}
      BY <3>1 DEF RefInv, Headers
    <3>3. Owners(d) \subseteq Owners(d)'
      BY <1>1, <1>3, <3>1 DEF Owners
    <3> QED
      BY <3>2, <3>3
  <2>3. \A d \in Buffers : /\ buffer'[d].by = None => buffer'[d] = NoBuffer
                           /\ buffer'[d].source = None <=> buffer'[d].free = None
    BY <1>2, <2>1 DEF RefInv, Headers
  <2>4. \A u \in Threads : thread'[u].buffer # None => buffer'[thread'[u].buffer].free = None
    BY <1>1, <1>2, <1>4 DEF RefInv, Headers, MemoryInv, MemoryTypes, ThreadRecord
  <2>5. \A u \in Threads : \A d \in owned'[u] : buffer'[d].free # None
    <3> SUFFICES ASSUME NEW u \in Threads, NEW d \in owned'[u] PROVE buffer'[d].free # None
      OBVIOUS
    <3>1. d \in owned[u] /\ d # b
      BY <1>3, <1>4
    <3> QED
      BY <1>2, <3>1 DEF RefInv, Headers, MemoryInv, MemoryTypes
  <2>6. \A j \in Images : image'[j].buffer # None => buffer'[image'[j].buffer].free # None
    BY <1>1, <1>2, <1>4 DEF RefInv, Headers, MemoryInv, MemoryTypes, ImageRecord
  <2> QED
    BY <2>2, <2>3, <2>4, <2>5, <2>6 DEF Headers
<1>10. Explained'
  <2> SUFFICES ASSUME NEW s \in Sources
               PROVE  count'[s] = Cardinality(Outstanding(s)') + Cardinality(Allocating(s)') + failures'[s]
    BY DEF Explained
  <2>1. count'[s] - Cardinality(Outstanding(s)') = count[s] - Cardinality(Outstanding(s))
    BY <1>1, FreeCounts
  <2>2. Cardinality(Allocating(s)') = Cardinality(Allocating(s)) /\ failures'[s] = failures[s]
    BY <1>1 DEF Allocating
  <2>3. count[s] = Cardinality(Outstanding(s)) + Cardinality(Allocating(s)) + failures[s]
    BY DEF RefInv, Explained
  <2>4. count'[s] \in Int /\ count[s] \in Int /\ failures[s] \in Nat
    BY <1>6 DEF RefInv, CounterTypes
  <2> QED
    BY <2>1, <2>2, <2>3, <2>4, Countable
<1> QED
  BY <1>5, <1>7, <1>8, <1>9, <1>10 DEF RefInv

LEMMA ImageFromBufferKeeps ==
  ASSUME MemoryInv, RefInv, NEW t \in Threads, NEW b \in Buffers, NEW i \in Images,
         ImageFromBuffer(t, b, i)
  PROVE  RefInv'
<1>1. /\ thread[t].at = "idle" /\ b \in owned[t] /\ ~image[i].handle
      /\ image' = [image EXCEPT ![i] = [handle |-> TRUE, ref_count |-> 1, buffer |-> b]]
      /\ owned' = [owned EXCEPT ![t] = @ \ {b}]
      /\ iheld' = [iheld EXCEPT ![t][i] = 1]
      /\ UNCHANGED <<count, buffer, capture, thread, cheld, failures>>
  BY DEF ImageFromBuffer
<1>2. image[i].ref_count = 0 /\ image[i].buffer = None
  <2>1. image[i] = NoImage
    BY <1>1 DEF RefInv, ImageStates
  <2> QED
    BY <2>1 DEF NoImage
<1>3. /\ image'[i].handle /\ image'[i].ref_count = 1 /\ image'[i].buffer = b
      /\ \A j \in Images : j # i => image'[j] = image[j]
  BY <1>1 DEF MemoryInv, MemoryTypes
<1>4. \A u \in Threads : owned'[u] = IF u = t THEN owned[u] \ {b} ELSE owned[u]
  BY <1>1 DEF MemoryInv, MemoryTypes
<1>5. /\ ThreadStates' /\ CapturesExact'
      /\ \A j : Slots(j)' = Slots(j) /\ Gets(j)' = Gets(j)
  BY <1>1, CapturesStay
<1>6. /\ iheld' \in [Threads -> [Images -> Nat]]
      /\ ImagesExact'
      /\ \A v \in Threads, j \in Images : iheld'[v][j] = IF v = t /\ j = i THEN 1 ELSE iheld[v][j]
  <2>1. ~(image[i].ref_count > 0)
    BY <1>2
  <2> QED
    BY <1>1, <1>3, <1>5, <2>1, FirstReference, ZenonT(40)
<1>7. CounterTypes'
  BY <1>1, <1>6 DEF RefInv, CounterTypes
<1>8. RoomForRefs'
  BY <1>1, <1>6, MemoryAssumption DEF RefInv, RoomForRefs
<1>9. ImageStates'
  <2> SUFFICES ASSUME NEW j \in Images
               PROVE  /\ ~image'[j].handle => image'[j] = NoImage
                      /\ image'[j].ref_count > 0 <=> image'[j].buffer # None
                      /\ \A v, u \in Threads :
                           thread[v].at \in {"counted", "called"} /\ thread[v].image = j =>
                             /\ image'[j].handle /\ image'[j].ref_count = 0
                             /\ thread[u].at \in {"counted", "called"} /\ thread[u].image = j => v = u
    BY <1>1 DEF ImageStates
  <2>1. CASE j = i
    <3>1. \A v \in Threads : ~(thread[v].at \in {"counted", "called"} /\ thread[v].image = j)
      BY <1>1, <2>1 DEF RefInv, ImageStates
    <3>2. b # None
      BY MemoryAssumption
    <3> QED
      BY <1>3, <2>1, <3>1, <3>2
  <2>2. CASE j # i
    BY <1>3, <2>2 DEF RefInv, ImageStates
  <2> QED
    BY <2>1, <2>2
<1>10. Headers'
  <2>1. \A d \in Buffers : buffer[d].by # None => Owners(d)' # {}
    <3> SUFFICES ASSUME NEW d \in Buffers, buffer[d].by # None PROVE Owners(d)' # {}
      OBVIOUS
    <3>1. CASE d = b
      <4>1. i \in Owners(d)'
        BY <1>3, <3>1 DEF Owners
      <4> QED
        BY <4>1
    <3>2. CASE d # b
      <4>1. Owners(d) # {}
        BY DEF RefInv, Headers
      <4>2. image[i].buffer # d
        BY <1>2, MemoryAssumption
      <4>3. Owners(d) \subseteq Owners(d)'
        BY <1>1, <1>3, <1>4, <3>2, <4>2 DEF Owners
      <4> QED
        BY <4>1, <4>3
    <3> QED
      BY <3>1, <3>2
  <2>2. buffer[b].free # None
    BY <1>1 DEF RefInv, Headers
  <2>3. \A j \in Images : image'[j].buffer # None => buffer[image'[j].buffer].free # None
    BY <1>3, <2>2 DEF RefInv, Headers
  <2>4. \A u \in Threads : owned'[u] \subseteq owned[u]
    BY <1>4
  <2> QED
    BY <1>1, <2>1, <2>3, <2>4 DEF RefInv, Headers
<1>11. Explained'
  BY <1>1 DEF RefInv, Explained, Outstanding, Allocating
<1> QED
  BY <1>5, <1>6, <1>7, <1>8, <1>9, <1>10, <1>11 DEF RefInv


-----------------------------------------------------------------------------
(* The reference counts are exact                                          *)

LEMMA RefInit == Init => RefInv
<1> SUFFICES ASSUME Init PROVE RefInv
  OBVIOUS
<1>1. CounterTypes
  BY DEF Init, CounterTypes
<1>2. RoomForRefs
  BY MemoryAssumption DEF Init, RoomForRefs
<1>3. Headers
  BY DEF Init, Headers, NoBuffer, NoImage, Idle
<1>4. ImageStates
  BY DEF Init, ImageStates, NoImage, Idle
<1>5. ThreadStates
  BY DEF Init, ThreadStates, Idle
<1>6. ImagesExact
  <2> SUFFICES ASSUME NEW i \in Images
               PROVE  Users(i) = 0 /\ image[i].ref_count = 0
    BY DEF ImagesExact
  <2>1. Refs(iheld, i) = {}
    BY MemoryAssumption DEF Init, Refs
  <2>2. Slots(i) = {}
    BY MemoryAssumption DEF Init, Slots, NoCapture
  <2>3. Gets(i) = {}
    BY DEF Init, Gets, Idle
  <2>4. Cardinality({}) = 0
    BY FS_EmptySet
  <2> QED
    <3>1. Users(i) = 0
      BY <2>1, <2>2, <2>3, <2>4 DEF Users
    <3>2. image[i].ref_count = 0
      BY DEF Init, NoImage
    <3> QED
      BY <3>1, <3>2
<1>7. CapturesExact
  <2> SUFFICES ASSUME NEW c \in Captures
               PROVE  /\ capture[c].ref_count = 0 /\ Cardinality(Refs(cheld, c)) = 0
                      /\ \A k \in ImageTypes : capture[c].image[k] = None
    BY DEF CapturesExact
  <2>1. Refs(cheld, c) = {}
    BY MemoryAssumption DEF Init, Refs
  <2>2. Cardinality({}) = 0
    BY FS_EmptySet
  <2> QED
    BY <2>1, <2>2 DEF Init, NoCapture
<1>8. Explained
  <2> SUFFICES ASSUME NEW s \in Sources
               PROVE  /\ count[s] = 0 /\ failures[s] = 0
                      /\ Cardinality(Outstanding(s)) = 0 /\ Cardinality(Allocating(s)) = 0
    BY DEF Explained
  <2>1. Outstanding(s) = {}
    BY MemoryAssumption DEF Init, Outstanding, NoBuffer
  <2>2. Allocating(s) = {}
    BY MemoryAssumption DEF Init, Allocating, Idle
  <2>3. Cardinality({}) = 0
    BY FS_EmptySet
  <2> QED
    BY <2>1, <2>2, <2>3 DEF Init
<1> QED
  BY <1>1, <1>2, <1>3, <1>4, <1>5, <1>6, <1>7, <1>8 DEF RefInv

(* The references do not depend on the callbacks and the sessions.         *)
LEMMA GlobalKeeps ==
  ASSUME RefInv, UNCHANGED <<heap, capture, thread, held, failures>>
  PROVE  RefInv'
<1>1. UNCHANGED <<count, buffer, image, capture, thread, owned, iheld, cheld, failures>>
  BY DEF heap, held
<1>2. CounterTypes' /\ RoomForRefs' /\ ImageStates' /\ ThreadStates'
  BY <1>1 DEF RefInv, CounterTypes, RoomForRefs, ImageStates, ThreadStates
<1>3. Headers'
  BY <1>1 DEF RefInv, Headers, Owners
<1>4. ImagesExact' /\ CapturesExact'
  BY <1>1 DEF RefInv, ImagesExact, CapturesExact, Users, Refs, Slots, Gets
<1>5. Explained'
  BY <1>1 DEF RefInv, Explained, Outstanding, Allocating
<1> QED
  BY <1>2, <1>3, <1>4, <1>5 DEF RefInv

LEMMA RefStep ==
  ASSUME ~SharedSetters, MemoryInv, RefInv, [Next]_vars
  PROVE  RefInv'
<1>1. CASE Initialize \/ Deinitialize
  BY <1>1, GlobalKeeps DEF Initialize, Deinitialize
<1>2. CASE \E hook \in Hooks : SetAllocator(hook)
  BY <1>2, GlobalKeeps DEF SetAllocator
<1>3. CASE UNCHANGED vars
  BY <1>3, GlobalKeeps DEF vars
<1>4. ASSUME NEW t \in Threads, AllocSteps(t) PROVE RefInv'
  BY <1>4, AllocBeginsKeeps, AllocCallsKeeps, AllocCallFailsKeeps, BufferAllocatedKeeps,
     ImageCreatedKeeps, ImageLockFailsKeeps, AllocFailedKeeps, FreeBufferKeeps DEF AllocSteps
<1>5. ASSUME NEW t \in Threads, ImageSteps(t) PROVE RefInv'
  <2>1. ASSUME NEW b \in Buffers, ImageFromBufferFails(t, b) PROVE RefInv'
    <3>1. UNCHANGED <<heap, capture, thread, held, failures>>
      BY <2>1 DEF ImageFromBufferFails, KeepBuffer, heap
    <3> QED
      BY <3>1, GlobalKeeps
  <2> QED
    BY <1>5, <2>1, ImageFromBufferKeeps, ImageDecRefKeeps, ImageIncRefKeeps DEF ImageSteps
<1>6. ASSUME NEW t \in Threads, CaptureSteps(t) PROVE RefInv'
  BY <1>6, CaptureCreateKeeps, CaptureIncRefKeeps, CaptureDecRefKeeps, CaptureSetImageKeeps,
     CaptureGetImageKeeps, CaptureGetReturnsKeeps DEF CaptureSteps
<1> QED
  BY <1>1, <1>2, <1>3, <1>4, <1>5, <1>6 DEF Next

(* Both invariants together are inductive.                                 *)
LEMMA RefsInductive ==
  ASSUME ~SharedSetters
  PROVE  Spec => [](MemoryInv /\ RefInv)
<1>1. Init => MemoryInv /\ RefInv
  BY MemoryInit, RefInit
<1>2. MemoryInv /\ RefInv /\ [Next]_vars => (MemoryInv /\ RefInv)'
  BY MemoryStep, RefStep
<1> QED
  BY <1>1, <1>2, PTL DEF Spec

(* image_inc_ref, image_dec_ref, capture_set_..._image, the two halves of  *)
(* capture_get_..._image and the destruction of a capture keep every       *)
(* image's ref_count equal to the references that will still be released,  *)
(* as long as no slot is set while it is being read.                       *)
THEOREM ImageCountsAreExact ==
  ASSUME ~SharedSetters
  PROVE  Spec => []ImageRefsExact
<1>1. RefInv /\ MemoryInv => ImageRefsExact
  <2> SUFFICES ASSUME RefInv, MemoryInv, NEW i \in Images, image[i].ref_count >= 0
               PROVE  image[i].ref_count = Users(i)
    BY DEF ImageRefsExact, Users, Refs, Slots, Gets
  <2>1. image[i].ref_count \in Int
    BY DEF MemoryInv, MemoryTypes, ImageRecord
  <2> QED
    BY <2>1 DEF RefInv, ImagesExact
<1> QED
  BY <1>1, RefsInductive, PTL

(* What a thread has to release and what a slot of a capture names exists, *)
(* with its buffer and the header image_dec_ref and allocator_free read.   *)
THEOREM ReferencesAreAlive ==
  ASSUME ~SharedSetters
  PROVE  Spec => []NothingDangling
<1>1. RefInv /\ MemoryInv => NothingDangling
  <2> SUFFICES ASSUME RefInv, MemoryInv PROVE NothingDangling
    OBVIOUS
  <2>1. ASSUME NEW t \in Threads, NEW i \in Images, iheld[t][i] > 0
        PROVE  image[i].handle /\ image[i].ref_count > 0 /\ buffer[image[i].buffer].free # None
    BY <2>1, UsedIsThere
  <2>2. ASSUME NEW t \in Threads, NEW c \in Captures, cheld[t][c] > 0
        PROVE  capture[c].ref_count > 0
    BY <2>2, RefsSome DEF RefInv, CapturesExact, CounterTypes
  <2>3. ASSUME NEW t \in Threads, NEW b \in owned[t]
        PROVE  buffer[b].free # None
    BY DEF RefInv, Headers
  <2>4. ASSUME NEW c \in Captures, NEW k \in ImageTypes, capture[c].image[k] # None
        PROVE  LET i == capture[c].image[k]
               IN  image[i].handle /\ image[i].ref_count > 0 /\ buffer[image[i].buffer].free # None
    <3>1. PICK i \in Images : i = capture[c].image[k]
      BY <2>4 DEF MemoryInv, MemoryTypes, CaptureRecord
    <3>2. image[i].handle /\ image[i].ref_count > 0 /\ buffer[image[i].buffer].free # None
      BY <3>1, UsedIsThere
    <3> QED
      BY <3>1, <3>2
  <2> QED
    BY <2>1, <2>2, <2>3, <2>4 DEF NothingDangling
<1> QED
  BY <1>1, RefsInductive, PTL

(* Every buffer allocator_alloc gave has exactly one owner, who will pass  *)
(* it to allocator_free, and the leak counters are what is outstanding,    *)
(* under way or failed: allocator_test_for_leaks reports no buffer twice   *)
(* and misses none.                                                        *)
THEOREM BuffersAreAccounted ==
  ASSUME ~SharedSetters
  PROVE  Spec => []BuffersAccounted
<1>1. RefInv /\ MemoryInv => BuffersAccounted
  <2> SUFFICES ASSUME RefInv, MemoryInv PROVE BuffersAccounted
    OBVIOUS
  <2>1. ASSUME NEW b \in Buffers
        PROVE  Cardinality(Owners(b)) = IF buffer[b].by = None THEN 0 ELSE 1
    <3>0. b # None
      BY MemoryAssumption
    <3>1. CASE buffer[b].by = None
      <4>1. Owners(b) = {}
        BY <3>0, <3>1, MemoryAssumption
           DEF Owners, MemoryInv, MemoryTypes, OwnedIsAllocated, HeaderPending
      <4> QED
        BY <3>1, <4>1, FS_EmptySet
    <3>2. CASE buffer[b].by # None
      <4>1. PICK o : o \in Owners(b)
        BY <3>2 DEF RefInv, Headers
      <4>2. \A p \in Owners(b) : p = o
        BY <3>0, <4>1 DEF Owners, MemoryInv, OneOwner
      <4>3. Owners(b) = {o}
        BY <4>1, <4>2
      <4> QED
        BY <3>2, <4>3, FS_Singleton
    <3> QED
      BY <3>1, <3>2
  <2>2. CountExplained
    BY DEF CountExplained, RefInv, Explained, TestForLeaks
  <2> QED
    BY <2>1, <2>2 DEF BuffersAccounted, BuffersOwnedOnce
<1> QED
  BY <1>1, RefsInductive, PTL


=============================================================================
