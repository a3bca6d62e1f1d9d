------------------------- MODULE CaptureQueueProofs -------------------------
(***************************************************************************)
(* Theorems about the capture queue, for any number of threads, captures   *)
(* and slots.                                                              *)
(***************************************************************************)
EXTENDS CaptureQueue, FiniteSetTheorems, SequenceTheorems, TLAPS

(* The successor of a location in the ring, without the remainder. *)
LEMMA IncLocation ==
  ASSUME NEW l \in 0 .. depth - 1
  PROVE  /\ inc_read_write_location(l) = IF l = depth - 1 THEN 0 ELSE l + 1
         /\ inc_read_write_location(l) \in 0 .. depth - 1
<1>1. depth \in Nat \ {0} /\ l \in Nat
  BY QueueAssumption DEF depth
<1>2. l + 1 < depth => (l + 1) % depth = l + 1
  BY <1>1
<1>3. depth % depth = 0
  BY <1>1
<1> QED
  BY <1>1, <1>2, <1>3 DEF inc_read_write_location

(* What the statements of queue.c that several actions share do to types. *)
LEMMA PostType ==
  TypeOK /\ Condition_Post =>
    popper' \in [Poppers -> {"idle", "wait", "timed_wait", "woken", "timedout"}]
BY DEF TypeOK, Condition_Post, Waiting

LEMMA OldestType == TypeOK => Oldest \in Captures \cup {Nil}
BY DEF TypeOK, Oldest

LEMMA AdvanceType == TypeOK /\ AdvanceRead => read_location' \in 0 .. depth - 1
BY IncLocation DEF TypeOK, AdvanceRead

LEMMA PopReturnsType ==
  ASSUME TypeOK, NEW s \in {"SUCCEEDED", "TIMEOUT", "FAILED"},
         NEW c \in Captures \cup {Nil}, PopReturns(s, c)
  PROVE  /\ refs' \in [Captures -> Int]
         /\ held' \in [Captures -> Nat]
         /\ out' \in [status : {"SUCCEEDED", "TIMEOUT", "FAILED"},
                      capture : Captures \cup {Nil}]
BY DEF TypeOK, PopReturns, Result

LEMMA InUseType == TypeOK => InUse \subseteq 0 .. depth - 1
BY QueueAssumption DEF TypeOK, InUse, depth

LEMMA OccurrencesType ==
  ASSUME TypeOK, NEW c
  PROVE  Occurrences(c) \in Nat
<1>1. IsFiniteSet(0 .. depth - 1)
  BY FS_Interval, QueueAssumption DEF depth
<1>2. {l \in InUse : queue[l] = c} \subseteq 0 .. depth - 1
  BY InUseType
<1>3. IsFiniteSet({l \in InUse : queue[l] = c})
  BY <1>1, <1>2, FS_Subset
<1> QED
  BY <1>3, FS_CardinalityType DEF Occurrences

-----------------------------------------------------------------------------
(* Type correctness.                                                       *)

LEMMA DisablePassType ==
  ASSUME TypeOK, NEW d \in Controllers, NEW loop \in {"disabling", "destroying"},
         DisablePass(d, loop)
  PROVE  /\ popper' \in [Poppers -> {"idle", "wait", "timed_wait", "woken", "timedout"}]
         /\ controller' \in [Controllers -> {"idle", "stopping", "disabling", "destroying"}]
         /\ refs' \in [Captures -> Int]
         /\ read_location' \in 0 .. depth - 1
         /\ alive' \in BOOLEAN
<1>1. CASE queue_pop_blocked # 0
  BY <1>1, PostType DEF TypeOK, DisablePass
<1>2. CASE queue_pop_blocked = 0
  <2>1. \A c \in Captures : refs[c] - Occurrences(c) \in Int
    BY OccurrencesType DEF TypeOK
  <2>2. Drain(d, loop)
    BY <1>2 DEF DisablePass
  <2>3. refs' \in [Captures -> Int]
    BY <2>1, <2>2 DEF Drain
  <2>4. alive' \in BOOLEAN
    BY <2>2, Zenon DEF Drain, TypeOK
  <2> QED
    BY <2>2, <2>3, <2>4 DEF TypeOK, Drain
<1> QED
  BY <1>1, <1>2

LEMMA TypeStep == TypeOK /\ [Next]_vars => TypeOK'
<1> SUFFICES ASSUME TypeOK, [Next]_vars PROVE TypeOK'
  OBVIOUS
<1>1. ASSUME NEW c \in Captures, Client(c) PROVE TypeOK'
  BY <1>1 DEF Client, CreateCapture, ReleaseCapture, TypeOK, context
<1>2. ASSUME NEW c \in Captures, NEW to_caller \in BOOLEAN, QueuePush(c, to_caller)
      PROVE  TypeOK'
  <2>1. read_location' \in 0 .. depth - 1
    BY <1>2, AdvanceType DEF QueuePush, TypeOK
  <2>2. refs' \in [Captures -> Int] /\ held' \in [Captures -> Nat]
    <3>1. CASE is_queue_full
      <4>1. Drop(Oldest, c, to_caller)
        BY <1>2, <3>1 DEF QueuePush
      <4>2. refs' \in [Captures -> Int]
        BY <4>1 DEF Drop, TypeOK
      <4>3. held' \in [Captures -> Nat]
        BY <4>1, SMTT(30) DEF Drop, TypeOK
      <4> QED
        BY <4>2, <4>3
    <3>2. CASE ~is_queue_full
      BY <1>2, <3>2 DEF QueuePush, TypeOK
    <3> QED
      BY <3>1, <3>2
  <2>3. popper' \in [Poppers -> {"idle", "wait", "timed_wait", "woken", "timedout"}]
    BY <1>2, PostType DEF QueuePush, PostPushed
  <2>4. write_location' \in 0 .. depth - 1
    BY <1>2, IncLocation DEF QueuePush, TypeOK
  <2> QED
    BY <1>2, <2>1, <2>2, <2>3, <2>4 DEF QueuePush, TypeOK
<1>3. ASSUME NEW t \in Poppers, PopStarts(t) PROVE TypeOK'
  <2>1. CASE QueuePopDisabled(t)
    BY <2>1 DEF QueuePopDisabled, TypeOK, context, Result
  <2>2. CASE QueuePopReady(t)
    BY <2>2, AdvanceType, OldestType, PopReturnsType DEF QueuePopReady, TypeOK
  <2>3. CASE QueuePopNothing(t)
    BY <2>3, PopReturnsType DEF QueuePopNothing, TypeOK, context
  <2>4. ASSUME NEW how \in {"wait", "timed_wait"}, QueuePopWaits(t, how) PROVE TypeOK'
    BY <2>4 DEF QueuePopWaits, TypeOK
  <2> QED
    BY <1>3, <2>1, <2>2, <2>3, <2>4 DEF PopStarts
<1>4. ASSUME NEW t \in Poppers, WaitTimesOut(t) \/ SpuriousWakeup(t) PROVE TypeOK'
  BY <1>4 DEF WaitTimesOut, SpuriousWakeup, TypeOK, context
<1>5. ASSUME NEW t \in Poppers, PopResumes(t) PROVE TypeOK'
  <2>1. CASE QueuePopWoken(t)
    BY <2>1, AdvanceType, OldestType, PopReturnsType DEF QueuePopWoken, TypeOK
  <2>2. CASE QueuePopTimedOut(t)
    BY <2>2, PopReturnsType DEF QueuePopTimedOut, TypeOK
  <2> QED
    BY <1>5, <2>1, <2>2 DEF PopResumes
<1>6. ASSUME NEW d \in Controllers, Controls(d) PROVE TypeOK'
  <2>1. CASE QueueEnable(d)
    BY <2>1 DEF QueueEnable, TypeOK
  <2>2. CASE QueueDisable(d)
    BY <2>2, DisablePassType DEF QueueDisable, TypeOK
  <2>3. CASE QueueStop(d)
    BY <2>3 DEF QueueStop, TypeOK
  <2>4. CASE QueueDestroy(d)
    BY <2>4, DisablePassType DEF QueueDestroy, TypeOK
  <2>5. CASE DisableContinues(d)
    BY <2>5, DisablePassType DEF DisableContinues, TypeOK
  <2> QED
    BY <1>6, <2>1, <2>2, <2>3, <2>4, <2>5 DEF Controls
<1>7. CASE UNCHANGED vars
  BY <1>7 DEF vars, context, TypeOK
<1> QED
  BY <1>1, <1>2, <1>3, <1>4, <1>5, <1>6, <1>7 DEF Next

(* The fields of queue_context_t, the thread states and the counts keep    *)
(* their types; read_location and write_location stay inside the array.    *)
THEOREM TypeCorrect == Spec => []TypeOK
<1>1. Init => TypeOK
  <2>1. Init => 0 \in 0 .. depth - 1
    BY QueueAssumption DEF depth
  <2> QED
    <3> SUFFICES ASSUME Init PROVE TypeOK
      OBVIOUS
    <3>1. queue \in [0 .. depth - 1 -> Captures \cup {Nil}]
      BY DEF Init
    <3>2. out \in [status : {"SUCCEEDED", "TIMEOUT", "FAILED"},
                   capture : Captures \cup {Nil}]
      BY DEF Init, Result
    <3>3. enabled \in BOOLEAN /\ stopped \in BOOLEAN /\ alive \in BOOLEAN
      BY DEF Init
    <3> QED
      BY <2>1, <3>1, <3>2, <3>3 DEF Init, TypeOK
<1> QED
  BY <1>1, TypeStep, PTL DEF Spec

-----------------------------------------------------------------------------
(* The threads inside Condition_Wait.                                      *)

LEMMA ThreadSetsFinite ==
  /\ IsFiniteSet(Waiting) /\ IsFiniteSet(Woken) /\ IsFiniteSet(Inside)
  /\ Cardinality(Woken) \in Nat /\ Cardinality(Inside) \in Nat
<1>1. Waiting \subseteq Poppers /\ Woken \subseteq Poppers /\ Inside \subseteq Poppers
  BY DEF Waiting, Woken, Inside
<1>2. IsFiniteSet(Waiting) /\ IsFiniteSet(Woken) /\ IsFiniteSet(Inside)
  BY <1>1, FS_Subset, QueueAssumption
<1> QED
  BY <1>2, FS_CardinalityType

(* A post moves at most one waiter, which stays inside queue_pop. *)
LEMMA PostEffect ==
  ASSUME TypeOK, Condition_Post
  PROVE  /\ Inside' = Inside
         /\ Waiting # {} => Cardinality(Woken') = Cardinality(Woken) + 1
         /\ Waiting = {} => Waiting' = {} /\ Woken' = Woken
<1>1. CASE Waiting = {}
  BY <1>1 DEF Condition_Post, Inside, Waiting, Woken
<1>2. CASE Waiting # {}
  <2>1. PICK t \in Waiting : popper' = [popper EXCEPT ![t] = "woken"]
    BY <1>2 DEF Condition_Post
  <2>2. t \in Poppers /\ t \notin Woken /\ popper[t] # "idle"
    BY DEF Waiting, Woken
  <2>3. Woken' = Woken \cup {t}
    BY <2>1, <2>2 DEF Woken, TypeOK
  <2>4. Inside' = Inside
    BY <2>1, <2>2 DEF Inside, TypeOK
  <2>5. Cardinality(Woken') = Cardinality(Woken) + 1
    BY <2>2, <2>3, FS_AddElement, ThreadSetsFinite
  <2> QED
    BY <1>2, <2>4, <2>5
<1> QED
  BY <1>1, <1>2

(* A thread that leaves queue_pop is counted out of Inside. *)
LEMMA LeaveEffect ==
  ASSUME TypeOK, NEW t \in Poppers, popper[t] # "idle",
         popper' = [popper EXCEPT ![t] = "idle"]
  PROVE  /\ Cardinality(Inside') = Cardinality(Inside) - 1
         /\ Inside' \subseteq Inside
         /\ Waiting' \subseteq Waiting
         /\ popper[t] = "woken" => Cardinality(Woken') = Cardinality(Woken) - 1
         /\ popper[t] # "woken" => Woken' = Woken
<1>1. Inside' = Inside \ {t} /\ t \in Inside
  BY DEF Inside, TypeOK
<1>2. Cardinality(Inside') = Cardinality(Inside) - 1
  BY <1>1, FS_RemoveElement, ThreadSetsFinite
<1>3. Waiting' \subseteq Waiting
  BY DEF Waiting, TypeOK
<1>4. popper[t] = "woken" => Cardinality(Woken') = Cardinality(Woken) - 1
  <2>1. SUFFICES ASSUME popper[t] = "woken"
                 PROVE  Cardinality(Woken') = Cardinality(Woken) - 1
    OBVIOUS
  <2>2. Woken' = Woken \ {t} /\ t \in Woken
    BY <2>1 DEF Woken, TypeOK
  <2> QED
    BY <2>2, FS_RemoveElement, ThreadSetsFinite
<1>5. popper[t] # "woken" => Woken' = Woken
  BY DEF Woken, TypeOK
<1> QED
  BY <1>1, <1>2, <1>3, <1>4, <1>5

(* How a pass of queue_disable moves the threads. *)
LEMMA DisablePassEffect ==
  ASSUME TypeOK, NEW d \in Controllers, NEW loop \in {"disabling", "destroying"},
         DisablePass(d, loop)
  PROVE  Inside' = Inside
<1>1. CASE queue_pop_blocked # 0
  BY <1>1, PostEffect DEF DisablePass
<1>2. CASE queue_pop_blocked = 0
  BY <1>2 DEF DisablePass, Drain, Inside
<1> QED
  BY <1>1, <1>2

LEMMA BlockedStep == TypeOK /\ BlockedCountExact /\ [Next]_vars => BlockedCountExact'
<1> SUFFICES ASSUME TypeOK, BlockedCountExact, [Next]_vars PROVE BlockedCountExact'
  OBVIOUS
<1> USE DEF BlockedCountExact
<1>1. ASSUME NEW c \in Captures, Client(c) PROVE BlockedCountExact'
  BY <1>1 DEF Client, CreateCapture, ReleaseCapture, context, Inside
<1>2. ASSUME NEW c \in Captures, NEW to_caller \in BOOLEAN, QueuePush(c, to_caller)
      PROVE  BlockedCountExact'
  BY <1>2, PostEffect DEF QueuePush, PostPushed
<1>3. ASSUME NEW t \in Poppers, PopStarts(t) PROVE BlockedCountExact'
  <2>1. CASE QueuePopDisabled(t) \/ QueuePopReady(t) \/ QueuePopNothing(t)
    BY <2>1 DEF QueuePopDisabled, QueuePopReady, QueuePopNothing, context, Inside
  <2>2. ASSUME NEW how \in {"wait", "timed_wait"}, QueuePopWaits(t, how)
        PROVE  BlockedCountExact'
    <3>1. Inside' = Inside \cup {t} /\ t \notin Inside
      BY <2>2 DEF QueuePopWaits, Inside, TypeOK
    <3>2. Cardinality(Inside') = Cardinality(Inside) + 1
      BY <3>1, FS_AddElement, ThreadSetsFinite
    <3> QED
      BY <2>2, <3>2 DEF QueuePopWaits
  <2> QED
    BY <1>3, <2>1, <2>2 DEF PopStarts
<1>4. ASSUME NEW t \in Poppers, WaitTimesOut(t) \/ SpuriousWakeup(t)
      PROVE  BlockedCountExact'
  <2>1. Inside' = Inside
    BY <1>4 DEF WaitTimesOut, SpuriousWakeup, Inside, Waiting, TypeOK
  <2> QED
    BY <1>4, <2>1 DEF WaitTimesOut, SpuriousWakeup, context
<1>5. ASSUME NEW t \in Poppers, PopResumes(t) PROVE BlockedCountExact'
  BY <1>5, LeaveEffect DEF PopResumes, QueuePopWoken, QueuePopTimedOut
<1>6. ASSUME NEW d \in Controllers, Controls(d) PROVE BlockedCountExact'
  <2>1. CASE QueueEnable(d) \/ QueueStop(d)
    BY <2>1 DEF QueueEnable, QueueStop, Inside
  <2>2. CASE QueueDisable(d) \/ QueueDestroy(d) \/ DisableContinues(d)
    BY <2>2, DisablePassEffect DEF QueueDisable, QueueDestroy, DisableContinues
  <2> QED
    BY <1>6, <2>1, <2>2 DEF Controls
<1>7. CASE UNCHANGED vars
  BY <1>7 DEF vars, context, Inside
<1> QED
  BY <1>1, <1>2, <1>3, <1>4, <1>5, <1>6, <1>7 DEF Next

LEMMA BlockedInit == Init => BlockedCountExact
<1>1. Init => Inside = {}
  BY DEF Init, Inside
<1> QED
  BY <1>1, FS_EmptySet DEF Init, BlockedCountExact

(* queue_pop_blocked, on which queue_disable decides whether it may drain  *)
(* the ring and whether queue_destroy may free the lock, counts exactly    *)
(* the threads inside Condition_Wait or coming out of it.                  *)
THEOREM BlockedExact == Spec => []BlockedCountExact
BY BlockedInit, BlockedStep, TypeCorrect, PTL DEF Spec

-----------------------------------------------------------------------------
(* No lost wakeup.                                                         *)

LEMMA CountType ==
  ASSUME TypeOK
  PROVE  Count \in 0 .. QueueDepth /\ (is_queue_empty <=> Count = 0)
BY QueueAssumption DEF TypeOK, Count, depth, is_queue_empty

LEMMA AdvanceEffect ==
  ASSUME TypeOK, AdvanceRead, write_location' = write_location
  PROVE  Count' = IF Count = 0 THEN 0 ELSE Count - 1
<1>1. is_queue_empty => Count' = 0
  BY DEF AdvanceRead, Count, is_queue_empty, TypeOK
<1>2. ASSUME ~is_queue_empty PROVE Count' = Count - 1
  <2>1. read_location' = IF read_location = depth - 1 THEN 0 ELSE read_location + 1
    BY <1>2, IncLocation DEF AdvanceRead, TypeOK
  <2> QED
    BY <1>2, <2>1, QueueAssumption DEF Count, TypeOK, is_queue_empty, depth
<1> QED
  BY <1>1, <1>2, CountType

(* A push into a ring that is not full adds one capture; into a full ring, *)
(* the oldest goes and the number stays.                                   *)
LEMMA PushEffect ==
  ASSUME TypeOK, NEW c \in Captures, NEW to_caller \in BOOLEAN, QueuePush(c, to_caller)
  PROVE  Count' = IF is_queue_full THEN Count ELSE Count + 1
<1>1. write_location' = IF write_location = depth - 1 THEN 0 ELSE write_location + 1
  BY IncLocation DEF QueuePush, TypeOK
<1>2. is_queue_full <=>
        (IF write_location = depth - 1 THEN 0 ELSE write_location + 1) = read_location
  BY IncLocation DEF is_queue_full, TypeOK
<1>3. CASE is_queue_full
  <2>1. ~is_queue_empty
    BY <1>2, <1>3, QueueAssumption DEF is_queue_empty, TypeOK, depth
  <2>2. read_location' = IF read_location = depth - 1 THEN 0 ELSE read_location + 1
    BY <1>3, <2>1, IncLocation DEF QueuePush, AdvanceRead, TypeOK
  <2> QED
    <3> DEFINE r == read_location
               w == write_location
    <3>1. r \in Int /\ w \in Int /\ r' \in Int /\ w' \in Int
      BY <1>1, <2>2, QueueAssumption DEF TypeOK, depth
    <3>2. CASE w = depth - 1
      BY <1>1, <1>2, <1>3, <2>2, <3>1, <3>2, QueueAssumption DEF Count, TypeOK, depth
    <3>3. CASE w # depth - 1
      BY <1>1, <1>2, <1>3, <2>2, <3>1, <3>3, QueueAssumption DEF Count, TypeOK, depth
    <3> QED
      BY <3>2, <3>3
<1>4. CASE ~is_queue_full
  <2>1. read_location' = read_location
    BY <1>4 DEF QueuePush
  <2> QED
    BY <1>1, <1>2, <1>4, <2>1, QueueAssumption DEF Count, TypeOK, depth
<1> QED
  BY <1>3, <1>4

LEMMA WakeupStep == TypeOK /\ NoLostWakeup /\ [Next]_vars => NoLostWakeup'
<1> SUFFICES ASSUME TypeOK, NoLostWakeup, [Next]_vars PROVE NoLostWakeup'
  OBVIOUS
<1> USE DEF NoLostWakeup
<1>0. TypeOK' /\ Count \in Nat /\ Cardinality(Woken) \in Nat
  BY TypeStep, CountType, ThreadSetsFinite
<1>1. ASSUME NEW c \in Captures, Client(c) PROVE NoLostWakeup'
  BY <1>1 DEF Client, CreateCapture, ReleaseCapture, context, Waiting, Woken, Count
<1>2. ASSUME NEW c \in Captures, NEW to_caller \in BOOLEAN, QueuePush(c, to_caller)
      PROVE  NoLostWakeup'
  <2>1. Count' \in Nat /\ Count' <= Count + 1
    BY <1>0, <1>2, PushEffect
  <2>2. Condition_Post
    BY <1>2 DEF QueuePush, PostPushed
  <2>3. CASE Waiting = {}
    BY <2>2, <2>3, PostEffect
  <2>4. CASE Waiting # {}
    BY <1>0, <2>1, <2>2, <2>4, PostEffect
  <2> QED
    BY <2>3, <2>4
<1>3. ASSUME NEW t \in Poppers, PopStarts(t) PROVE NoLostWakeup'
  <2>1. CASE QueuePopDisabled(t) \/ QueuePopNothing(t)
    BY <2>1 DEF QueuePopDisabled, QueuePopNothing, context, Waiting, Woken, Count
  <2>2. CASE QueuePopReady(t)
    <3>1. Waiting' = Waiting /\ Woken' = Woken
      BY <2>2 DEF QueuePopReady, Waiting, Woken
    <3> QED
      BY <1>0, <2>2, <3>1, AdvanceEffect DEF QueuePopReady
  <2>3. ASSUME NEW how \in {"wait", "timed_wait"}, QueuePopWaits(t, how)
        PROVE  NoLostWakeup'
    <3>1. Woken' = Woken
      BY <2>3 DEF QueuePopWaits, Woken, TypeOK
    <3>2. Count' = 0
      BY <2>3 DEF QueuePopWaits, Count, is_queue_empty, TypeOK
    <3> QED
      BY <1>0, <3>1, <3>2
  <2> QED
    BY <1>3, <2>1, <2>2, <2>3 DEF PopStarts
<1>4. ASSUME NEW t \in Poppers, WaitTimesOut(t) PROVE NoLostWakeup'
  <2>1. Waiting' \subseteq Waiting /\ Woken' = Woken
    BY <1>4 DEF WaitTimesOut, Waiting, Woken, TypeOK
  <2> QED
    BY <1>4, <2>1 DEF WaitTimesOut, context, Count
<1>5. ASSUME NEW t \in Poppers, SpuriousWakeup(t) PROVE NoLostWakeup'
  <2>1. Woken' = Woken \cup {t} /\ t \notin Woken /\ Waiting # {}
    BY <1>5 DEF SpuriousWakeup, Waiting, Woken, TypeOK
  <2>2. Cardinality(Woken') = Cardinality(Woken) + 1
    BY <2>1, FS_AddElement, ThreadSetsFinite
  <2>3. Count' = Count
    BY <1>5 DEF SpuriousWakeup, context, Count
  <2> QED
    BY <1>0, <2>1, <2>2, <2>3
<1>6. ASSUME NEW t \in Poppers, QueuePopWoken(t) PROVE NoLostWakeup'
  <2>1. Waiting' \subseteq Waiting /\ Cardinality(Woken') = Cardinality(Woken) - 1
    BY <1>6, LeaveEffect DEF QueuePopWoken
  <2>2. Count' = IF Count = 0 THEN 0 ELSE Count - 1
    BY <1>6, AdvanceEffect DEF QueuePopWoken
  <2>3. Cardinality(Woken) # 0
    <3>1. Woken # {}
      BY <1>6 DEF QueuePopWoken, Woken
    <3> QED
      BY <3>1, FS_EmptySet, ThreadSetsFinite
  <2> QED
    BY <1>0, <2>1, <2>2, <2>3
<1>7. ASSUME NEW t \in Poppers, QueuePopTimedOut(t) PROVE NoLostWakeup'
  <2>1. Count' = Count
    BY <1>7 DEF QueuePopTimedOut, Count
  <2> QED
    BY <1>7, <2>1, LeaveEffect DEF QueuePopTimedOut
<1>8. ASSUME NEW d \in Controllers, Controls(d) PROVE NoLostWakeup'
  <2>1. CASE QueueEnable(d) \/ QueueStop(d)
    BY <2>1 DEF QueueEnable, QueueStop, Waiting, Woken, Count
  <2>2. ASSUME NEW loop \in {"disabling", "destroying"}, DisablePass(d, loop),
               write_location' = write_location
        PROVE  NoLostWakeup'
    <3>1. CASE queue_pop_blocked # 0
      <4>1. Count' = Count
        BY <2>2, <3>1 DEF DisablePass, Count
      <4> QED
        BY <1>0, <2>2, <3>1, <4>1, PostEffect DEF DisablePass
    <3>2. CASE queue_pop_blocked = 0
      <4>1. Woken' = Woken
        BY <2>2, <3>2 DEF DisablePass, Drain, Woken
      <4>2. Count' = 0
        BY <2>2, <3>2 DEF DisablePass, Drain, Count, TypeOK
      <4> QED
        BY <1>0, <4>1, <4>2
    <3> QED
      BY <3>1, <3>2
  <2>3. CASE QueueDisable(d) \/ QueueDestroy(d) \/ DisableContinues(d)
    BY <2>2, <2>3 DEF QueueDisable, QueueDestroy, DisableContinues
  <2> QED
    BY <1>8, <2>1, <2>3 DEF Controls
<1>9. CASE UNCHANGED vars
  BY <1>9 DEF vars, context, Waiting, Woken, Count
<1> QED
  BY <1>1, <1>2, <1>3, <1>4, <1>5, <1>6, <1>7, <1>8, <1>9 DEF Next, PopResumes

(* One Condition_Post per pushed capture is enough, whatever the number of *)
(* waiting threads, polls, timeouts, spurious wakeups and disables: no     *)
(* thread sleeps in queue_pop on a capture nobody is coming to take.       *)
THEOREM NoWakeupIsLost == Spec => []NoLostWakeup
<1>1. Init => NoLostWakeup
  BY DEF Init, NoLostWakeup, Waiting
<1> QED
  BY <1>1, WakeupStep, TypeCorrect, PTL DEF Spec

-----------------------------------------------------------------------------
(* Disabling and destroying the queue under blocked threads.               *)

(* queue_disable leaves its loop only when no thread is inside queue_pop.  *)
LEMMA LoopOrQuiescent ==
  ASSUME TypeOK, BlockedCountExact, NEW d \in Controllers,
         NEW loop \in {"disabling", "destroying"}, DisablePass(d, loop)
  PROVE  \/ controller' = [controller EXCEPT ![d] = loop] /\ UNCHANGED alive
         \/ /\ Inside = {} /\ Inside' = {}
            /\ controller' = [controller EXCEPT ![d] = "idle"]
            /\ read_location' = write_location
            /\ alive' => loop = "disabling" /\ alive
            /\ alive /\ loop = "disabling" => alive'
<1>1. CASE queue_pop_blocked # 0
  BY <1>1 DEF DisablePass
<1>2. CASE queue_pop_blocked = 0
  <2>1. Inside = {}
    BY <1>2, FS_EmptySet, ThreadSetsFinite DEF BlockedCountExact
  <2>2. Drain(d, loop) /\ Inside' = {}
    BY <1>2, <2>1, DisablePassEffect DEF DisablePass
  <2> QED
    BY <2>1, <2>2 DEF Drain
<1> QED
  BY <1>1, <1>2

LEMMA AttendedStep ==
  TypeOK /\ BlockedCountExact /\ DisabledPopAttended /\ [Next]_vars => DisabledPopAttended'
<1> SUFFICES ASSUME TypeOK, BlockedCountExact, DisabledPopAttended, [Next]_vars
             PROVE  DisabledPopAttended'
  OBVIOUS
<1> USE DEF DisabledPopAttended
<1>1. ASSUME NEW c \in Captures, Client(c) PROVE DisabledPopAttended'
  BY <1>1 DEF Client, CreateCapture, ReleaseCapture, context, Inside
<1>2. ASSUME NEW c \in Captures, NEW to_caller \in BOOLEAN, QueuePush(c, to_caller)
      PROVE  DisabledPopAttended'
  BY <1>2 DEF QueuePush
<1>3. ASSUME NEW t \in Poppers, PopStarts(t) PROVE DisabledPopAttended'
  BY <1>3 DEF PopStarts, QueuePopDisabled, QueuePopReady, QueuePopNothing,
              QueuePopWaits, context, Inside
<1>4. ASSUME NEW t \in Poppers, WaitTimesOut(t) \/ SpuriousWakeup(t)
      PROVE  DisabledPopAttended'
  <2>1. Inside' = Inside
    BY <1>4 DEF WaitTimesOut, SpuriousWakeup, Inside, Waiting, TypeOK
  <2> QED
    BY <1>4, <2>1 DEF WaitTimesOut, SpuriousWakeup, context
<1>5. ASSUME NEW t \in Poppers, PopResumes(t) PROVE DisabledPopAttended'
  <2>1. Inside' \subseteq Inside
    BY <1>5, LeaveEffect DEF PopResumes, QueuePopWoken, QueuePopTimedOut
  <2> QED
    BY <1>5, <2>1 DEF PopResumes, QueuePopWoken, QueuePopTimedOut
<1>6. ASSUME NEW d \in Controllers, Controls(d) PROVE DisabledPopAttended'
  <2>1. CASE QueueEnable(d)
    BY <2>1 DEF QueueEnable
  <2>2. CASE QueueStop(d)
    BY <2>2 DEF QueueStop, Inside, TypeOK
  <2>3. ASSUME NEW loop \in {"disabling", "destroying"}, DisablePass(d, loop)
        PROVE  DisabledPopAttended'
    BY <2>3, LoopOrQuiescent DEF TypeOK
  <2>4. CASE QueueDisable(d) \/ QueueDestroy(d) \/ DisableContinues(d)
    BY <2>3, <2>4 DEF QueueDisable, QueueDestroy, DisableContinues
  <2> QED
    BY <1>6, <2>1, <2>2, <2>4 DEF Controls
<1>7. CASE UNCHANGED vars
  BY <1>7 DEF vars, context, Inside
<1> QED
  BY <1>1, <1>2, <1>3, <1>4, <1>5, <1>6, <1>7 DEF Next

(* A thread blocked in queue_pop of a disabled queue always has a thread   *)
(* in queue_disable's loop that posts to it: nothing else would wake it.   *)
THEOREM BlockedPopIsAttended == Spec => []DisabledPopAttended
<1>1. Init => DisabledPopAttended
  BY DEF Init, DisabledPopAttended, Inside
<1> QED
  BY <1>1, AttendedStep, TypeCorrect, BlockedExact, PTL DEF Spec

LEMMA QuiescentStep ==
  /\ TypeOK /\ BlockedCountExact /\ DestroyedQuiescent /\ DestroyerAlone
  /\ [Next]_vars
  => DestroyedQuiescent' /\ DestroyerAlone'
<1> SUFFICES ASSUME TypeOK, BlockedCountExact, DestroyedQuiescent, DestroyerAlone,
                    [Next]_vars
             PROVE  DestroyedQuiescent' /\ DestroyerAlone'
  OBVIOUS
<1> USE DEF DestroyedQuiescent, DestroyerAlone
<1>1. ASSUME NEW c \in Captures, Client(c) PROVE DestroyedQuiescent' /\ DestroyerAlone'
  BY <1>1 DEF Client, CreateCapture, ReleaseCapture, context, Inside, is_queue_empty
<1>2. ASSUME NEW c \in Captures, NEW to_caller \in BOOLEAN, QueuePush(c, to_caller)
      PROVE  DestroyedQuiescent' /\ DestroyerAlone'
  BY <1>2 DEF QueuePush, Callable
<1>3. ASSUME NEW t \in Poppers, PopStarts(t) PROVE DestroyedQuiescent' /\ DestroyerAlone'
  BY <1>3 DEF PopStarts, QueuePopDisabled, QueuePopReady, QueuePopNothing,
              QueuePopWaits, context, Callable
<1>4. ASSUME NEW t \in Poppers, WaitTimesOut(t) \/ SpuriousWakeup(t) \/ PopResumes(t)
      PROVE  DestroyedQuiescent' /\ DestroyerAlone'
  <2>1. t \in Inside
    BY <1>4 DEF WaitTimesOut, SpuriousWakeup, PopResumes, QueuePopWoken,
                QueuePopTimedOut, Inside, Waiting
  <2>2. alive /\ alive' /\ UNCHANGED controller
    BY <1>4, <2>1 DEF WaitTimesOut, SpuriousWakeup, PopResumes, QueuePopWoken,
                      QueuePopTimedOut, context
  <2> QED
    BY <2>2
<1>5. ASSUME NEW d \in Controllers, Controls(d)
      PROVE  DestroyedQuiescent' /\ DestroyerAlone'
  <2>1. CASE QueueEnable(d) \/ QueueStop(d)
    BY <2>1 DEF QueueEnable, QueueStop, Callable, TypeOK
  <2>2. CASE QueueDisable(d)
    BY <2>2, LoopOrQuiescent, ZenonT(40) DEF QueueDisable, Callable, TypeOK
  <2>3. CASE QueueDestroy(d)
    BY <2>3, LoopOrQuiescent, ZenonT(40) DEF QueueDestroy, Callable, TypeOK, is_queue_empty
  <2>4. CASE DisableContinues(d)
    BY <2>4, LoopOrQuiescent, SMTT(30) DEF DisableContinues, TypeOK, is_queue_empty
  <2> QED
    BY <1>5, <2>1, <2>2, <2>3, <2>4 DEF Controls
<1>6. CASE UNCHANGED vars
  BY <1>6 DEF vars, context, Inside, is_queue_empty
<1> QED
  BY <1>1, <1>2, <1>3, <1>4, <1>5, <1>6 DEF Next

(* queue_destroy frees the lock, the condition and the ring only when no   *)
(* thread is inside queue_pop and the ring holds no capture.               *)
THEOREM DestroyIsQuiescent == Spec => []DestroyedQuiescent
<1>1. Init => DestroyedQuiescent /\ DestroyerAlone
  BY DEF Init, DestroyedQuiescent, DestroyerAlone
<1> QED
  BY <1>1, QuiescentStep, TypeCorrect, BlockedExact, PTL DEF Spec

-----------------------------------------------------------------------------
(* Conservation of references.                                             *)

One(b) == IF b THEN 1 ELSE 0

LEMMA InUseFinite ==
  ASSUME TypeOK, NEW c
  PROVE  IsFiniteSet({l \in InUse : queue[l] = c})
<1>1. IsFiniteSet(0 .. depth - 1)
  BY FS_Interval, QueueAssumption DEF depth
<1> QED
  BY <1>1, InUseType, FS_Subset

(* Popping frees the slot at read_location, and no other. *)
LEMMA InUseAdvance ==
  ASSUME TypeOK, AdvanceRead, ~is_queue_empty, write_location' = write_location
  PROVE  InUse' = InUse \ {read_location} /\ read_location \in InUse
<1>1. read_location' = IF read_location = depth - 1 THEN 0 ELSE read_location + 1
  BY IncLocation DEF AdvanceRead, TypeOK
<1>2. depth \in Int /\ depth >= 2
  BY QueueAssumption DEF depth
<1>3. CASE read_location <= write_location
  BY <1>1, <1>2, <1>3 DEF InUse, is_queue_empty, TypeOK
<1>4. CASE read_location > write_location /\ read_location = depth - 1
  BY <1>1, <1>2, <1>4 DEF InUse, is_queue_empty, TypeOK
<1>5. CASE read_location > write_location /\ read_location # depth - 1
  BY <1>1, <1>2, <1>5 DEF InUse, is_queue_empty, TypeOK
<1> QED
  BY <1>3, <1>4, <1>5 DEF TypeOK

LEMMA OccurrencesAdvance ==
  ASSUME TypeOK, AdvanceRead, ~is_queue_empty, UNCHANGED <<write_location, queue>>,
         NEW c \in Captures
  PROVE  Occurrences(c)' = Occurrences(c) - One(Oldest = c)
<1> DEFINE S == {l \in InUse : queue[l] = c}
<1>1. IsFiniteSet(S)
  BY InUseFinite
<1>2. S' = {l \in InUse \ {read_location} : queue[l] = c}
  BY InUseAdvance
<1>3. CASE Oldest = c
  <2>1. S' = S \ {read_location} /\ read_location \in S
    BY <1>2, <1>3, InUseAdvance DEF Oldest
  <2>2. Cardinality(S') = Cardinality(S) - 1
    BY <1>1, <2>1, FS_RemoveElement
  <2> QED
    BY <1>3, <2>2 DEF Occurrences, One
<1>4. CASE Oldest # c
  <2>1. S' = S
    BY <1>2, <1>4, InUseAdvance DEF Oldest
  <2>2. Cardinality(S) \in Nat
    BY <1>1, FS_CardinalityType
  <2> QED
    BY <1>4, <2>1, <2>2 DEF Occurrences, One
<1> QED
  BY <1>3, <1>4

(* Pushing takes the slot at write_location, which is free. *)
LEMMA InUsePush ==
  ASSUME TypeOK, NEW c \in Captures, NEW to_caller \in BOOLEAN, QueuePush(c, to_caller)
  PROVE  /\ write_location \in 0 .. depth - 1
         /\ write_location \notin InUse
         /\ is_queue_full => /\ InUse' = (InUse \ {read_location}) \cup {write_location}
                             /\ read_location \in InUse
                             /\ ~is_queue_empty
         /\ ~is_queue_full => InUse' = InUse \cup {write_location}
<1>1. write_location' = IF write_location = depth - 1 THEN 0 ELSE write_location + 1
  BY IncLocation DEF QueuePush, TypeOK
<1>2. is_queue_full <=>
        (IF write_location = depth - 1 THEN 0 ELSE write_location + 1) = read_location
  BY IncLocation DEF is_queue_full, TypeOK
<1>3. depth \in Int /\ depth >= 2
  BY QueueAssumption DEF depth
<1>4. write_location \notin InUse
  BY <1>3 DEF InUse, TypeOK
<1>5. ASSUME is_queue_full
      PROVE  /\ InUse' = (InUse \ {read_location}) \cup {write_location}
             /\ read_location \in InUse
             /\ ~is_queue_empty
  <2>1. ~is_queue_empty
    BY <1>2, <1>3, <1>5 DEF is_queue_empty, TypeOK
  <2>2. read_location' = IF read_location = depth - 1 THEN 0 ELSE read_location + 1
    BY <1>5, <2>1, IncLocation DEF QueuePush, AdvanceRead, TypeOK
  <2>3. CASE write_location = depth - 1
    BY <1>1, <1>2, <1>3, <1>5, <2>2, <2>3 DEF InUse, TypeOK, is_queue_empty
  <2>4. CASE write_location # depth - 1 /\ read_location = depth - 1
    BY <1>1, <1>2, <1>3, <1>5, <2>2, <2>4 DEF InUse, TypeOK, is_queue_empty
  <2>5. CASE write_location # depth - 1 /\ read_location # depth - 1
    BY <1>1, <1>2, <1>3, <1>5, <2>2, <2>5 DEF InUse, TypeOK, is_queue_empty
  <2> QED
    BY <2>3, <2>4, <2>5
<1>6. ASSUME ~is_queue_full PROVE InUse' = InUse \cup {write_location}
  <2>1. read_location' = read_location
    BY <1>6 DEF QueuePush
  <2>2. CASE write_location = depth - 1
    BY <1>1, <1>2, <1>3, <1>6, <2>1, <2>2 DEF InUse, TypeOK
  <2>3. CASE write_location # depth - 1
    BY <1>1, <1>2, <1>3, <1>6, <2>1, <2>3 DEF InUse, TypeOK
  <2> QED
    BY <2>2, <2>3
<1> QED
  BY <1>4, <1>5, <1>6 DEF TypeOK

LEMMA OccurrencesPush ==
  ASSUME TypeOK, NEW c \in Captures, NEW to_caller \in BOOLEAN, QueuePush(c, to_caller),
         NEW x \in Captures
  PROVE  Occurrences(x)' = Occurrences(x) + One(x = c)
                             - One(is_queue_full /\ x = Oldest)
<1> DEFINE S == {l \in InUse : queue[l] = x}
           w == write_location
           kept == IF is_queue_full THEN InUse \ {read_location} ELSE InUse
           K == {l \in kept : queue[l] = x}
<1>0. IsFiniteSet(S)
  BY InUseFinite
<1>1. IsFiniteSet(S) /\ Cardinality(S) \in Nat
  BY <1>0, FS_CardinalityType
<1>2. IsFiniteSet(K) /\ Cardinality(K) = Cardinality(S) - One(is_queue_full /\ x = Oldest)
  <2>1. CASE is_queue_full /\ x = Oldest
    <3>1. K = S \ {read_location} /\ read_location \in S
      BY <2>1, InUsePush DEF Oldest
    <3>2. /\ IsFiniteSet(S \ {read_location})
          /\ Cardinality(S \ {read_location}) = Cardinality(S) - 1
      BY <1>1, <3>1, FS_RemoveElement
    <3>3. IsFiniteSet(K) /\ Cardinality(K) = Cardinality(S) - 1
      BY <3>1, <3>2
    <3> HIDE DEF S, K
    <3> QED
      BY <2>1, <3>3 DEF One
  <2>2. CASE ~(is_queue_full /\ x = Oldest)
    <3>1. K = S
      BY <2>2, InUsePush DEF Oldest
    <3>2. Cardinality(K) = Cardinality(S) /\ IsFiniteSet(K)
      BY <1>1, <3>1
    <3> QED
      BY <1>1, <2>2, <3>2 DEF One
  <2> QED
    BY <2>1, <2>2
<1>3. InUse' = kept \cup {w} /\ w \notin kept /\ kept \subseteq 0 .. depth - 1
  BY InUsePush, InUseType
<1>4. queue' = [queue EXCEPT ![w] = c] /\ w \in 0 .. depth - 1
  BY InUsePush DEF QueuePush
<1>5. S' = IF x = c THEN K \cup {w} ELSE K
  BY <1>3, <1>4 DEF TypeOK
<1>6. Cardinality(S') = Cardinality(K) + One(x = c)
  <2>1. CASE x = c
    BY <1>2, <1>3, <1>5, <2>1, FS_AddElement DEF One
  <2>2. CASE x # c
    <3>1. Cardinality(S') = Cardinality(K) /\ Cardinality(K) \in Nat
      BY <1>2, <1>5, <2>2, FS_CardinalityType
    <3> QED
      BY <2>2, <3>1 DEF One
  <2> QED
    BY <2>1, <2>2
<1> QED
  BY <1>1, <1>2, <1>6 DEF Occurrences, One

LEMMA RefsStep == TypeOK /\ RefsConserved /\ [Next]_vars => RefsConserved'
<1> SUFFICES ASSUME TypeOK, RefsConserved, [Next]_vars, NEW x \in Captures
             PROVE  (refs[x] = held[x] + Occurrences(x))'
  BY DEF RefsConserved
<1>0. /\ refs[x] = held[x] + Occurrences(x)
      /\ Occurrences(x) \in Nat /\ refs[x] \in Int /\ held[x] \in Nat
  BY OccurrencesType DEF RefsConserved, TypeOK
<1>1. ASSUME UNCHANGED <<read_location, write_location, queue, refs, held>>
      PROVE  (refs[x] = held[x] + Occurrences(x))'
  BY <1>0, <1>1 DEF Occurrences, InUse
<1>2. ASSUME UNCHANGED <<read_location, write_location, queue>>
      PROVE  Occurrences(x)' = Occurrences(x)
  BY <1>2 DEF Occurrences, InUse
<1>3. ASSUME NEW c \in Captures, Client(c) PROVE (refs[x] = held[x] + Occurrences(x))'
  <2>1. Occurrences(x)' = Occurrences(x)
    BY <1>2, <1>3 DEF Client, CreateCapture, ReleaseCapture, context
  <2>2. refs'[x] - refs[x] = held'[x] - held[x]
    <3>1. CASE ReleaseCapture(c)
      BY <1>0, <3>1 DEF ReleaseCapture, TypeOK
    <3>2. CASE CreateCapture(c)
      <4>1. held[c] = 0
        BY <3>2, OccurrencesType DEF CreateCapture, RefsConserved, TypeOK
      <4> QED
        BY <1>0, <3>2, <4>1 DEF CreateCapture, TypeOK
    <3> QED
      BY <1>3, <3>1, <3>2 DEF Client
  <2>3. refs'[x] \in Int /\ held'[x] \in Int
    BY TypeStep DEF TypeOK
  <2> QED
    BY <1>0, <2>1, <2>2, <2>3
<1>4. ASSUME NEW c \in Captures, NEW to_caller \in BOOLEAN, QueuePush(c, to_caller)
      PROVE  (refs[x] = held[x] + Occurrences(x))'
  <2>1. Occurrences(x)' = Occurrences(x) + One(x = c) - One(is_queue_full /\ x = Oldest)
    BY <1>4, OccurrencesPush
  <2>2. CASE is_queue_full
    <3>1. /\ refs'[x] = refs[x] + One(x = c) - One(x = Oldest /\ ~to_caller)
          /\ held'[x] = held[x] + One(x = Oldest /\ to_caller)
      BY <1>4, <2>2 DEF QueuePush, Drop, One
    <3> QED
      BY <1>0, <2>1, <2>2, <3>1 DEF One
  <2>3. CASE ~is_queue_full
    BY <1>0, <1>4, <2>1, <2>3 DEF QueuePush, One, TypeOK
  <2> QED
    BY <2>2, <2>3
<1>5. ASSUME NEW s, PopReturns(s, Oldest), AdvanceRead, UNCHANGED <<write_location, queue>>
      PROVE  (refs[x] = held[x] + Occurrences(x))'
  <2>1. CASE is_queue_empty
    <3>1. Occurrences(x)' = Occurrences(x)
      BY <1>2, <1>5, <2>1 DEF AdvanceRead
    <3>2. UNCHANGED <<refs, held>>
      BY <1>5, <2>1 DEF PopReturns, Oldest
    <3> QED
      BY <1>0, <3>1, <3>2
  <2>2. CASE ~is_queue_empty
    <3>1. Occurrences(x)' = Occurrences(x) - One(Oldest = x)
      BY <1>5, <2>2, OccurrencesAdvance
    <3>2. refs'[x] - held'[x] = refs[x] - held[x] - One(Oldest = x)
      <4>1. CASE enabled
        BY <1>0, <1>5, <4>1, QueueAssumption DEF PopReturns, One, TypeOK
      <4>2. CASE ~enabled
        <5>1. /\ refs' = IF Oldest = Nil THEN refs ELSE [refs EXCEPT ![Oldest] = @ - 1]
              /\ held' = held
          BY <1>5, <4>2 DEF PopReturns
        <5>2. CASE Oldest = x
          BY <1>0, <5>1, <5>2, QueueAssumption DEF One, TypeOK
        <5>3. CASE Oldest # x
          BY <1>0, <5>1, <5>3 DEF One, TypeOK
        <5> QED
          BY <5>2, <5>3
      <4> QED
        BY <4>1, <4>2
    <3>3. refs'[x] \in Int /\ held'[x] \in Int
      BY TypeStep DEF TypeOK
    <3> QED
      BY <1>0, <3>1, <3>2, <3>3 DEF One
  <2> QED
    BY <2>1, <2>2
<1>6. ASSUME NEW t \in Poppers, PopStarts(t) PROVE (refs[x] = held[x] + Occurrences(x))'
  <2>1. CASE QueuePopReady(t)
    BY <1>5, <2>1 DEF QueuePopReady
  <2>2. CASE ~QueuePopReady(t)
    <3>1. UNCHANGED <<read_location, write_location, queue, refs, held>>
      BY <1>6, <2>2 DEF PopStarts, QueuePopDisabled, QueuePopNothing, QueuePopWaits,
                        PopReturns, context
    <3> QED
      BY <1>1, <3>1
  <2> QED
    BY <2>1, <2>2
<1>7. ASSUME NEW t \in Poppers, WaitTimesOut(t) \/ SpuriousWakeup(t) \/ PopResumes(t)
      PROVE  (refs[x] = held[x] + Occurrences(x))'
  <2>1. CASE QueuePopWoken(t)
    BY <1>5, <2>1 DEF QueuePopWoken
  <2>2. CASE ~QueuePopWoken(t)
    <3>1. UNCHANGED <<read_location, write_location, queue, refs, held>>
      BY <1>7, <2>2 DEF WaitTimesOut, SpuriousWakeup, PopResumes, QueuePopTimedOut,
                        PopReturns, context
    <3> QED
      BY <1>1, <3>1
  <2> QED
    BY <2>1, <2>2
<1>8. ASSUME NEW d \in Controllers, Controls(d)
      PROVE  (refs[x] = held[x] + Occurrences(x))'
  <2>1. CASE QueueEnable(d) \/ QueueStop(d)
    BY <1>1, <2>1 DEF QueueEnable, QueueStop
  <2>2. ASSUME NEW loop, DisablePass(d, loop), UNCHANGED <<write_location, queue, held>>
        PROVE  (refs[x] = held[x] + Occurrences(x))'
    <3>1. CASE queue_pop_blocked # 0
      BY <1>1, <2>2, <3>1 DEF DisablePass
    <3>2. CASE queue_pop_blocked = 0
      <4>1. Drain(d, loop)
        BY <2>2, <3>2 DEF DisablePass
      <4>2. InUse' = {}
        BY <2>2, <4>1 DEF Drain, InUse, TypeOK
      <4>3. Occurrences(x)' = 0
        BY <4>2, FS_EmptySet DEF Occurrences
      <4> QED
        BY <1>0, <2>2, <4>1, <4>3 DEF Drain
    <3> QED
      BY <3>1, <3>2
  <2>3. CASE QueueDisable(d) \/ QueueDestroy(d) \/ DisableContinues(d)
    BY <2>2, <2>3 DEF QueueDisable, QueueDestroy, DisableContinues
  <2> QED
    BY <1>8, <2>1, <2>3 DEF Controls
<1>9. CASE UNCHANGED vars
  BY <1>1, <1>9 DEF vars, context
<1> QED
  BY <1>3, <1>4, <1>6, <1>7, <1>8, <1>9 DEF Next

(* Every reference to a capture is owned by exactly one slot of the ring   *)
(* or by a client, on every path through push, drop, pop and disable.      *)
THEOREM RefsAreConserved == Spec => []RefsConserved
<1>1. ASSUME Init PROVE RefsConserved
  <2>1. InUse = {}
    BY <1>1 DEF Init, InUse
  <2>2. \A c \in Captures : Occurrences(c) = 0
    BY <2>1, FS_EmptySet DEF Occurrences
  <2> QED
    BY <1>1, <2>2 DEF Init, RefsConserved
<1> QED
  BY <1>1, RefsStep, TypeCorrect, PTL DEF Spec

-----------------------------------------------------------------------------
(* The captures in the ring as a sequence.                                 *)

(* The slot of the i-th capture, without the remainder. *)
LEMMA SlotOf ==
  ASSUME NEW l \in 0 .. depth - 1, NEW i \in 1 .. depth
  PROVE  /\ (l + i - 1) % depth = IF l + i - 1 < depth THEN l + i - 1
                                  ELSE l + i - 1 - depth
         /\ (l + i - 1) % depth \in 0 .. depth - 1
<1>1. depth \in Nat \ {0}
  BY QueueAssumption DEF depth
<1>2. PICK s \in Nat : s = l + i - 1
  BY <1>1
<1>3. s < depth \/ s - depth \in 0 .. depth - 1
  BY <1>1, <1>2
<1>4. s < depth => s % depth = s
  BY <1>1
<1>5. s - depth \in 0 .. depth - 1 => s % depth = s - depth
  BY <1>1
<1> QED
  BY <1>1, <1>2, <1>3, <1>4, <1>5

(* Seen from the next location, every capture is one place nearer. *)
LEMMA NextSlot ==
  ASSUME NEW l \in 0 .. depth - 1, NEW i \in 1 .. depth - 1
  PROVE  (inc_read_write_location(l) + i - 1) % depth = (l + (i + 1) - 1) % depth
<1>1. depth \in Nat \ {0} /\ i \in 1 .. depth /\ i + 1 \in 1 .. depth
  BY QueueAssumption DEF depth
<1>2. PICK m \in 0 .. depth - 1 : m = inc_read_write_location(l)
  BY IncLocation
<1>3. m = IF l = depth - 1 THEN 0 ELSE l + 1
  BY <1>2, IncLocation
<1>4. (m + i - 1) % depth = IF m + i - 1 < depth THEN m + i - 1 ELSE m + i - 1 - depth
  BY <1>1, SlotOf
<1>5. (l + (i + 1) - 1) % depth
        = IF l + (i + 1) - 1 < depth THEN l + (i + 1) - 1 ELSE l + (i + 1) - 1 - depth
  BY <1>1, SlotOf
<1> QED
  BY <1>1, <1>2, <1>3, <1>4, <1>5

(* What the slots between the two locations hold, as a sequence. *)
RingIsSequence ==
  /\ Contents \in Seq(Captures \cup {Nil})
  /\ Len(Contents) = Count
  /\ \A i \in 1 .. Count : Contents[i] = queue[(read_location + i - 1) % depth]
  /\ Contents = <<>> <=> is_queue_empty

(* The captures in the ring are a sequence, oldest first. *)
LEMMA ContentsType ==
  TypeOK => RingIsSequence
<1> HAVE TypeOK
<1>0. read_location \in 0 .. depth - 1 /\ Count \in 0 .. depth - 1 /\ depth \in Nat
  BY CountType, QueueAssumption DEF TypeOK, depth
<1>1. Count \in Nat
  BY CountType
<1>2. \A i \in 1 .. Count : queue[(read_location + i - 1) % depth] \in Captures \cup {Nil}
  <2> SUFFICES ASSUME NEW i \in 1 .. Count
               PROVE  queue[(read_location + i - 1) % depth] \in Captures \cup {Nil}
    OBVIOUS
  <2>1. (read_location + i - 1) % depth \in 0 .. depth - 1
    BY <1>0, SlotOf
  <2> QED
    BY <2>1 DEF TypeOK
<1>3. Contents \in [1 .. Count -> Captures \cup {Nil}]
  BY <1>2 DEF Contents
<1>4. Contents \in Seq(Captures \cup {Nil})
  BY <1>1, <1>3, SeqDef
<1>5. Len(Contents) = Count
  BY <1>1, <1>3, <1>4, LenProperties
<1>6. Contents = <<>> <=> Count = 0
  BY <1>4, <1>5, EmptySeq, LenProperties
<1> QED
  BY <1>4, <1>5, <1>6, CountType DEF Contents, RingIsSequence

(* Moving read_location on takes the head away. *)
LEMMA ContentsTail ==
  ASSUME TypeOK, TypeOK', ~is_queue_empty, AdvanceRead, write_location' = write_location,
         queue' = queue
  PROVE  Contents' = Tail(Contents) /\ Oldest = Head(Contents)
<1>1. Count \in 0 .. QueueDepth /\ Count # 0 /\ Count' = Count - 1 /\ QueueDepth \in Nat
  BY CountType, AdvanceEffect, QueueAssumption
<1>2. Contents # <<>>
  BY ContentsType DEF RingIsSequence
<1>3. /\ Tail(Contents) \in Seq(Captures \cup {Nil})
      /\ Len(Tail(Contents)) = Count - 1
      /\ \A i \in 1 .. Count - 1 : Tail(Contents)[i] = Contents[i + 1]
      /\ Head(Contents) = Contents[1]
  BY <1>2, ContentsType, HeadTailProperties DEF RingIsSequence
<1>4. /\ Contents' \in Seq(Captures \cup {Nil})
      /\ Len(Contents') = Count'
      /\ \A i \in 1 .. Count' : Contents'[i] = queue'[(read_location' + i - 1) % depth]
  <2>1. RingIsSequence'
    BY ContentsType, PTL
  <2> QED
    BY <2>1 DEF RingIsSequence, depth
<1>5. ASSUME NEW i \in 1 .. Count - 1
      PROVE  (read_location' + i - 1) % depth = (read_location + (i + 1) - 1) % depth
  BY <1>1, NextSlot DEF AdvanceRead, TypeOK, depth
<1>6. \A i \in 1 .. Count - 1 : Contents'[i] = Tail(Contents)[i]
  <2> SUFFICES ASSUME NEW i \in 1 .. Count - 1 PROVE Contents'[i] = Tail(Contents)[i]
    OBVIOUS
  <2>1. Contents'[i] = queue[(read_location' + i - 1) % depth]
    BY <1>1, <1>4
  <2>2. Contents[i + 1] = queue[(read_location + (i + 1) - 1) % depth]
    BY <1>1, ContentsType DEF RingIsSequence
  <2> QED
    BY <1>3, <1>5, <2>1, <2>2
<1>7. Contents' = Tail(Contents)
  BY <1>1, <1>3, <1>4, <1>6, SeqEqual
<1>8. Oldest = Head(Contents)
  <2>0. depth \in Nat \ {0} /\ read_location \in 0 .. depth - 1 /\ 1 \in 1 .. depth
    BY <1>1 DEF TypeOK, depth
  <2>1. (read_location + 1 - 1) % depth = read_location
    <3>1. (read_location + 1 - 1) % depth = IF read_location + 1 - 1 < depth
            THEN read_location + 1 - 1 ELSE read_location + 1 - 1 - depth
      BY <2>0, SlotOf
    <3> QED
      BY <2>0, <3>1
  <2>2. Contents[1] = queue[(read_location + 1 - 1) % depth]
    BY <1>1, ContentsType DEF RingIsSequence
  <2> QED
    BY <1>3, <2>1, <2>2 DEF Oldest
<1> QED
  BY <1>7, <1>8

(* write_location is the slot after the newest capture, and no slot in use. *)
LEMMA WriteSlot ==
  ASSUME TypeOK
  PROVE  /\ (read_location + (Count + 1) - 1) % depth = write_location
         /\ \A i \in 1 .. Count : (read_location + i - 1) % depth # write_location
         /\ is_queue_full <=> Count = QueueDepth
<1>1. /\ depth \in Nat \ {0} /\ depth = QueueDepth + 1 /\ QueueDepth \in Nat
      /\ read_location \in 0 .. depth - 1 /\ write_location \in 0 .. depth - 1
      /\ Count \in 0 .. depth - 1
  BY QueueAssumption, CountType DEF depth, TypeOK
<1>2. Count = IF read_location <= write_location THEN write_location - read_location
              ELSE write_location - read_location + depth
  BY DEF Count
<1>3. \A i \in 1 .. depth : (read_location + i - 1) % depth
         = IF read_location + i - 1 < depth THEN read_location + i - 1
           ELSE read_location + i - 1 - depth
  BY <1>1, SlotOf
<1>4. Count + 1 \in 1 .. depth /\ \A i \in 1 .. Count : i \in 1 .. depth
  BY <1>1
<1>5. (read_location + (Count + 1) - 1) % depth = write_location
  BY <1>1, <1>2, <1>3, <1>4
<1>6. ASSUME NEW i \in 1 .. Count
      PROVE  (read_location + i - 1) % depth # write_location
  <2>1. i \in 1 .. depth /\ i <= Count
    BY <1>1
  <2>2. (read_location + i - 1) % depth
          = IF read_location + i - 1 < depth THEN read_location + i - 1
            ELSE read_location + i - 1 - depth
    BY <1>3, <2>1
  <2>3. CASE read_location <= write_location
    BY <1>1, <1>2, <2>1, <2>2, <2>3
  <2>4. CASE ~(read_location <= write_location)
    BY <1>1, <1>2, <2>1, <2>2, <2>4
  <2> QED
    BY <2>3, <2>4
<1>7. is_queue_full <=> Count = QueueDepth
  <2>1. inc_read_write_location(write_location)
          = IF write_location = depth - 1 THEN 0 ELSE write_location + 1
    BY <1>1, IncLocation
  <2> QED
    BY <1>1, <1>2, <2>1 DEF is_queue_full
<1> QED
  BY <1>5, <1>6, <1>7

(* A push appends the capture, after the oldest has gone if the ring was   *)
(* full.                                                                   *)
LEMMA ContentsPush ==
  ASSUME TypeOK, TypeOK', NEW c \in Captures, NEW to_caller \in BOOLEAN,
         QueuePush(c, to_caller)
  PROVE  Contents' = Append(IF Len(Contents) = QueueDepth THEN Tail(Contents)
                            ELSE Contents, c)
<1>1. /\ Contents \in Seq(Captures \cup {Nil})
      /\ Len(Contents) = Count
      /\ \A i \in 1 .. Count : Contents[i] = queue[(read_location + i - 1) % depth]
  BY ContentsType DEF RingIsSequence
<1>2. /\ Contents' \in Seq(Captures \cup {Nil})
      /\ Len(Contents') = Count'
      /\ \A i \in 1 .. Count' : Contents'[i] = queue'[(read_location' + i - 1) % depth]
  <2>1. RingIsSequence'
    BY ContentsType, PTL
  <2> QED
    BY <2>1 DEF RingIsSequence, depth
<1>3. /\ depth \in Nat \ {0} /\ depth = QueueDepth + 1 /\ QueueDepth \in Nat \ {0}
      /\ read_location \in 0 .. depth - 1 /\ write_location \in 0 .. depth - 1
      /\ Count \in 0 .. QueueDepth /\ (is_queue_empty <=> Count = 0)
      /\ Count' = IF Count = QueueDepth THEN Count ELSE Count + 1
  <2>1. depth = QueueDepth + 1 /\ QueueDepth \in Nat \ {0}
    BY QueueAssumption DEF depth
  <2>2. read_location \in 0 .. depth - 1 /\ write_location \in 0 .. depth - 1
    BY DEF TypeOK
  <2>3. Count' = IF Count = QueueDepth THEN Count ELSE Count + 1
    BY PushEffect, WriteSlot
  <2> QED
    BY <2>1, <2>2, <2>3, CountType
<1>4. /\ \A l \in 0 .. depth - 1 :
           queue'[l] = IF l = write_location THEN c ELSE queue[l]
      /\ queue \in [0 .. depth - 1 -> Captures \cup {Nil}]
  BY DEF QueuePush, TypeOK
<1>5. \A i \in 1 .. depth : (read_location + i - 1) % depth \in 0 .. depth - 1
  BY <1>3, SlotOf
<1>6. CASE Count = QueueDepth
  <2>1. read_location' = inc_read_write_location(read_location)
    BY <1>3, <1>6, WriteSlot DEF QueuePush, AdvanceRead
  <2>2. /\ Tail(Contents) \in Seq(Captures \cup {Nil})
        /\ Len(Tail(Contents)) = Count - 1
        /\ \A i \in 1 .. Count - 1 : Tail(Contents)[i] = Contents[i + 1]
    BY <1>1, <1>3, <1>6, HeadTailProperties, EmptySeq
  <2>3. /\ Append(Tail(Contents), c) \in Seq(Captures \cup {Nil})
        /\ Len(Append(Tail(Contents), c)) = Count
        /\ \A i \in 1 .. Count - 1 : Append(Tail(Contents), c)[i] = Tail(Contents)[i]
        /\ Append(Tail(Contents), c)[Count] = c
    BY <1>3, <2>2, AppendProperties
  <2>4. ASSUME NEW i \in 1 .. Count
        PROVE  Contents'[i] = Append(Tail(Contents), c)[i]
    <3>1. Contents'[i] = queue'[(read_location + (i + 1) - 1) % depth]
      BY <1>2, <1>3, <1>6, <2>1, NextSlot
    <3>2. CASE i = Count
      BY <1>3, <1>4, <2>3, <3>1, <3>2, WriteSlot
    <3>3. CASE i # Count
      <4>1. i + 1 \in 1 .. Count /\ i \in 1 .. Count - 1 /\ i + 1 \in 1 .. depth
        BY <1>3, <3>3
      <4>2. (read_location + (i + 1) - 1) % depth # write_location
        BY <4>1, WriteSlot
      <4>3. queue'[(read_location + (i + 1) - 1) % depth] = Contents[i + 1]
        BY <1>1, <1>4, <1>5, <4>1, <4>2
      <4> QED
        BY <2>2, <2>3, <3>1, <4>1, <4>3
    <3> QED
      BY <3>2, <3>3
  <2>5. Contents' = Append(Tail(Contents), c)
    BY <1>2, <1>3, <1>6, <2>3, <2>4, SeqEqual
  <2> QED
    BY <1>1, <1>6, <2>5
<1>7. CASE Count # QueueDepth
  <2>1. read_location' = read_location
    BY <1>7, WriteSlot DEF QueuePush
  <2>2. /\ Append(Contents, c) \in Seq(Captures \cup {Nil})
        /\ Len(Append(Contents, c)) = Count + 1
        /\ \A i \in 1 .. Count : Append(Contents, c)[i] = Contents[i]
        /\ Append(Contents, c)[Count + 1] = c
    BY <1>1, <1>3, AppendProperties
  <2>3. ASSUME NEW i \in 1 .. Count + 1
        PROVE  Contents'[i] = Append(Contents, c)[i]
    <3>1. Contents'[i] = queue'[(read_location + i - 1) % depth]
      BY <1>2, <1>3, <1>7, <2>1
    <3>2. CASE i = Count + 1
      BY <1>3, <1>4, <2>2, <3>1, <3>2, WriteSlot
    <3>3. CASE i # Count + 1
      <4>1. i \in 1 .. Count /\ i \in 1 .. depth
        BY <1>3, <3>3
      <4>2. (read_location + i - 1) % depth # write_location
        BY <4>1, WriteSlot
      <4> QED
        BY <1>1, <1>4, <1>5, <2>2, <3>1, <4>1, <4>2
    <3> QED
      BY <3>2, <3>3
  <2>4. Contents' = Append(Contents, c)
    BY <1>2, <1>3, <1>7, <2>2, <2>3, SeqEqual
  <2> QED
    BY <1>1, <1>7, <2>4
<1> QED
  BY <1>6, <1>7

-----------------------------------------------------------------------------
(* The ring implements the FIFO, step by step.                             *)

(* The end of a queue_pop that looked at the ring takes the head, discards *)
(* it, or comes back with nothing.                                         *)
LEMMA PopImplements ==
  ASSUME TypeOK, TypeOK', AdvanceRead, PopReturns("SUCCEEDED", Oldest),
         write_location' = write_location, queue' = queue, enabled' = enabled,
         controller' = controller
  PROVE  Abstract!Next
<1>1. Closing' = Closing
  BY DEF Closing
<1>2. CASE is_queue_empty
  <2>1. Contents' = Contents /\ Contents = <<>> /\ Oldest = Nil
    <3>1. read_location' = read_location
      BY <1>2 DEF AdvanceRead
    <3> QED
      BY <1>2, <3>1, ContentsType DEF Contents, Count, depth, RingIsSequence, Oldest
  <2>2. Abstract!ReturnEmpty
    BY <1>1, <2>1 DEF PopReturns, Result, Abstract!ReturnEmpty, Abstract!Result
  <2> QED
    BY <2>2 DEF Abstract!Next
<1>3. CASE ~is_queue_empty
  <2>1. /\ Contents' = Tail(Contents) /\ Oldest = Head(Contents) /\ Contents # <<>>
    BY <1>3, ContentsTail, ContentsType DEF RingIsSequence
  <2>2. Abstract!Take \/ Abstract!Discard
    BY <1>1, <2>1 DEF PopReturns, Result, Abstract!Take, Abstract!Discard, Abstract!Result
  <2> QED
    BY <2>2 DEF Abstract!Next
<1> QED
  BY <1>2, <1>3

(* A pass of queue_disable empties the ring or stays in its loop. *)
LEMMA PassImplements ==
  ASSUME TypeOK, TypeOK', NEW d \in Controllers,
         NEW loop \in {"disabling", "destroying"}, DisablePass(d, loop),
         write_location' = write_location, queue' = queue
  PROVE  \/ Contents' = <<>> /\ controller' = [controller EXCEPT ![d] = "idle"]
         \/ Contents' = Contents /\ controller' = [controller EXCEPT ![d] = loop]
<1>1. CASE queue_pop_blocked # 0
  BY <1>1 DEF DisablePass, Contents, Count, depth
<1>2. CASE queue_pop_blocked = 0
  <2>1. read_location' = write_location' /\ controller' = [controller EXCEPT ![d] = "idle"]
    BY <1>2 DEF DisablePass, Drain
  <2>2. RingIsSequence'
    BY ContentsType, PTL
  <2> QED
    BY <2>1, <2>2 DEF RingIsSequence, is_queue_empty
<1> QED
  BY <1>1, <1>2

LEMMA RingStep ==
  TypeOK /\ TypeOK' /\ [Next]_vars => [Abstract!Next]_(Abstract!vars)
<1> SUFFICES ASSUME TypeOK, TypeOK', [Next]_vars
             PROVE  Abstract!Next \/ UNCHANGED Abstract!vars
  OBVIOUS
<1> USE DEF Abstract!vars
<1>0. /\ read_location' = read_location /\ write_location' = write_location
         /\ queue' = queue => Contents' = Contents
      /\ controller' = controller => Closing' = Closing
  BY DEF Contents, Count, depth, Closing
<1>1. ASSUME NEW c \in Captures, Client(c) PROVE UNCHANGED Abstract!vars
  BY <1>0, <1>1 DEF Client, CreateCapture, ReleaseCapture, context
<1>2. ASSUME NEW c \in Captures, NEW to_caller \in BOOLEAN, QueuePush(c, to_caller)
      PROVE  Abstract!Next
  <2>1. Abstract!Put(c)
    BY <1>0, <1>2, ContentsPush DEF QueuePush, Abstract!Put
  <2> QED
    BY <2>1 DEF Abstract!Next
<1>3. ASSUME NEW t \in Poppers, PopStarts(t)
      PROVE  Abstract!Next \/ UNCHANGED Abstract!vars
  <2>1. CASE QueuePopDisabled(t)
    <3>1. Abstract!ReturnEmpty
      BY <1>0, <2>1 DEF QueuePopDisabled, context, Result, Abstract!ReturnEmpty,
         Abstract!Result
    <3> QED
      BY <3>1 DEF Abstract!Next
  <2>2. CASE QueuePopReady(t)
    BY <2>2, PopImplements DEF QueuePopReady
  <2>3. CASE QueuePopNothing(t)
    <3>1. Abstract!ReturnEmpty
      BY <1>0, <2>3 DEF QueuePopNothing, PopReturns, context, Result,
         Abstract!ReturnEmpty, Abstract!Result
    <3> QED
      BY <3>1 DEF Abstract!Next
  <2>4. ASSUME NEW how \in {"wait", "timed_wait"}, QueuePopWaits(t, how)
        PROVE  UNCHANGED Abstract!vars
    BY <1>0, <2>4 DEF QueuePopWaits
  <2> QED
    BY <1>3, <2>1, <2>2, <2>3, <2>4 DEF PopStarts
<1>4. ASSUME NEW t \in Poppers, WaitTimesOut(t) \/ SpuriousWakeup(t)
      PROVE  UNCHANGED Abstract!vars
  BY <1>0, <1>4 DEF WaitTimesOut, SpuriousWakeup, context
<1>5. ASSUME NEW t \in Poppers, PopResumes(t) PROVE Abstract!Next
  <2>1. CASE QueuePopWoken(t)
    BY <2>1, PopImplements DEF QueuePopWoken
  <2>2. CASE QueuePopTimedOut(t)
    <3>1. Abstract!ReturnEmpty
      BY <1>0, <2>2 DEF QueuePopTimedOut, PopReturns, Result, Abstract!ReturnEmpty,
         Abstract!Result
    <3> QED
      BY <3>1 DEF Abstract!Next
  <2> QED
    BY <1>5, <2>1, <2>2 DEF PopResumes
<1>6. ASSUME NEW d \in Controllers, Controls(d)
      PROVE  Abstract!Next \/ UNCHANGED Abstract!vars
  <2>1. CASE QueueEnable(d)
    <3>1. Abstract!TurnOn
      BY <1>0, <2>1 DEF QueueEnable, Abstract!TurnOn
    <3> QED
      BY <3>1 DEF Abstract!Next
  <2>2. CASE QueueStop(d)
    <3>1. Closing' = Closing
      BY <2>2 DEF QueueStop, Closing, TypeOK
    <3> QED
      BY <1>0, <2>2, <3>1 DEF QueueStop
  <2>3. ASSUME NEW loop \in {"disabling", "destroying"}, DisablePass(d, loop),
               write_location' = write_location, queue' = queue, out' = out,
               enabled' = FALSE, controller[d] \in {"idle", "stopping"}
        PROVE  Abstract!Next
    <3>1. CASE Contents' = <<>> /\ controller' = [controller EXCEPT ![d] = "idle"]
      <4>1. Closing' = Closing
        BY <2>3, <3>1 DEF Closing, TypeOK
      <4>2. Abstract!TurnOff
        BY <2>3, <3>1, <4>1 DEF Abstract!TurnOff
      <4> QED
        BY <4>2 DEF Abstract!Next
    <3>2. CASE Contents' = Contents /\ controller' = [controller EXCEPT ![d] = loop]
      <4>1. Closing' = TRUE
        BY <2>3, <3>2 DEF Closing, TypeOK
      <4>2. Abstract!TurnOff
        BY <2>3, <3>2, <4>1 DEF Abstract!TurnOff
      <4> QED
        BY <4>2 DEF Abstract!Next
    <3> QED
      BY <2>3, <3>1, <3>2, PassImplements
  <2>4. CASE QueueDisable(d)
    BY <2>3, <2>4 DEF QueueDisable
  <2>5. CASE QueueDestroy(d)
    BY <2>3, <2>5 DEF QueueDestroy
  <2>6. CASE DisableContinues(d)
    <3>1. /\ controller[d] \in {"disabling", "destroying"} /\ DisablePass(d, controller[d])
          /\ write_location' = write_location /\ queue' = queue /\ out' = out
          /\ enabled' = enabled
      BY <2>6 DEF DisableContinues
    <3>2. Closing
      BY <3>1 DEF Closing
    <3>3. CASE Contents' = <<>> /\ controller' = [controller EXCEPT ![d] = "idle"]
      <4>1. Abstract!Drain
        BY <3>1, <3>2, <3>3 DEF Abstract!Drain, Closing
      <4> QED
        BY <4>1 DEF Abstract!Next
    <3>4. CASE Contents' = Contents /\ controller' = [controller EXCEPT ![d] = controller[d]]
      <4>1. controller' = controller
        BY <3>4 DEF TypeOK
      <4> QED
        BY <1>0, <3>1, <3>4, <4>1
    <3> QED
      BY <3>1, <3>3, <3>4, PassImplements
  <2> QED
    BY <1>6, <2>1, <2>2, <2>4, <2>5, <2>6 DEF Controls
<1>7. CASE UNCHANGED vars
  BY <1>0, <1>7 DEF vars, context
<1> QED
  BY <1>1, <1>2, <1>3, <1>4, <1>5, <1>6, <1>7 DEF Next

(* queue.c's ring buffer, with its lock given up inside queue_pop and      *)
(* queue_disable, implements the FIFO its clients are promised: captures   *)
(* come out in the order they went in, only a push into a full queue drops *)
(* one and it drops the oldest, and a disabled queue delivers nothing.     *)
THEOREM RingImplements == Spec => ImplementsDropOldest
<1>1. Init => Abstract!Init
  <2> SUFFICES ASSUME Init PROVE Abstract!Init
    OBVIOUS
  <2>1. Count = 0
    BY DEF Init, Count
  <2>2. Contents = <<>>
    BY <2>1 DEF Contents
  <2>3. ~Closing
    BY DEF Init, Closing
  <2> QED
    BY <2>2, <2>3 DEF Init, Result, Abstract!Init, Abstract!Result
<1> QED
  BY <1>1, RingStep, TypeCorrect, PTL DEF Spec, ImplementsDropOldest, Abstract!Spec

=============================================================================
