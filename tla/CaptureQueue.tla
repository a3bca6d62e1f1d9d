---------------------------- MODULE CaptureQueue ----------------------------
(***************************************************************************)
(* The capture queue of src/src/queue/queue.c: a ring buffer of capture    *)
(* handles behind one lock and one condition variable.                     *)
(*                                                                         *)
(* Every operation of the code is one critical section, except for the two *)
(* places where the lock is given up in the middle: Condition_Wait inside  *)
(* queue_pop, and the 25 ms sleep in the loop of queue_disable.  An action *)
(* below is what a thread does between acquiring the lock and giving it    *)
(* up, so the interleavings of the model are those of the code.            *)
(*                                                                         *)
(* Poppers are the threads that call queue_pop, Controllers the ones that  *)
(* call queue_enable, queue_disable, queue_stop and queue_destroy; a push  *)
(* never blocks, so the pushing thread needs no state.                     *)
(***************************************************************************)
EXTENDS Integers, FiniteSets

CONSTANTS
  Poppers,          \* threads that call queue_pop
  Controllers,      \* threads that enable, disable, stop and destroy
  Captures,         \* capture handles
  QueueDepth,       \* queue_create's queue_depth
  MaxRefs,          \* bound: references a client makes of one capture
  SpuriousWakeups,  \* may Condition_Wait return COND_OK with no Condition_Post?
  Nil               \* the NULL capture

ASSUME QueueAssumption ==
  /\ QueueDepth \in 1..10000
  /\ MaxRefs \in Nat \ {0}
  /\ SpuriousWakeups \in BOOLEAN
  /\ IsFiniteSet(Poppers)
  /\ Nil \notin Captures

VARIABLES
  enabled, stopped,               \* queue_context_t, as in the code
  queue_pop_blocked,
  read_location, write_location,
  queue,                          \* the ring: 0..depth-1 -> capture
  alive,                          \* the handle has not been destroyed
  popper,                         \* where each popper is in queue_pop
  controller,                     \* where each controller is
  refs,                           \* capture reference counts
  held,                           \* references the clients have to release
  out                             \* what the last queue_pop returned

context == <<enabled, stopped, queue_pop_blocked, read_location,
             write_location, queue, alive>>
vars == <<context, popper, controller, refs, held, out>>

-----------------------------------------------------------------------------
(* The ring.  One slot is always unused: depth is one more than the number *)
(* of captures the queue can hold.                                         *)

depth == QueueDepth + 1

inc_read_write_location(location) == (location + 1) % depth

is_queue_empty == write_location = read_location

FullNoWrap == write_location + 1 = read_location                 \* mutant
is_queue_full == inc_read_write_location(write_location) = read_location

(* The slots in use: from read_location up to, not including,              *)
(* write_location, around the end of the array if need be.                 *)
InUse ==
  IF read_location <= write_location
  THEN read_location .. write_location - 1
  ELSE (read_location .. depth - 1) \cup (0 .. write_location - 1)

Count ==
  IF read_location <= write_location
  THEN write_location - read_location
  ELSE write_location - read_location + depth

(* How many slots in use hold capture c. *)
Occurrences(c) == Cardinality({l \in InUse : queue[l] = c})

(* The capture queue_pop_internal_locked returns; its caller moves         *)
(* read_location with AdvanceRead.                                         *)
Oldest == IF is_queue_empty THEN Nil ELSE queue[read_location]

AdvanceRead ==
  read_location' = IF is_queue_empty THEN read_location
                   ELSE inc_read_write_location(read_location)

-----------------------------------------------------------------------------
(* Threads.                                                                *)

Waiting == {t \in Poppers : popper[t] \in {"wait", "timed_wait"}}
Woken   == {t \in Poppers : popper[t] = "woken"}
Inside  == {t \in Poppers : popper[t] # "idle"}

(* Calls may start while the handle is valid and nobody is destroying it:  *)
(* the contract of every handle of this SDK.                               *)
Callable == alive /\ \A d \in Controllers : controller[d] # "destroying"

(* pthread_cond_signal under the lock: wakes one waiter, if there is one;  *)
(* a signal with no waiter is lost.                                        *)
Condition_Post ==
  IF Waiting = {}
  THEN UNCHANGED popper
  ELSE \E t \in Waiting : popper' = [popper EXCEPT ![t] = "woken"]

Result(status, capture) == [status |-> status, capture |-> capture]

PopReturnsNoRelease(status, c) ==                                \* mutant
  /\ out' = IF enabled THEN Result(status, c) ELSE Result("FAILED", Nil)
  /\ held' = IF c = Nil \/ ~enabled THEN held ELSE [held EXCEPT ![c] = @ + 1]
  /\ UNCHANGED refs

(* The tail of queue_pop, from the second test of enabled to the return:   *)
(* the reference of the popped capture goes to the caller, or is dropped   *)
(* when the queue has been disabled meanwhile.                             *)
PopReturns(status, c) ==
  IF enabled
  THEN /\ out' = Result(status, c)
       /\ held' = IF c = Nil THEN held ELSE [held EXCEPT ![c] = @ + 1]
       /\ UNCHANGED refs
  ELSE /\ out' = Result("FAILED", Nil)
       /\ refs' = IF c = Nil THEN refs ELSE [refs EXCEPT ![c] = @ - 1]
       /\ UNCHANGED held

-----------------------------------------------------------------------------
(* queue_create succeeded: the handle is valid and the queue disabled.     *)
Init ==
  /\ enabled = FALSE
  /\ stopped = FALSE
  /\ queue_pop_blocked = 0
  /\ read_location = 0
  /\ write_location = 0
  /\ queue = [i \in 0 .. depth - 1 |-> Nil]
  /\ alive = TRUE
  /\ popper = [t \in Poppers |-> "idle"]
  /\ controller = [d \in Controllers |-> "idle"]
  /\ refs = [c \in Captures |-> 0]
  /\ held = [c \in Captures |-> 0]
  /\ out = Result("TIMEOUT", Nil)

(* A client creates a capture (one reference) ...                          *)
CreateCapture(c) ==
  /\ refs[c] = 0
  /\ refs' = [refs EXCEPT ![c] = 1]
  /\ held' = [held EXCEPT ![c] = 1]
  /\ UNCHANGED <<context, popper, controller, out>>

(* ... and releases a reference it holds.                                  *)
ReleaseCapture(c) ==
  /\ held[c] > 0
  /\ refs' = [refs EXCEPT ![c] = @ - 1]
  /\ held' = [held EXCEPT ![c] = @ - 1]
  /\ UNCHANGED <<context, popper, controller, out>>

-----------------------------------------------------------------------------
(* queue_pop                                                               *)

(* The queue is disabled: fail at once. *)
QueuePopDisabled(t) ==
  /\ Callable
  /\ popper[t] = "idle"
  /\ ~enabled
  /\ out' = Result("FAILED", Nil)
  /\ UNCHANGED <<context, popper, controller, refs, held>>

(* There is a capture: return it without waiting.  queue_pop_blocked goes  *)
(* up and down again inside the critical section.                          *)
QueuePopReady(t) ==
  /\ Callable
  /\ popper[t] = "idle"
  /\ enabled
  /\ ~is_queue_empty
  /\ AdvanceRead
  /\ PopReturns("SUCCEEDED", Oldest)
  /\ UNCHANGED <<enabled, stopped, queue_pop_blocked, write_location, queue,
                 alive, popper, controller>>

(* Nothing there: a poll (wait_in_ms = 0) times out at once; a wait fails  *)
(* at once if Condition_Wait cannot read the clock.                        *)
QueuePopNothing(t) ==
  /\ Callable
  /\ popper[t] = "idle"
  /\ enabled
  /\ is_queue_empty
  /\ \E status \in {"TIMEOUT", "FAILED"} : PopReturns(status, Nil)
  /\ UNCHANGED <<context, popper, controller>>

(* Nothing there: Condition_Wait gives up the lock and waits, for ever or  *)
(* for a bounded time.                                                     *)
QueuePopWaits(t, how) ==
  /\ Callable
  /\ popper[t] = "idle"
  /\ enabled
  /\ is_queue_empty
  /\ queue_pop_blocked' = queue_pop_blocked + 1
  /\ popper' = [popper EXCEPT ![t] = how]
  /\ UNCHANGED <<enabled, stopped, read_location, write_location, queue, alive,
                 controller, refs, held, out>>

(* The wait ends by itself; the thread still has to get the lock back.     *)
WaitTimesOut(t) ==
  /\ popper[t] = "timed_wait"
  /\ popper' = [popper EXCEPT ![t] = "timedout"]
  /\ UNCHANGED <<context, controller, refs, held, out>>

SpuriousWakeup(t) ==
  /\ SpuriousWakeups
  /\ t \in Waiting
  /\ popper' = [popper EXCEPT ![t] = "woken"]
  /\ UNCHANGED <<context, controller, refs, held, out>>

(* COND_OK: the thread has the lock again, and takes what is there.        *)
QueuePopWoken(t) ==
  /\ popper[t] = "woken"
  /\ AdvanceRead
  /\ queue_pop_blocked' = queue_pop_blocked - 1
  /\ popper' = [popper EXCEPT ![t] = "idle"]
  /\ PopReturns("SUCCEEDED", Oldest)
  /\ UNCHANGED <<enabled, stopped, write_location, queue, alive, controller>>

(* COND_TIMEOUT: the thread does not look at the queue again.              *)
QueuePopTimedOut(t) ==
  /\ popper[t] = "timedout"
  /\ queue_pop_blocked' = queue_pop_blocked - 1
  /\ popper' = [popper EXCEPT ![t] = "idle"]
  /\ PopReturns("TIMEOUT", Nil)
  /\ UNCHANGED <<enabled, stopped, read_location, write_location, queue, alive,
                 controller>>

-----------------------------------------------------------------------------
(* queue_push and queue_push_w_dropped                                     *)

(* What happens to the reference of the capture a full queue drops:        *)
(* queue_push releases it, queue_push_w_dropped hands it to its caller.    *)
Drop(c, pushed, to_caller) ==
  /\ refs' = [r \in Captures |->
                refs[r] + (IF r = pushed THEN 1 ELSE 0)
                        - (IF r = c /\ ~to_caller THEN 1 ELSE 0)]
  /\ held' = [r \in Captures |->
                held[r] + (IF r = c /\ to_caller THEN 1 ELSE 0)]

PostIfWasEmpty ==                                                \* mutant
  IF is_queue_empty THEN Condition_Post ELSE UNCHANGED popper

(* Every capture that enters the ring is announced to one waiter. *)
PostPushed == Condition_Post

(* A push into a disabled queue changes nothing. *)
QueuePush(c, to_caller) ==
  /\ Callable
  /\ held[c] > 0
  /\ refs[c] < MaxRefs
  /\ enabled
  /\ IF is_queue_full
     THEN /\ AdvanceRead
          /\ Drop(Oldest, c, to_caller)
     ELSE /\ refs' = [refs EXCEPT ![c] = @ + 1]
          /\ UNCHANGED <<read_location, held>>
  /\ queue' = [queue EXCEPT ![write_location] = c]
  /\ write_location' = inc_read_write_location(write_location)
  /\ PostPushed
  /\ UNCHANGED <<enabled, stopped, queue_pop_blocked, alive, controller, out>>

-----------------------------------------------------------------------------
(* queue_enable, queue_disable, queue_stop and queue_destroy               *)

QueueEnable(d) ==
  /\ Callable
  /\ controller[d] = "idle"
  /\ enabled' = TRUE
  /\ stopped' = FALSE
  /\ UNCHANGED <<queue_pop_blocked, read_location, write_location, queue, alive,
                 popper, controller, refs, held, out>>

(* The end of queue_disable: release every capture in the ring, return.    *)
Drain(d, loop) ==
  /\ refs' = [c \in Captures |-> refs[c] - Occurrences(c)]
  /\ read_location' = write_location
  /\ controller' = [controller EXCEPT ![d] = "idle"]
  /\ alive' = (alive /\ loop # "destroying")
  /\ UNCHANGED popper

DisablePassNoWait(d, loop) ==                                    \* mutant
  /\ refs' = [c \in Captures |-> refs[c] - Occurrences(c)]
  /\ read_location' = write_location
  /\ controller' = [controller EXCEPT ![d] = "idle"]
  /\ alive' = (alive /\ loop # "destroying")
  /\ Condition_Post

DisablePassPostsOnce(d, loop) ==                                 \* mutant
  IF queue_pop_blocked # 0
  THEN /\ IF controller[d] # loop THEN Condition_Post ELSE UNCHANGED popper
       /\ controller' = [controller EXCEPT ![d] = loop]
       /\ UNCHANGED <<read_location, refs, alive>>
  ELSE Drain(d, loop)

(* One pass of the loop of queue_disable: with a pop still inside, post    *)
(* and sleep; otherwise drain.                                             *)
DisablePass(d, loop) ==
  IF queue_pop_blocked # 0
  THEN /\ Condition_Post
       /\ controller' = [controller EXCEPT ![d] = loop]
       /\ UNCHANGED <<read_location, refs, alive>>
  ELSE Drain(d, loop)

QueueDisable(d) ==
  /\ Callable
  /\ controller[d] \in {"idle", "stopping"}
  /\ enabled' = FALSE
  /\ DisablePass(d, "disabling")
  /\ UNCHANGED <<stopped, queue_pop_blocked, write_location, queue, held, out>>

(* queue_stop marks the queue in a critical section of its own, then calls *)
(* queue_disable.                                                          *)
QueueStop(d) ==
  /\ Callable
  /\ controller[d] = "idle"
  /\ stopped' = TRUE
  /\ controller' = [controller EXCEPT ![d] = "stopping"]
  /\ UNCHANGED <<enabled, queue_pop_blocked, read_location, write_location,
                 queue, alive, popper, refs, held, out>>

(* queue_destroy disables the queue and then frees everything, the lock    *)
(* included.  No other controller may be using the handle.                 *)
QueueDestroy(d) ==
  /\ Callable
  /\ \A e \in Controllers : controller[e] = "idle"
  /\ enabled' = FALSE
  /\ DisablePass(d, "destroying")
  /\ UNCHANGED <<stopped, queue_pop_blocked, write_location, queue, held, out>>

(* The thread wakes from the 25 ms sleep and tests queue_pop_blocked again.*)
(* It does not clear enabled again.                                        *)
DisableContinues(d) ==
  /\ controller[d] \in {"disabling", "destroying"}
  /\ DisablePass(d, controller[d])
  /\ UNCHANGED <<enabled, stopped, queue_pop_blocked, write_location, queue,
                 held, out>>

-----------------------------------------------------------------------------
Client(c) == CreateCapture(c) \/ ReleaseCapture(c)

PopStarts(t) ==
  \/ QueuePopDisabled(t)
  \/ QueuePopReady(t)
  \/ QueuePopNothing(t)
  \/ \E how \in {"wait", "timed_wait"} : QueuePopWaits(t, how)

PopResumes(t) == QueuePopWoken(t) \/ QueuePopTimedOut(t)

Controls(d) ==
  \/ QueueEnable(d)
  \/ QueueDisable(d)
  \/ QueueStop(d)
  \/ QueueDestroy(d)
  \/ DisableContinues(d)

Next ==
  \/ \E c \in Captures : Client(c)
  \/ \E c \in Captures, to_caller \in BOOLEAN : QueuePush(c, to_caller)
  \/ \E t \in Poppers : PopStarts(t)
  \/ \E t \in Poppers : WaitTimesOut(t)
  \/ \E t \in Poppers : SpuriousWakeup(t)
  \/ \E t \in Poppers : PopResumes(t)
  \/ \E d \in Controllers : Controls(d)

Spec == Init /\ [][Next]_vars

(* A thread that was woken or whose sleep is over gets the lock in the end *)
(* (it is held only for a bounded time), and a bounded wait ends.  Nobody  *)
(* is obliged to call anything, except that queue_stop goes on to call     *)
(* queue_disable.                                                          *)
Fairness ==
  /\ \A t \in Poppers : WF_vars(PopResumes(t)) /\ WF_vars(WaitTimesOut(t))
  /\ \A d \in Controllers :
       /\ WF_vars(DisableContinues(d))
       /\ WF_vars(controller[d] = "stopping" /\ QueueDisable(d))

FairSpec == Spec /\ Fairness

-----------------------------------------------------------------------------
(* Properties                                                              *)

(* Every variable of queue_context_t, of the threads and of the captures   *)
(* has a value of its type; the two locations stay inside the ring.        *)
TypeOK ==
  /\ enabled \in BOOLEAN
  /\ stopped \in BOOLEAN
  /\ queue_pop_blocked \in Int
  /\ read_location \in 0 .. depth - 1
  /\ write_location \in 0 .. depth - 1
  /\ queue \in [0 .. depth - 1 -> Captures \cup {Nil}]
  /\ alive \in BOOLEAN
  /\ popper \in [Poppers -> {"idle", "wait", "timed_wait", "woken", "timedout"}]
  /\ controller \in [Controllers -> {"idle", "stopping", "disabling", "destroying"}]
  /\ refs \in [Captures -> Int]
  /\ held \in [Captures -> Nat]
  /\ out \in [status : {"SUCCEEDED", "TIMEOUT", "FAILED"},
              capture : Captures \cup {Nil}]

(* No wakeup is lost (queue_push posts once per capture, queue_pop tests   *)
(* the ring only once after Condition_Wait): while a thread sleeps in      *)
(* queue_pop with nobody having posted to it, there are no more captures   *)
(* in the ring than threads that are already on their way to take one.     *)
NoLostWakeup == Waiting # {} => Count <= Cardinality(Woken)

(* queue_pop_blocked, which queue_disable waits for, is exactly the number *)
(* of threads that are inside Condition_Wait or coming out of it.          *)
BlockedCountExact == queue_pop_blocked = Cardinality(Inside)

(* A thread that is inside queue_pop of a disabled queue is never left     *)
(* alone: some thread is still in the loop of queue_disable and will post. *)
DisabledPopAttended ==
  (~enabled /\ Inside # {}) =>
    \E d \in Controllers : controller[d] \in {"disabling", "destroying"}

(* queue_destroy frees the lock and the condition only when no thread can  *)
(* come back from Condition_Wait to them, and no capture is left behind.   *)
DestroyedQuiescent == ~alive => Inside = {} /\ is_queue_empty

(* What DestroyedQuiescent rests on: nobody else controls the queue while  *)
(* a thread destroys it, and nobody does afterwards.                       *)
DestroyerAlone ==
  /\ \A d, e \in Controllers :
       controller[d] = "destroying" /\ e # d => controller[e] = "idle"
  /\ ~alive => \A d \in Controllers : controller[d] = "idle"

(* Each reference of a capture has exactly one owner: a slot of the ring   *)
(* between the two locations, or a client.  Nothing is leaked and nothing  *)
(* freed early on any path through push, drop, pop and disable.            *)
RefsConserved == \A c \in Captures : refs[c] = held[c] + Occurrences(c)

(* The queue as its clients see it: the slots from read_location up to     *)
(* write_location, oldest first.                                           *)
Contents == [i \in 1 .. Count |-> queue[(read_location + i - 1) % depth]]

Closing == \E d \in Controllers : controller[d] \in {"disabling", "destroying"}

Abstract == INSTANCE DropOldestQueue
              WITH fifo <- Contents, on <- enabled, closing <- Closing,
                   Capacity <- QueueDepth

(* The ring implements the FIFO its clients are promised: order kept, only *)
(* the oldest capture dropped and only when full, nothing delivered while  *)
(* the queue is disabled.                                                  *)
ImplementsDropOldest == Abstract!Spec

DisableReturns ==
  \A d \in Controllers :
    controller[d] \in {"disabling", "destroying"}
      ~> (controller[d] = "idle" \/ enabled)

DisableReleasesPoppers ==
  \A t \in Poppers :
    (popper[t] # "idle" /\ ~enabled) ~> (popper[t] = "idle" \/ enabled)

(* queue_disable and queue_destroy return, and disabling brings every      *)
(* blocked queue_pop back to its caller, the ones that wait for ever too,  *)
(* unless somebody enables the queue again meanwhile.                      *)
DisableCompletes == DisableReturns /\ DisableReleasesPoppers

=============================================================================
