---------------------------- MODULE CaptureSync ----------------------------
(***************************************************************************)
(* The synchronizer of src/src/capturesync/capturesync.c: it pairs the     *)
(* color captures of one callback thread with the depth captures of        *)
(* another by their timestamps and hands the result to the user through a  *)
(* third queue.                                                            *)
(*                                                                         *)
(* capturesync_add_capture runs under the synchronizer's lock; the user    *)
(* (capturesync_get_capture), the error path of add_capture and            *)
(* capturesync_start do not take it, so an action here is what a thread    *)
(* does between two calls into a queue that one of those can get between.  *)
(* The queues are those of DropOldestQueue, which CaptureQueue implements. *)
(***************************************************************************)
EXTENDS Integers, Sequences, FiniteSets

CONSTANTS
  fps_period,    \* 1000000 / fps, in the model's unit of time
  Delays,        \* values of depth_delay_off_color_usec to try
  OwnDepth,      \* capacity of the color and depth queues
  SyncDepth,     \* capacity of sync_queue
  TsSteps,       \* how far a timestamp may be after the previous one
  MaxTs,         \* bound: last timestamp
  None           \* no capture, no thread, no image

Sensors == {"color", "depth"}
Queues == Sensors \cup {"sync"}

(* A depth timestamp from before the color camera reset the clock.         *)
Unclean == MaxTs + 11 * fps_period

(* A capture: which sensor produced it, when, and the timestamp of the     *)
(* color image merged into it.                                             *)
Captures == [sensor : Sensors, ts : 0 .. MaxTs \cup {Unclean}, merged : 0 .. MaxTs \cup {None}]
Capture(s, ts) == [sensor |-> s, ts |-> ts, merged |-> None]
Ids == Sensors \X (0 .. MaxTs \cup {Unclean})
Id(c) == <<c.sensor, c.ts>>

ASSUME SyncAssumption ==
  /\ fps_period \in Nat \ {0}
  /\ Delays \subseteq Int
  /\ OwnDepth \in Nat \ {0} /\ SyncDepth \in Nat \ {0}
  /\ TsSteps \subseteq Nat \ {0}
  /\ MaxTs \in Nat
  /\ None \notin 0 .. MaxTs /\ None \notin Sensors \cup {"control"} /\ None \notin Captures

VARIABLES
  q,                            \* the three queues: on (enabled) and items
  slot,                         \* frame_info_t.capture of color and depth_ir
  running, waiting_for_clean_depth_ts,
  sync_captures, synchronized_images_only, depth_delay_off_color_usec,
  lock,                         \* the thread that holds sync->lock
  call,                         \* where each sensor's thread is in add_capture
  control,                      \* where the controlling thread is
  clock,                        \* last timestamp of each sensor's session
  refs,                         \* reference counts of the captures
  seen                          \* last color and depth timestamp the user got

config == <<sync_captures, synchronized_images_only, depth_delay_off_color_usec>>
vars == <<q, slot, running, waiting_for_clean_depth_ts, config, lock, call,
          control, clock, refs, seen>>

-----------------------------------------------------------------------------
(* Calls into the queues: the queue after the call, and the references.    *)

Capacity(n) == IF n = "sync" THEN SyncDepth ELSE OwnDepth
Full(n) == Len(q[n].items) = Capacity(n)

Inc(r, c) == [r EXCEPT ![Id(c)] = @ + 1]
Dec(r, c) == [r EXCEPT ![Id(c)] = @ - 1]

Pushed(n, c) ==
  IF ~q[n].on THEN q[n]
  ELSE [q[n] EXCEPT !.items = Append(IF Full(n) THEN Tail(@) ELSE @, c)]

(* queue_push releases the capture it drops. *)
PushRefs(r, n, c) ==
  IF ~q[n].on THEN r
  ELSE Inc(IF Full(n) THEN Dec(r, Head(q[n].items)) ELSE r, c)

(* A capture without a partner gives up its slot: it goes to the user      *)
(* alone, unless he wants pairs only.                                      *)
SyncAfterDrop(c) ==
  IF synchronized_images_only THEN q["sync"] ELSE Pushed("sync", c)

RefsAfterDropKept(r, c) ==                                       \* mutant
  IF synchronized_images_only THEN r ELSE Dec(PushRefs(r, "sync", c), c)

RefsAfterDrop(r, c) ==
  Dec(IF synchronized_images_only THEN r ELSE PushRefs(r, "sync", c), c)

Disabled == [on |-> FALSE, items |-> <<>>]

DropAll(r, items) ==
  [i \in Ids |-> r[i] - Cardinality({k \in DOMAIN items : Id(items[k]) = i})]

-----------------------------------------------------------------------------
(* The sync window.                                                        *)

TS_SUBTRACT(ts, val) == IF ts <= val THEN 0 ELSE ts - val
TS_ADD(ts, val) == IF ts + val <= 0 THEN 0 ELSE ts + val

fps_1_quarter_period == fps_period \div 4

(* The window is laid around the timestamp of the sensor that fires first. *)
BeginWindow(color_ts, depth_ts) ==
  IF depth_delay_off_color_usec < 0
  THEN TS_SUBTRACT(TS_SUBTRACT(depth_ts, fps_1_quarter_period),
                   depth_delay_off_color_usec)
  ELSE TS_ADD(TS_SUBTRACT(color_ts, fps_1_quarter_period),
              depth_delay_off_color_usec)

JudgementNoEnd(color_ts, depth_ts) ==                            \* mutant
  LET other == IF depth_delay_off_color_usec < 0 THEN "color" ELSE "depth"
      ts    == IF other = "color" THEN color_ts ELSE depth_ts
  IN  IF ts < BeginWindow(color_ts, depth_ts) THEN other ELSE "merge"

(* What the loop does with the two oldest captures: drop one, or merge.    *)
Judgement(color_ts, depth_ts) ==
  LET first == IF depth_delay_off_color_usec < 0 THEN "depth" ELSE "color"
      other == IF depth_delay_off_color_usec < 0 THEN "color" ELSE "depth"
      ts    == IF other = "color" THEN color_ts ELSE depth_ts
      begin == BeginWindow(color_ts, depth_ts)
  IN  IF ts > begin + fps_period THEN first
      ELSE IF ts < begin THEN other
      ELSE "merge"

-----------------------------------------------------------------------------
Idle == [at |-> "idle", capture |-> None, wresult |-> "SUCCEEDED", todo |-> <<>>]

Init ==
  /\ q = [n \in Queues |-> Disabled]
  /\ slot = [s \in Sensors |-> None]
  /\ running = FALSE
  /\ waiting_for_clean_depth_ts = FALSE
  /\ sync_captures = FALSE
  /\ synchronized_images_only = FALSE
  /\ depth_delay_off_color_usec = 0
  /\ lock = None
  /\ call = [s \in Sensors |-> Idle]
  /\ control = [at |-> "idle", todo |-> <<>>]
  /\ clock = [s \in Sensors |-> -1]
  /\ refs = [i \in Ids |-> 0]
  /\ seen = [s \in Sensors |-> -1]

-----------------------------------------------------------------------------
(* capturesync_add_capture                                                 *)

(* A camera calls back from when it is started, after capturesync_start,   *)
(* until it is stopped, which may be after capturesync_stop.               *)
Streaming == control.at # "starting"

(* A sensor's thread calls add_capture with a capture it owns; everything  *)
(* before the lock only reads the capture.                                 *)
AddCapture(s) ==
  /\ Streaming
  /\ call[s].at = "idle"
  /\ \E ts \in ({clock[s] + d : d \in TsSteps} \cap (0 .. MaxTs)) \cup
               (IF s = "depth" /\ waiting_for_clean_depth_ts /\ sync_captures
                THEN {Unclean} ELSE {}) :
       /\ call' = [call EXCEPT ![s] = [Idle EXCEPT !.at = "lock",
                                                   !.capture = Capture(s, ts)]]
       /\ clock' = [clock EXCEPT ![s] = IF ts = Unclean THEN @ ELSE ts]
       /\ refs' = [refs EXCEPT ![<<s, ts>>] = 1]
  /\ UNCHANGED <<q, slot, running, waiting_for_clean_depth_ts, config, lock,
                 control, seen>>

(* add_capture returns and the caller releases its capture. *)
Returns(s, r) ==
  /\ call' = [call EXCEPT ![s] = Idle]
  /\ refs' = Dec(r, call[s].capture)

(* The lock is taken, but the capture is not for the synchronizer: it is   *)
(* not running, it passes captures through, or the depth clock has not     *)
(* been reset yet.                                                         *)
AddPassed(s) ==
  LET c == call[s].capture
      unclean == /\ s = "depth" /\ waiting_for_clean_depth_ts
                 /\ c.ts \div fps_period > 10
  IN  /\ call[s].at = "lock"
      /\ lock = None
      /\ ~running \/ ~sync_captures \/ unclean
      /\ IF running /\ ~sync_captures
         THEN /\ q' = [q EXCEPT !["sync"] = Pushed("sync", c)]
              /\ Returns(s, PushRefs(refs, "sync", c))
         ELSE /\ UNCHANGED q
              /\ Returns(s, refs)
      /\ UNCHANGED <<slot, running, waiting_for_clean_depth_ts, config, lock,
                     control, clock, seen>>

QueueBehindAlways(s, c) ==                                       \* mutant
  /\ q' = [q EXCEPT ![s] = Pushed(s, c)]
  /\ slot' = IF slot[s] = None THEN [slot EXCEPT ![s] = c] ELSE slot
  /\ refs' = Inc(PushRefs(refs, s, c), c)

(* The sensor's queue is full: the capture in the slot is dropped and the  *)
(* one the queue drops takes its place.                                    *)
replace_sample(s, c) ==
  /\ slot' = [slot EXCEPT ![s] = Head(q[s].items)]
  /\ q' = [q EXCEPT ![s] = Pushed(s, c), !["sync"] = SyncAfterDrop(slot[s])]
  /\ refs' = RefsAfterDrop(Inc(refs, c), slot[s])

(* The oldest capture of each sensor waits in its slot, the others in its  *)
(* queue.                                                                  *)
Store(s, c) ==
  IF slot[s] = None
  THEN /\ slot' = [slot EXCEPT ![s] = c]
       /\ refs' = Inc(refs, c)
       /\ UNCHANGED q
  ELSE IF q[s].on /\ Full(s)
  THEN replace_sample(s, c)
  ELSE /\ q' = [q EXCEPT ![s] = Pushed(s, c)]
       /\ refs' = PushRefs(refs, s, c)
       /\ UNCHANGED slot

AddStored(s) ==
  LET c == call[s].capture
  IN  /\ call[s].at = "lock"
      /\ lock = None
      /\ running
      /\ sync_captures
      /\ (s = "depth" /\ waiting_for_clean_depth_ts) => c.ts \div fps_period <= 10
      /\ Store(s, c)
      /\ waiting_for_clean_depth_ts' = (waiting_for_clean_depth_ts /\ s = "color")
      /\ lock' = s
      /\ call' = [call EXCEPT ![s].at = "match"]
      /\ UNCHANGED <<running, config, control, clock, seen>>

BothPending == slot["color"] # None /\ slot["depth"] # None

UnlockForgotten == UNCHANGED lock                                \* mutant

Unlock == lock' = None

(* The loop has ended: unlock and return. *)
MatchEnds(s) ==
  /\ call[s].at = "match"
  /\ call[s].wresult # "SUCCEEDED" \/ ~BothPending
  /\ Unlock
  /\ Returns(s, refs)
  /\ UNCHANGED <<q, slot, running, waiting_for_clean_depth_ts, config, control,
                 clock, seen>>

(* drop_sample, first half: the capture in the slot is dropped. *)
MatchDrops(s) ==
  LET which == Judgement(slot["color"].ts, slot["depth"].ts)
      c == slot[which]
  IN  /\ call[s].at = "match"
      /\ call[s].wresult = "SUCCEEDED"
      /\ BothPending
      /\ which # "merge"
      /\ q' = [q EXCEPT !["sync"] = SyncAfterDrop(c)]
      /\ refs' = RefsAfterDrop(refs, c)
      /\ slot' = [slot EXCEPT ![which] = None]
      /\ call' = [call EXCEPT ![s].at = "refill", ![s].todo = <<which>>]
      /\ UNCHANGED <<running, waiting_for_clean_depth_ts, config, lock, control,
                     clock, seen>>

(* The color image is linked into the depth capture ...                    *)
merge_captures(depth, color) == [depth EXCEPT !.merged = color.ts]

(* ... which goes to the user; both slots are given up.                    *)
MatchMerges(s) ==
  LET color == slot["color"]
      depth == slot["depth"]
      pair  == merge_captures(depth, color)
  IN  /\ call[s].at = "match"
      /\ call[s].wresult = "SUCCEEDED"
      /\ BothPending
      /\ Judgement(color.ts, depth.ts) = "merge"
      /\ q' = [q EXCEPT !["sync"] = Pushed("sync", pair)]
      /\ refs' = Dec(Dec(PushRefs(refs, "sync", pair), color), depth)
      /\ slot' = [x \in Sensors |-> None]
      /\ call' = [call EXCEPT ![s].at = "refill", ![s].todo = <<"color", "depth">>]
      /\ UNCHANGED <<running, waiting_for_clean_depth_ts, config, lock, control,
                     clock, seen>>

MayPopAfterSuccess(wresult) == wresult = "SUCCEEDED"             \* mutant

MayPop(wresult) == wresult # "FAILED"

(* drop_sample, second half: the next capture of the sensor takes the      *)
(* slot, unless an earlier call into a queue has failed.                   *)
Refill(s) ==
  LET which == Head(call[s].todo)
      rest  == Tail(call[s].todo)
      pops  == MayPop(call[s].wresult)
      popped == pops /\ q[which].on /\ q[which].items # <<>>
      wresult == IF ~pops THEN call[s].wresult
                 ELSE IF popped THEN "SUCCEEDED"
                 ELSE IF q[which].on THEN "TIMEOUT" ELSE "FAILED"
  IN  /\ call[s].at = "refill"
      /\ slot' = [slot EXCEPT ![which] =
                    IF popped THEN Head(q[which].items) ELSE None]
      /\ q' = IF popped THEN [q EXCEPT ![which].items = Tail(@)] ELSE q
      /\ call' = [call EXCEPT ![s].wresult = wresult, ![s].todo = rest,
                              ![s].at = IF rest = <<>> THEN "match" ELSE "refill"]
      /\ UNCHANGED <<running, waiting_for_clean_depth_ts, config, lock, control,
                     clock, refs, seen>>

(* A sensor reports an error: add_capture stops the three queues without   *)
(* taking the lock.                                                        *)
AddFailed(s) ==
  /\ Streaming
  /\ call[s].at = "idle"
  /\ call' = [call EXCEPT ![s] = [Idle EXCEPT !.at = "failing",
                                              !.todo = <<"sync", "depth", "color">>]]
  /\ UNCHANGED <<q, slot, running, waiting_for_clean_depth_ts, config, lock,
                 control, clock, refs, seen>>

StopQueue(s) ==
  LET n == Head(call[s].todo)
      rest == Tail(call[s].todo)
  IN  /\ call[s].at = "failing"
      /\ q' = [q EXCEPT ![n] = Disabled]
      /\ refs' = DropAll(refs, q[n].items)
      /\ call' = [call EXCEPT ![s] =
                    IF rest = <<>> THEN Idle ELSE [@ EXCEPT !.todo = rest]]
      /\ UNCHANGED <<slot, running, waiting_for_clean_depth_ts, config, lock,
                     control, clock, seen>>

-----------------------------------------------------------------------------
(* capturesync_get_capture: the user takes the oldest capture and releases *)
(* it.  (An empty or disabled queue changes nothing.)                      *)
GetCapture ==
  /\ q["sync"].on
  /\ q["sync"].items # <<>>
  /\ LET c == Head(q["sync"].items)
     IN  /\ seen' = [seen EXCEPT ![c.sensor] = c.ts,
                                 !["color"] = IF c.merged # None THEN c.merged
                                              ELSE IF c.sensor = "color" THEN c.ts
                                              ELSE @]
         /\ refs' = Dec(refs, c)
  /\ q' = [q EXCEPT !["sync"].items = Tail(@)]
  /\ UNCHANGED <<slot, running, waiting_for_clean_depth_ts, config, lock, call,
                 control, clock>>

-----------------------------------------------------------------------------
(* capturesync_start and capturesync_stop.  zsa.c starts only what is not  *)
(* started, and stops the cameras, callbacks included, before it starts    *)
(* them again; starting the color camera resets the clock.                 *)

CaptureSyncStart ==
  /\ control.at = "idle"
  /\ ~running
  /\ \A s \in Sensors : call[s].at = "idle"
  /\ waiting_for_clean_depth_ts' = TRUE
  /\ synchronized_images_only' \in BOOLEAN
  /\ sync_captures' \in BOOLEAN
  /\ depth_delay_off_color_usec' \in Delays
  /\ control' = [at |-> "starting", todo |-> <<"color", "depth", "sync">>]
  /\ clock' = [s \in Sensors |-> -1]
  /\ seen' = [s \in Sensors |-> -1]
  /\ UNCHANGED <<q, slot, running, lock, call, refs>>

(* A configuration with an unknown frame rate is refused, half applied. *)
StartRefused ==
  /\ control.at = "idle"
  /\ ~running
  /\ \A s \in Sensors : call[s].at = "idle"
  /\ waiting_for_clean_depth_ts' = TRUE
  /\ synchronized_images_only' \in BOOLEAN
  /\ UNCHANGED <<q, slot, running, sync_captures, depth_delay_off_color_usec,
                 lock, call, control, clock, refs, seen>>

(* queue_enable for each queue, without the lock, then running. *)
StartQueue ==
  LET n == Head(control.todo)
      rest == Tail(control.todo)
  IN  /\ control.at = "starting"
      /\ q' = [q EXCEPT ![n].on = TRUE]
      /\ running' = (rest = <<>>)
      /\ control' = [at |-> IF rest = <<>> THEN "idle" ELSE "starting",
                     todo |-> rest]
      /\ UNCHANGED <<slot, waiting_for_clean_depth_ts, config, lock, call,
                     clock, refs, seen>>

CaptureSyncStop ==
  /\ control.at = "idle"
  /\ lock = None
  /\ lock' = "control"
  /\ running' = FALSE
  /\ control' = [at |-> "stopping", todo |-> <<"color", "depth", "sync">>]
  /\ UNCHANGED <<q, slot, waiting_for_clean_depth_ts, config, call, clock, refs,
                 seen>>

(* The end of capturesync_stop: the slots are released, then the lock.     *)
StopEnds ==
  /\ slot' = [s \in Sensors |-> None]
  /\ refs' = LET held == {Id(slot[s]) : s \in {x \in Sensors : slot[x] # None}}
             IN  [i \in Ids |-> IF i \in held THEN refs[i] - 1 ELSE refs[i]]
  /\ lock' = None

DisableQueue ==
  LET n == Head(control.todo)
  IN  /\ control.at = "stopping"
      /\ control.todo # <<>>
      /\ q' = [q EXCEPT ![n] = Disabled]
      /\ refs' = DropAll(refs, q[n].items)
      /\ control' = [control EXCEPT !.todo = Tail(@)]
      /\ UNCHANGED <<slot, running, waiting_for_clean_depth_ts, config, lock,
                     call, clock, seen>>

StopReturns ==
  /\ control.at = "stopping"
  /\ control.todo = <<>>
  /\ StopEnds
  /\ control' = [control EXCEPT !.at = "idle"]
  /\ UNCHANGED <<q, running, waiting_for_clean_depth_ts, config, call, clock,
                 seen>>

-----------------------------------------------------------------------------
AddSteps(s) ==
  \/ AddPassed(s)
  \/ AddStored(s)
  \/ MatchEnds(s)
  \/ MatchDrops(s)
  \/ MatchMerges(s)
  \/ Refill(s)
  \/ StopQueue(s)

ControlSteps == StartQueue \/ DisableQueue \/ StopReturns

Next ==
  \/ \E s \in Sensors : AddCapture(s) \/ AddFailed(s) \/ AddSteps(s)
  \/ GetCapture
  \/ CaptureSyncStart
  \/ StartRefused
  \/ CaptureSyncStop
  \/ ControlSteps

Spec == Init /\ [][Next]_vars

(* A thread inside a call goes on; a thread waiting for the lock gets it   *)
(* in the end, also when others keep taking it.  Nobody has to call.       *)
Fairness ==
  /\ \A s \in Sensors : SF_vars(AddSteps(s))
  /\ WF_vars(ControlSteps)

FairSpec == Spec /\ Fairness

-----------------------------------------------------------------------------
(* Properties                                                              *)

(* What is on its way to the user, the next first: the captures that wait  *)
(* for him, then the one in the sensor's slot and those in its queue.      *)
Route(s) ==
  q["sync"].items \o (IF slot[s] = None THEN <<>> ELSE <<slot[s]>>) \o q[s].items

(* The sensor's image in a capture, if it has one, and when it was taken.  *)
Carries(c, s) == c.sensor = s \/ (s = "color" /\ c.merged # None)
TakenAt(c, s) == IF c.sensor = s THEN c.ts ELSE c.merged

(* Each sensor's images reach the user in the order they were taken, none  *)
(* twice: what the user has seen, what waits for him, the slot and the     *)
(* sensor's queue are in strictly increasing order of timestamp.           *)
ArrivalOrderKept ==
  \A s \in Sensors : \A i \in DOMAIN Route(s) : Carries(Route(s)[i], s) =>
    /\ seen[s] < TakenAt(Route(s)[i], s)
    /\ \A j \in DOMAIN Route(s) : i < j /\ Carries(Route(s)[j], s) =>
         TakenAt(Route(s)[i], s) < TakenAt(Route(s)[j], s)

(* In a pair, the image of the sensor that fires second was taken at most  *)
(* a quarter period before and at most a period after the time at which    *)
(* the configured delay puts it, whatever was dropped before, and near     *)
(* timestamp zero too.                                                     *)
PairsWithinPeriod ==
  \A k \in DOMAIN q["sync"].items :
    LET c == q["sync"].items[k]
        off == c.ts - c.merged - depth_delay_off_color_usec
        late == IF depth_delay_off_color_usec < 0 THEN -off ELSE off
    IN  c.merged # None => late \in -fps_1_quarter_period .. fps_period

(* With synchronized_images_only the user never gets a capture without its *)
(* partner, not even one a full queue or a late partner pushes out.        *)
OnlyPairs ==
  sync_captures /\ synchronized_images_only =>
    \A k \in DOMAIN q["sync"].items : q["sync"].items[k].merged # None

(* What the user gets is what the configuration promises: pairs inside     *)
(* their window, and only pairs where only pairs were asked for.           *)
DeliversPairs == PairsWithinPeriod /\ OnlyPairs

(* No capture is stranded: outside add_capture one of the slots is empty   *)
(* (nothing that could be judged is left waiting), an empty slot has       *)
(* nothing queued behind it, and a stopped synchronizer holds nothing that *)
(* could be delivered in, or matched with a capture of, the next session.  *)
NothingStranded ==
  /\ lock \notin Sensors =>
       /\ ~BothPending
       /\ \A s \in Sensors : slot[s] = None => q[s].items = <<>>
  /\ ~running /\ control.at = "idle" =>
       /\ \A n \in Queues : q[n].items = <<>>
       /\ \A s \in Sensors : slot[s] = None

(* The references of a capture are those of the thread that is adding it,  *)
(* its slot and its places in the queues.                                  *)
RefsMatchHolders ==
  \A i \in Ids :
    refs[i] = Cardinality({s \in Sensors : call[s].capture # None /\ Id(call[s].capture) = i})
              + Cardinality({s \in Sensors : slot[s] # None /\ Id(slot[s]) = i})
              + Cardinality({nk \in Queues \X (1 .. OwnDepth + SyncDepth) :
                               /\ nk[2] \in DOMAIN q[nk[1]].items
                               /\ Id(q[nk[1]].items[nk[2]]) = i})

(* add_capture comes back: its loop ends, whatever mixture of captures,    *)
(* drops and failing queues it meets, and it leaves the lock to the next   *)
(* caller.  capturesync_start and capturesync_stop come back as well.      *)
CallsReturn ==
  /\ \A s \in Sensors : call[s].at # "idle" ~> call[s].at = "idle"
  /\ control.at # "idle" ~> control.at = "idle"

=============================================================================
