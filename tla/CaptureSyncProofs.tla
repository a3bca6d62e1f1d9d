------------------------- MODULE CaptureSyncProofs -------------------------
(***************************************************************************)
(* Theorems about the synchronizer, for any frame rate, delay, capacity of *)
(* the queues and sequence of timestamps.                                  *)
(***************************************************************************)
EXTENDS CaptureSync, FiniteSetTheorems, TLAPS

(* What a thread still has to do: refill slots after a drop or a merge,    *)
(* and stop queues after an error.                                         *)
ToRefill == {<<"color">>, <<"depth">>, <<"color", "depth">>}
ToStop == {<<"sync", "depth", "color">>, <<"depth", "color">>, <<"color">>}
ToSwitch == {<<"color", "depth", "sync">>, <<"depth", "sync">>, <<"sync">>}

SyncTypes ==
  /\ q \in [Queues -> [on : BOOLEAN, items : Seq(Captures)]]
  /\ slot \in [Sensors -> Captures \cup {None}]
  /\ running \in BOOLEAN /\ waiting_for_clean_depth_ts \in BOOLEAN
  /\ sync_captures \in BOOLEAN /\ synchronized_images_only \in BOOLEAN
  /\ depth_delay_off_color_usec \in Int
  /\ lock \in Sensors \cup {"control", None}
  /\ call \in [Sensors -> [at : {"idle", "lock", "match", "refill", "failing"},
                           capture : Captures \cup {None},
                           wresult : {"SUCCEEDED", "TIMEOUT", "FAILED"},
                           todo : ToRefill \cup ToStop \cup {<<>>}]]
  /\ control \in [at : {"idle", "starting", "stopping"}, todo : ToSwitch \cup {<<>>}]
  /\ clock \in [Sensors -> -1 .. MaxTs]
  /\ seen \in [Sensors -> -1 .. MaxTs]

(* Who holds the lock, who carries a capture, and which queues are off.    *)
Protocol ==
  /\ \A s \in Sensors :
       /\ call[s].at \in {"match", "refill"} <=> lock = s
       /\ call[s].at \in {"lock", "match", "refill"} <=> call[s].capture # None
       /\ call[s].at = "refill" => call[s].todo \in ToRefill
       /\ call[s].at = "refill" /\ call[s].todo # <<"depth">> => call[s].wresult = "SUCCEEDED"
       /\ call[s].at = "failing" => call[s].todo \in ToStop
       /\ call[s].at \in {"idle", "lock"} => call[s].wresult = "SUCCEEDED"
       /\ call[s].wresult = "FAILED" => ~q["depth"].on
       /\ call[s].at = "failing" /\ call[s].todo = <<"color">> => ~q["depth"].on
  /\ control.at = "starting" =>
       control.todo \in ToSwitch /\ ~running /\ \A s \in Sensors : call[s].at = "idle"
  /\ control.at = "stopping" => ~running
  /\ control.at = "stopping" <=> lock = "control"
  /\ lock \in Sensors => running /\ sync_captures
  /\ control.at = "idle" /\ ~q["color"].on => ~q["depth"].on
  /\ control.at = "starting" /\ control.todo # <<"color", "depth", "sync">> => q["color"].on

(* What is in the queues and slots.                                        *)
Contents ==
  /\ \A n \in Queues : /\ Len(q[n].items) <= Capacity(n)
                       /\ ~q[n].on => q[n].items = <<>>
  /\ \A s \in Sensors :
       /\ \A k \in DOMAIN q[s].items :
            q[s].items[k].sensor = s /\ q[s].items[k].merged = None /\ q[s].items[k].ts # Unclean
       /\ slot[s] # None => slot[s].sensor = s /\ slot[s].merged = None /\ slot[s].ts # Unclean
       /\ call[s].capture # None =>
            /\ call[s].capture.sensor = s /\ call[s].capture.merged = None
            /\ call[s].capture.ts = Unclean =>
                 call[s].at = "lock" /\ s = "depth" /\ waiting_for_clean_depth_ts /\ sync_captures
  /\ \A k \in DOMAIN q["sync"].items :
       LET c == q["sync"].items[k]
       IN  (c.merged # None => c.sensor = "depth") /\ c.ts # Unclean

(* A slot is empty only while it is about to be refilled, or when nothing  *)
(* is queued behind it; two captures are in the slots only while they are  *)
(* being judged; a session starts with nothing.                            *)
Refilling(x) ==
  \E s \in Sensors : call[s].at = "refill" /\ \E k \in DOMAIN call[s].todo : call[s].todo[k] = x

Stranded ==
  /\ \A x \in Sensors : /\ Refilling(x) => slot[x] = None
                        /\ ~Refilling(x) /\ slot[x] = None => q[x].items = <<>>
                        /\ ~sync_captures => slot[x] = None /\ q[x].items = <<>>
  /\ lock \notin Sensors => ~BothPending
  /\ \A s \in Sensors : call[s].at = "match" /\ call[s].wresult # "SUCCEEDED" => ~BothPending
  /\ ~running /\ control.at # "stopping" =>
       /\ \A n \in Queues : q[n].items = <<>>
       /\ \A s \in Sensors : slot[s] = None
  /\ control.at = "stopping" =>
       \A n \in Queues : ~q[n].on \/ \E k \in DOMAIN control.todo : control.todo[k] = n

SyncInv == SyncTypes /\ Protocol /\ Contents /\ Stranded

-----------------------------------------------------------------------------
(* The short sequences of sensors and queues.                              *)

LEMMA Todo ==
  /\ Head(<<"color">>) = "color" /\ Tail(<<"color">>) = <<>>
  /\ Head(<<"depth">>) = "depth" /\ Tail(<<"depth">>) = <<>>
  /\ Head(<<"sync">>) = "sync" /\ Tail(<<"sync">>) = <<>>
  /\ Head(<<"color", "depth">>) = "color" /\ Tail(<<"color", "depth">>) = <<"depth">>
  /\ Head(<<"depth", "color">>) = "depth" /\ Tail(<<"depth", "color">>) = <<"color">>
  /\ Head(<<"depth", "sync">>) = "depth" /\ Tail(<<"depth", "sync">>) = <<"sync">>
  /\ Head(<<"sync", "depth", "color">>) = "sync"
  /\ Tail(<<"sync", "depth", "color">>) = <<"depth", "color">>
  /\ Head(<<"color", "depth", "sync">>) = "color"
  /\ Tail(<<"color", "depth", "sync">>) = <<"depth", "sync">>
<1>1. /\ Head(<<"color">>) = "color" /\ Tail(<<"color">>) = <<>>
      /\ Head(<<"depth">>) = "depth" /\ Tail(<<"depth">>) = <<>>
      /\ Head(<<"sync">>) = "sync" /\ Tail(<<"sync">>) = <<>>
  OBVIOUS
<1>2. /\ Head(<<"color", "depth">>) = "color" /\ Tail(<<"color", "depth">>) = <<"depth">>
      /\ Head(<<"depth", "color">>) = "depth" /\ Tail(<<"depth", "color">>) = <<"color">>
      /\ Head(<<"depth", "sync">>) = "depth" /\ Tail(<<"depth", "sync">>) = <<"sync">>
  OBVIOUS
<1>3. /\ Head(<<"sync", "depth", "color">>) = "sync"
      /\ Tail(<<"sync", "depth", "color">>) = <<"depth", "color">>
      /\ Head(<<"color", "depth", "sync">>) = "color"
      /\ Tail(<<"color", "depth", "sync">>) = <<"depth", "sync">>
  OBVIOUS
<1> QED
  BY <1>1, <1>2, <1>3

LEMMA TodoDistinct ==
  /\ <<"color">> # <<"depth">> /\ <<"color">> # <<>> /\ <<"depth">> # <<>> /\ <<"sync">> # <<>>
  /\ <<"color", "depth">> # <<"color">> /\ <<"depth", "color">> # <<"color">>
  /\ <<"sync", "depth", "color">> # <<"color">>
  /\ <<"depth", "sync">> # <<>> /\ <<"color", "depth">> # <<>> /\ <<"depth", "color">> # <<>>
  /\ <<"sync", "depth", "color">> # <<>> /\ <<"color", "depth", "sync">> # <<>>
OBVIOUS

(* Which names are in them.                                                *)
LEMMA TodoNames ==
  ASSUME NEW x
  PROVE  /\ (\E k \in DOMAIN <<"color">> : <<"color">>[k] = x) <=> x = "color"
         /\ (\E k \in DOMAIN <<"depth">> : <<"depth">>[k] = x) <=> x = "depth"
         /\ (\E k \in DOMAIN <<"sync">> : <<"sync">>[k] = x) <=> x = "sync"
         /\ (\E k \in DOMAIN <<"color", "depth">> : <<"color", "depth">>[k] = x) <=> x \in {"color", "depth"}
         /\ (\E k \in DOMAIN <<"depth", "sync">> : <<"depth", "sync">>[k] = x) <=> x \in {"depth", "sync"}
         /\ (\E k \in DOMAIN <<"color", "depth", "sync">> : <<"color", "depth", "sync">>[k] = x)
              <=> x \in {"color", "depth", "sync"}
OBVIOUS

-----------------------------------------------------------------------------
(* The calls into the queues                                               *)

LEMMA CapacityType == ASSUME NEW n PROVE Capacity(n) \in Nat \ {0}
BY SyncAssumption DEF Capacity

LEMMA CaptureType ==
  ASSUME NEW s \in Sensors, NEW ts \in 0 .. MaxTs \cup {Unclean}
  PROVE  /\ Capture(s, ts) \in Captures /\ Capture(s, ts) # None
         /\ Capture(s, ts).sensor = s /\ Capture(s, ts).ts = ts /\ Capture(s, ts).merged = None
BY SyncAssumption DEF Capture, Captures

(* A sequence without its oldest element, and with a new one.              *)
LEMMA TailFacts ==
  ASSUME NEW items \in Seq(Captures), items # <<>>
  PROVE  /\ Tail(items) \in Seq(Captures) /\ Len(Tail(items)) = Len(items) - 1
         /\ Head(items) = items[1] /\ Head(items) \in Captures /\ 1 \in DOMAIN items
         /\ \A k \in DOMAIN Tail(items) : k + 1 \in DOMAIN items /\ Tail(items)[k] = items[k + 1]
OBVIOUS

LEMMA AppendFacts ==
  ASSUME NEW items \in Seq(Captures), NEW c \in Captures
  PROVE  /\ Append(items, c) \in Seq(Captures) /\ Len(Append(items, c)) = Len(items) + 1
         /\ Append(items, c)[Len(items) + 1] = c
         /\ \A k \in DOMAIN items : Append(items, c)[k] = items[k]
         /\ \A k \in DOMAIN Append(items, c) : k \in DOMAIN items \/ k = Len(items) + 1
OBVIOUS

LEMMA QueueTypes ==
  ASSUME SyncTypes, NEW n \in Queues
  PROVE  /\ q[n] \in [on : BOOLEAN, items : Seq(Captures)]
         /\ q[n].items \in Seq(Captures) /\ Len(q[n].items) \in Nat
         /\ DOMAIN q[n].items = 1 .. Len(q[n].items)
         /\ \A k \in DOMAIN q[n].items : q[n].items[k] \in Captures
BY DEF SyncTypes

(* queue_push on a queue that is off changes nothing; on one that is on it *)
(* drops the oldest capture if the queue is full, and appends.             *)
LEMMA PushedFacts ==
  ASSUME SyncTypes, Contents, NEW n \in Queues, NEW c \in Captures
  PROVE  /\ Pushed(n, c) \in [on : BOOLEAN, items : Seq(Captures)]
         /\ Pushed(n, c).on <=> q[n].on
         /\ Len(Pushed(n, c).items) <= Capacity(n)
         /\ ~q[n].on => Pushed(n, c) = q[n]
         /\ q[n].on => \E d \in {0, 1} :
              /\ (d = 1) <=> Full(n)
              /\ d <= Len(q[n].items)
              /\ Pushed(n, c).items = Append(IF d = 1 THEN Tail(q[n].items) ELSE q[n].items, c)
              /\ Len(Pushed(n, c).items) = Len(q[n].items) + 1 - d
              /\ Pushed(n, c).items[Len(q[n].items) + 1 - d] = c
              /\ \A k \in 1 .. Len(q[n].items) - d :
                   Pushed(n, c).items[k] = q[n].items[k + d]
<1>1. q[n] \in [on : BOOLEAN, items : Seq(Captures)] /\ q[n].items \in Seq(Captures)
  BY QueueTypes
<1>2. Len(q[n].items) <= Capacity(n) /\ Capacity(n) \in Nat \ {0} /\ Len(q[n].items) \in Nat
  BY <1>1, CapacityType DEF Contents
<1>3. CASE ~q[n].on
  BY <1>1, <1>2, <1>3 DEF Pushed
<1>4. CASE q[n].on /\ Full(n)
  <2> DEFINE new == Append(Tail(q[n].items), c)
  <2>1. Len(q[n].items) >= 1 /\ q[n].items # <<>>
    BY <1>1, <1>2, <1>4 DEF Full
  <2>2. /\ Tail(q[n].items) \in Seq(Captures) /\ Len(Tail(q[n].items)) = Len(q[n].items) - 1
        /\ \A k \in DOMAIN Tail(q[n].items) : Tail(q[n].items)[k] = q[n].items[k + 1]
    BY <1>1, <2>1, TailFacts
  <2>3. /\ new \in Seq(Captures) /\ Len(new) = Len(q[n].items) /\ new[Len(q[n].items)] = c
        /\ \A k \in 1 .. Len(q[n].items) - 1 : new[k] = q[n].items[k + 1]
    BY <1>2, <2>1, <2>2, AppendFacts
  <2>4. Pushed(n, c) = [q[n] EXCEPT !.items = new]
    BY <1>4 DEF Pushed
  <2>5. /\ Pushed(n, c) \in [on : BOOLEAN, items : Seq(Captures)]
        /\ Pushed(n, c).on <=> q[n].on
        /\ Pushed(n, c).items = new
    <3> HIDE DEF new
    <3> QED
      BY <1>1, <2>3, <2>4
  <2> QED
    BY <1>2, <1>4, <2>1, <2>3, <2>5
<1>5. CASE q[n].on /\ ~Full(n)
  <2> DEFINE new == Append(q[n].items, c)
  <2>3. /\ new \in Seq(Captures) /\ Len(new) = Len(q[n].items) + 1 /\ new[Len(q[n].items) + 1] = c
        /\ \A k \in 1 .. Len(q[n].items) : new[k] = q[n].items[k]
    BY <1>1, <1>2, AppendFacts
  <2>4. Pushed(n, c) = [q[n] EXCEPT !.items = new]
    BY <1>5 DEF Pushed
  <2>5. /\ Pushed(n, c) \in [on : BOOLEAN, items : Seq(Captures)]
        /\ Pushed(n, c).on <=> q[n].on
        /\ Pushed(n, c).items = new
    <3> HIDE DEF new
    <3> QED
      BY <1>1, <2>3, <2>4
  <2>6. Len(new) <= Capacity(n)
    BY <1>2, <1>5, <2>3 DEF Full
  <2> QED
    BY <1>2, <1>5, <2>3, <2>5, <2>6
<1> QED
  BY <1>3, <1>4, <1>5

(* Whatever is in a queue after a push was there before, or is new.        *)
LEMMA PushedMembers ==
  ASSUME SyncTypes, Contents, NEW n \in Queues, NEW c \in Captures
  PROVE  \A k \in DOMAIN Pushed(n, c).items :
           \/ Pushed(n, c).items[k] = c /\ q[n].on
           \/ \E l \in DOMAIN q[n].items : Pushed(n, c).items[k] = q[n].items[l]
<1>1. Len(q[n].items) \in Nat /\ DOMAIN q[n].items = 1 .. Len(q[n].items)
  BY QueueTypes
<1>2. CASE ~q[n].on
  BY <1>2, PushedFacts
<1>3. CASE q[n].on
  <2> SUFFICES ASSUME NEW k \in DOMAIN Pushed(n, c).items
               PROVE  \/ Pushed(n, c).items[k] = c
                      \/ \E l \in DOMAIN q[n].items : Pushed(n, c).items[k] = q[n].items[l]
    BY <1>3
  <2>1. PICK d \in {0, 1} :
              /\ d <= Len(q[n].items)
              /\ Len(Pushed(n, c).items) = Len(q[n].items) + 1 - d
              /\ Pushed(n, c).items[Len(q[n].items) + 1 - d] = c
              /\ \A l \in 1 .. Len(q[n].items) - d :
                   Pushed(n, c).items[l] = q[n].items[l + d]
    BY <1>3, PushedFacts
  <2>2. Pushed(n, c).items \in Seq(Captures)
    BY PushedFacts
  <2>3. k \in 1 .. Len(q[n].items) + 1 - d
    BY <2>1, <2>2
  <2>4. CASE k = Len(q[n].items) + 1 - d
    BY <2>1, <2>4
  <2>5. CASE k # Len(q[n].items) + 1 - d
    <3>1. k \in 1 .. Len(q[n].items) - d /\ k + d \in 1 .. Len(q[n].items)
      BY <1>1, <2>1, <2>3, <2>5, SMTT(30)
    <3> QED
      BY <1>1, <2>1, <3>1
  <2> QED
    BY <2>4, <2>5
<1> QED
  BY <1>2, <1>3

-----------------------------------------------------------------------------
(* The steps of add_capture                                                *)

CallRecord == [at : {"idle", "lock", "match", "refill", "failing"},
               capture : Captures \cup {None},
               wresult : {"SUCCEEDED", "TIMEOUT", "FAILED"},
               todo : ToRefill \cup ToStop \cup {<<>>}]

LEMMA UncleanIsLater == Unclean \in Nat /\ Unclean > MaxTs /\ Unclean \notin 0 .. MaxTs
BY SyncAssumption DEF Unclean

(* A thread that brings a capture, and one that reports an error.          *)
Bringing(c) == [Idle EXCEPT !.at = "lock", !.capture = c]
Failing == [Idle EXCEPT !.at = "failing", !.todo = <<"sync", "depth", "color">>]

LEMMA BringingFacts ==
  ASSUME NEW c \in Captures
  PROVE  /\ Bringing(c) \in CallRecord
         /\ Bringing(c).at = "lock" /\ Bringing(c).capture = c
         /\ Bringing(c).wresult = "SUCCEEDED" /\ Bringing(c).todo = <<>>
BY DEF Bringing, Idle, CallRecord

LEMMA FailingFacts ==
  /\ Failing \in CallRecord
  /\ Failing.at = "failing" /\ Failing.capture = None
  /\ Failing.wresult = "SUCCEEDED" /\ Failing.todo = <<"sync", "depth", "color">>
BY DEF Failing, Idle, CallRecord, ToStop

(* The timestamp of a new capture is after all of its session, or from     *)
(* before the clock was reset.                                             *)
LEMMA NewCapture ==
  ASSUME SyncTypes, NEW s \in Sensors, AddCapture(s)
  PROVE  \E ts \in 0 .. MaxTs \cup {Unclean} :
           /\ call' = [call EXCEPT ![s] = Bringing(Capture(s, ts))]
           /\ ts = Unclean => /\ s = "depth" /\ waiting_for_clean_depth_ts /\ sync_captures
                              /\ clock' = clock
           /\ ts # Unclean => ts \in 0 .. MaxTs /\ ts > clock[s] /\ clock' = [clock EXCEPT ![s] = ts]
           /\ refs' = [refs EXCEPT ![<<s, ts>>] = 1]
<1>1. PICK ts \in ({clock[s] + d : d \in TsSteps} \cap (0 .. MaxTs)) \cup
               (IF s = "depth" /\ waiting_for_clean_depth_ts /\ sync_captures
                THEN {Unclean} ELSE {}) :
       /\ call' = [call EXCEPT ![s] = [Idle EXCEPT !.at = "lock",
                                                   !.capture = Capture(s, ts)]]
       /\ clock' = [clock EXCEPT ![s] = IF ts = Unclean THEN @ ELSE ts]
       /\ refs' = [refs EXCEPT ![<<s, ts>>] = 1]
  BY DEF AddCapture
<1>2. call' = [call EXCEPT ![s] = Bringing(Capture(s, ts))]
  BY <1>1 DEF Bringing
<1>3. CASE ts \in {clock[s] + d : d \in TsSteps} \cap (0 .. MaxTs)
  <2>1. ts # Unclean /\ ts \in 0 .. MaxTs
    BY <1>3, UncleanIsLater
  <2>2. ts > clock[s]
    <3>1. PICK d \in TsSteps : ts = clock[s] + d
      BY <1>3
    <3>2. d \in Nat \ {0} /\ clock[s] \in Int
      BY SyncAssumption DEF SyncTypes
    <3> QED
      BY <3>1, <3>2
  <2> QED
    BY <1>1, <1>2, <2>1, <2>2
<1>4. CASE s = "depth" /\ waiting_for_clean_depth_ts /\ sync_captures /\ ts = Unclean
  <2>1. clock' = clock
    BY <1>1, <1>4 DEF SyncTypes
  <2> QED
    BY <1>1, <1>2, <1>4, <2>1
<1> QED
  BY <1>3, <1>4

LEMMA AddCaptureKeeps ==
  ASSUME SyncInv, NEW s \in Sensors, AddCapture(s)
  PROVE  SyncInv'
<1>0. SyncTypes /\ Protocol /\ Contents /\ Stranded
  BY DEF SyncInv
<1>1. PICK ts \in 0 .. MaxTs \cup {Unclean} :
           /\ call' = [call EXCEPT ![s] = Bringing(Capture(s, ts))]
           /\ ts = Unclean => /\ s = "depth" /\ waiting_for_clean_depth_ts /\ sync_captures
                              /\ clock' = clock
           /\ ts # Unclean => ts \in 0 .. MaxTs /\ clock' = [clock EXCEPT ![s] = ts]
  BY <1>0, NewCapture
<1>2. /\ control.at # "starting" /\ call[s].at = "idle"
      /\ UNCHANGED <<q, slot, running, waiting_for_clean_depth_ts, sync_captures,
                     synchronized_images_only, depth_delay_off_color_usec, lock, control, seen>>
  BY DEF AddCapture, Streaming, config
<1>3. /\ Capture(s, ts) \in Captures /\ Capture(s, ts) # None
      /\ Capture(s, ts).sensor = s /\ Capture(s, ts).ts = ts /\ Capture(s, ts).merged = None
  BY CaptureType
<1>4. PICK c : c = Capture(s, ts)
  OBVIOUS
<1>5. /\ call'[s].at = "lock" /\ call'[s].capture = c /\ call'[s].wresult = "SUCCEEDED"
      /\ call'[s].todo = <<>>
      /\ \A u \in Sensors : u # s => call'[u] = call[u]
  BY <1>0, <1>1, <1>3, <1>4, BringingFacts DEF SyncTypes
<1>6. SyncTypes'
  <2>1. Bringing(c) \in CallRecord
    BY <1>3, <1>4, BringingFacts
  <2>2. call' \in [Sensors -> CallRecord]
    BY <1>0, <1>1, <1>4, <2>1 DEF SyncTypes, CallRecord
  <2>3. clock' \in [Sensors -> -1 .. MaxTs]
    <3>1. CASE ts = Unclean
      BY <1>0, <1>1, <3>1 DEF SyncTypes
    <3>2. CASE ts # Unclean
      <4>1. ts \in -1 .. MaxTs
        BY <1>1, <3>2, SyncAssumption
      <4> QED
        BY <1>0, <1>1, <3>2, <4>1 DEF SyncTypes
    <3> QED
      BY <3>1, <3>2
  <2> QED
    BY <1>0, <1>2, <2>2, <2>3 DEF SyncTypes, CallRecord
<1>7. Protocol'
  BY <1>0, <1>2, <1>3, <1>4, <1>5 DEF Protocol
<1>8. Contents'
  BY <1>0, <1>1, <1>2, <1>3, <1>4, <1>5 DEF Contents
<1>9. Stranded'
  <2>1. \A x \in Sensors : Refilling(x)' <=> Refilling(x)
    BY <1>2, <1>5 DEF Refilling
  <2> QED
    BY <1>0, <1>2, <1>5, <2>1 DEF Stranded, BothPending
<1> QED
  BY <1>6, <1>7, <1>8, <1>9 DEF SyncInv

LEMMA AddFailedKeeps ==
  ASSUME SyncInv, NEW s \in Sensors, AddFailed(s)
  PROVE  SyncInv'
<1>0. SyncTypes /\ Protocol /\ Contents /\ Stranded
  BY DEF SyncInv
<1>1. call' = [call EXCEPT ![s] = Failing]
  BY DEF AddFailed, Failing
<1>2. /\ control.at # "starting" /\ call[s].at = "idle"
      /\ UNCHANGED <<q, slot, running, waiting_for_clean_depth_ts, sync_captures,
                     synchronized_images_only, depth_delay_off_color_usec, lock, control, clock, seen>>
  BY DEF AddFailed, Streaming, config
<1>5. /\ call'[s].at = "failing" /\ call'[s].capture = None /\ call'[s].wresult = "SUCCEEDED"
      /\ call'[s].todo = <<"sync", "depth", "color">>
      /\ \A u \in Sensors : u # s => call'[u] = call[u]
  BY <1>0, <1>1, FailingFacts DEF SyncTypes
<1>6. SyncTypes'
  <2>1. Failing \in CallRecord
    BY FailingFacts
  <2>2. call' \in [Sensors -> CallRecord]
    BY <1>0, <1>1, <2>1 DEF SyncTypes, CallRecord
  <2> QED
    BY <1>0, <1>2, <2>2 DEF SyncTypes, CallRecord
<1>7. Protocol'
  <2>1. call'[s].todo \in ToStop /\ call'[s].todo # <<"color">>
    BY <1>5, TodoDistinct DEF ToStop
  <2> QED
    BY <1>0, <1>2, <1>5, <2>1 DEF Protocol
<1>8. Contents'
  BY <1>0, <1>1, <1>2, <1>5 DEF Contents
<1>9. Stranded'
  <2>1. \A x \in Sensors : Refilling(x)' <=> Refilling(x)
    BY <1>2, <1>5 DEF Refilling
  <2> QED
    BY <1>0, <1>2, <1>5, <2>1 DEF Stranded, BothPending
<1> QED
  BY <1>6, <1>7, <1>8, <1>9 DEF SyncInv

LEMMA IdleFacts ==
  /\ Idle \in CallRecord
  /\ Idle.at = "idle" /\ Idle.capture = None /\ Idle.wresult = "SUCCEEDED" /\ Idle.todo = <<>>
BY DEF Idle, CallRecord

LEMMA CallTypes ==
  ASSUME SyncTypes, NEW s \in Sensors
  PROVE  call \in [Sensors -> CallRecord] /\ call[s] \in CallRecord
BY DEF SyncTypes, CallRecord

(* What waits for the user after a capture has been pushed, or not.        *)
LEMMA SyncQueueFacts ==
  ASSUME SyncTypes, Contents, NEW c \in Captures, c.ts # Unclean,
         c.merged # None => c.sensor = "depth",
         NEW p, p = q["sync"] \/ p = Pushed("sync", c)
  PROVE  /\ p \in [on : BOOLEAN, items : Seq(Captures)]
         /\ p.on <=> q["sync"].on
         /\ Len(p.items) <= Capacity("sync")
         /\ ~p.on => p.items = <<>>
         /\ \A k \in DOMAIN p.items :
              (p.items[k].merged # None => p.items[k].sensor = "depth") /\ p.items[k].ts # Unclean
<1>0. "sync" \in Queues
  BY DEF Queues
<1>1. CASE p = q["sync"]
  BY <1>0, <1>1, QueueTypes DEF Contents
<1>2. CASE p = Pushed("sync", c)
  <2>1. /\ p \in [on : BOOLEAN, items : Seq(Captures)]
        /\ p.on <=> q["sync"].on
        /\ Len(p.items) <= Capacity("sync")
        /\ ~q["sync"].on => p = q["sync"]
    BY <1>0, <1>2, PushedFacts
  <2>2. ~q["sync"].on => q["sync"].items = <<>>
    BY <1>0 DEF Contents
  <2>3. \A k \in DOMAIN p.items :
          p.items[k] = c \/ \E l \in DOMAIN q["sync"].items : p.items[k] = q["sync"].items[l]
    BY <1>0, <1>2, PushedMembers
  <2> QED
    BY <2>1, <2>2, <2>3 DEF Contents
<1> QED
  BY <1>1, <1>2

(* The sensor's own queue after a push.                                    *)
LEMMA OwnQueueFacts ==
  ASSUME SyncTypes, Contents, NEW s \in Sensors, NEW c \in Captures,
         c.sensor = s, c.merged = None, c.ts # Unclean
  PROVE  LET p == Pushed(s, c)
         IN  /\ p \in [on : BOOLEAN, items : Seq(Captures)]
             /\ p.on <=> q[s].on
             /\ Len(p.items) <= Capacity(s)
             /\ ~p.on => p.items = <<>>
             /\ \A k \in DOMAIN p.items :
                  p.items[k].sensor = s /\ p.items[k].merged = None /\ p.items[k].ts # Unclean
<1>0. s \in Queues
  BY DEF Queues
<1> DEFINE p == Pushed(s, c)
<1>1. /\ p \in [on : BOOLEAN, items : Seq(Captures)]
      /\ p.on <=> q[s].on
      /\ Len(p.items) <= Capacity(s)
      /\ ~q[s].on => p = q[s]
  BY <1>0, PushedFacts
<1>2. ~q[s].on => q[s].items = <<>>
  BY <1>0 DEF Contents
<1>3. \A k \in DOMAIN p.items :
        p.items[k] = c \/ \E l \in DOMAIN q[s].items : p.items[k] = q[s].items[l]
  BY <1>0, PushedMembers
<1> HIDE DEF p
<1>4. \A k \in DOMAIN p.items :
        p.items[k].sensor = s /\ p.items[k].merged = None /\ p.items[k].ts # Unclean
  BY <1>3 DEF Contents
<1>5. ~p.on => p.items = <<>>
  BY <1>1, <1>2
<1> QED
  BY <1>1, <1>4, <1>5 DEF p

(* The capture a thread brings under the lock.                             *)
LEMMA Brought ==
  ASSUME SyncInv, NEW s \in Sensors, call[s].at \in {"lock", "match", "refill"}
  PROVE  LET c == call[s].capture
         IN  /\ c \in Captures /\ c # None /\ c.sensor = s /\ c.merged = None
             /\ c.ts = Unclean =>
                  call[s].at = "lock" /\ s = "depth" /\ waiting_for_clean_depth_ts /\ sync_captures
BY DEF SyncInv, SyncTypes, Protocol, Contents

LEMMA AddPassedKeeps ==
  ASSUME SyncInv, NEW s \in Sensors, AddPassed(s)
  PROVE  SyncInv'
<1>0. SyncTypes /\ Protocol /\ Contents /\ Stranded
  BY DEF SyncInv
<1> DEFINE c == call[s].capture
<1>1. /\ call[s].at = "lock" /\ lock = None
      /\ call' = [call EXCEPT ![s] = Idle]
      /\ \/ running /\ ~sync_captures /\ q' = [q EXCEPT !["sync"] = Pushed("sync", c)]
         \/ q' = q
      /\ UNCHANGED <<slot, running, waiting_for_clean_depth_ts, sync_captures,
                     synchronized_images_only, depth_delay_off_color_usec, lock, control, clock, seen>>
  BY DEF AddPassed, Returns, config
<1>2. c \in Captures /\ c.merged = None /\ (c.ts = Unclean => sync_captures)
  BY <1>1, Brought
<1>3. /\ call'[s].at = "idle" /\ call'[s].capture = None /\ call'[s].wresult = "SUCCEEDED"
      /\ call'[s].todo = <<>>
      /\ \A u \in Sensors : u # s => call'[u] = call[u]
  BY <1>0, <1>1, IdleFacts DEF SyncTypes
<1>4. call' \in [Sensors -> CallRecord]
  BY <1>0, <1>1, CallTypes, IdleFacts
<1> HIDE DEF c
<1>5. /\ q' \in [Queues -> [on : BOOLEAN, items : Seq(Captures)]]
      /\ q'["color"] = q["color"] /\ q'["depth"] = q["depth"]
      /\ Len(q'["sync"].items) <= Capacity("sync")
      /\ ~q'["sync"].on => q'["sync"].items = <<>>
      /\ \A k \in DOMAIN q'["sync"].items :
              (q'["sync"].items[k].merged # None => q'["sync"].items[k].sensor = "depth")
              /\ q'["sync"].items[k].ts # Unclean
      /\ q' = q \/ (running /\ ~sync_captures)
  <2>1. CASE q' = q
    BY <1>0, <2>1 DEF SyncTypes, Contents, Queues
  <2>2. CASE running /\ ~sync_captures /\ q' = [q EXCEPT !["sync"] = Pushed("sync", c)]
    <3>1. PICK p : p = Pushed("sync", c)
      OBVIOUS
    <3>2. /\ p \in [on : BOOLEAN, items : Seq(Captures)]
          /\ Len(p.items) <= Capacity("sync")
          /\ ~p.on => p.items = <<>>
          /\ \A k \in DOMAIN p.items :
               (p.items[k].merged # None => p.items[k].sensor = "depth") /\ p.items[k].ts # Unclean
      BY <1>0, <1>2, <2>2, <3>1, SyncQueueFacts
    <3>3. q' \in [Queues -> [on : BOOLEAN, items : Seq(Captures)]] /\ q'["sync"] = p
          /\ q'["color"] = q["color"] /\ q'["depth"] = q["depth"]
      BY <1>0, <2>2, <3>1, <3>2 DEF SyncTypes, Queues, Sensors
    <3> QED
      BY <2>2, <3>2, <3>3
  <2> QED
    BY <1>1, <2>1, <2>2
<1>6. SyncTypes'
  BY <1>0, <1>1, <1>4, <1>5 DEF SyncTypes, CallRecord
<1>7. Protocol'
  <2>1. None \notin Sensors /\ None # "control" /\ q'["color"] = q["color"] /\ q'["depth"] = q["depth"]
    BY <1>5, SyncAssumption
  <2> QED
    BY <1>0, <1>1, <1>3, <2>1 DEF Protocol
<1>8. Contents'
  BY <1>0, <1>1, <1>3, <1>5 DEF Contents, Queues, Sensors
<1>9. Stranded'
  <2>1. \A x \in Sensors : Refilling(x)' <=> Refilling(x)
    BY <1>1, <1>3 DEF Refilling
  <2>2. \A x \in Sensors : q'[x] = q[x]
    BY <1>5 DEF Sensors
  <2>3. CASE q' = q
    BY <1>0, <1>1, <1>3, <2>1, <2>3 DEF Stranded, BothPending
  <2>4. CASE running /\ ~sync_captures
    BY <1>0, <1>1, <1>3, <2>1, <2>2, <2>4 DEF Stranded, BothPending, Protocol
  <2> QED
    BY <1>5, <2>3, <2>4
<1> QED
  BY <1>6, <1>7, <1>8, <1>9 DEF SyncInv

LEMMA MatchEndsKeeps ==
  ASSUME SyncInv, NEW s \in Sensors, MatchEnds(s)
  PROVE  SyncInv'
<1>0. SyncTypes /\ Protocol /\ Contents /\ Stranded
  BY DEF SyncInv
<1>1. /\ call[s].at = "match" /\ (call[s].wresult # "SUCCEEDED" \/ ~BothPending)
      /\ call' = [call EXCEPT ![s] = Idle] /\ lock' = None
      /\ UNCHANGED <<q, slot, running, waiting_for_clean_depth_ts, sync_captures,
                     synchronized_images_only, depth_delay_off_color_usec, control, clock, seen>>
  BY DEF MatchEnds, Returns, Unlock, config
<1>2. lock = s /\ ~BothPending
  BY <1>0, <1>1 DEF Protocol, Stranded
<1>3. /\ call'[s].at = "idle" /\ call'[s].capture = None /\ call'[s].wresult = "SUCCEEDED"
      /\ call'[s].todo = <<>>
      /\ \A u \in Sensors : u # s => call'[u] = call[u]
  BY <1>0, <1>1, IdleFacts DEF SyncTypes
<1>4. call' \in [Sensors -> CallRecord]
  BY <1>0, <1>1, CallTypes, IdleFacts
<1>6. SyncTypes'
  BY <1>0, <1>1, <1>4 DEF SyncTypes, CallRecord
<1>7. Protocol'
  <2>1. None \notin Sensors /\ None # "control" /\ s # "control"
    BY SyncAssumption DEF Sensors
  <2> QED
    BY <1>0, <1>1, <1>2, <1>3, <2>1 DEF Protocol
<1>8. Contents'
  BY <1>0, <1>1, <1>3 DEF Contents
<1>9. Stranded'
  <2>1. \A x \in Sensors : Refilling(x)' <=> Refilling(x)
    BY <1>1, <1>3 DEF Refilling
  <2> QED
    BY <1>0, <1>1, <1>2, <1>3, <2>1 DEF Stranded, BothPending
<1> QED
  BY <1>6, <1>7, <1>8, <1>9 DEF SyncInv

(* The test of the depth clock refuses a timestamp from before the reset.  *)
LEMMA UncleanRefused == Unclean \div fps_period > 10
<1> DEFINE n == Unclean \div fps_period
<1>1. fps_period \in Nat \ {0} /\ MaxTs \in Nat /\ Unclean = MaxTs + 11 * fps_period
  BY SyncAssumption DEF Unclean
<1>2. Unclean \in Int /\ fps_period > 0
  BY <1>1
<1>3. n \in Int /\ n * fps_period <= Unclean /\ Unclean < n * fps_period + fps_period
  BY <1>1, <1>2
<1> HIDE DEF n
<1>4. n * fps_period > 10 * fps_period
  BY <1>1, <1>3
<1>5. n > 10
  BY <1>1, <1>3, <1>4
<1> QED
  BY <1>5 DEF n

(* The queues after a capture of sensor s has been stored.                 *)
LEMMA AddStoredFacts ==
  ASSUME SyncInv, NEW s \in Sensors, AddStored(s)
  PROVE  LET c == call[s].capture
         IN  /\ call[s].at = "lock" /\ lock = None /\ running /\ sync_captures
             /\ c \in Captures /\ c # None /\ c.sensor = s /\ c.merged = None /\ c.ts # Unclean
             /\ lock' = s
             /\ call' = [call EXCEPT ![s].at = "match"]
             /\ waiting_for_clean_depth_ts' = (waiting_for_clean_depth_ts /\ s = "color")
             /\ UNCHANGED <<running, sync_captures, synchronized_images_only,
                            depth_delay_off_color_usec, control, clock, seen>>
<1> DEFINE c == call[s].capture
<1>1. /\ call[s].at = "lock" /\ lock = None /\ running /\ sync_captures
      /\ (s = "depth" /\ waiting_for_clean_depth_ts) => c.ts \div fps_period <= 10
      /\ waiting_for_clean_depth_ts' = (waiting_for_clean_depth_ts /\ s = "color")
      /\ lock' = s
      /\ call' = [call EXCEPT ![s].at = "match"]
      /\ UNCHANGED <<running, sync_captures, synchronized_images_only,
                     depth_delay_off_color_usec, control, clock, seen>>
  BY DEF AddStored, config
<1>2. /\ c \in Captures /\ c # None /\ c.sensor = s /\ c.merged = None
      /\ c.ts = Unclean => s = "depth" /\ waiting_for_clean_depth_ts
  BY <1>1, Brought
<1>3. Unclean \div fps_period \in Int
  BY SyncAssumption, UncleanIsLater
<1>4. c.ts # Unclean
  <2> HIDE DEF c
  <2> QED
    BY <1>1, <1>2, <1>3, UncleanRefused
<1> QED
  BY <1>1, <1>2, <1>4

(* The three ways to store it.                                             *)
StoredInSlot(s, c) ==
  /\ slot[s] = None
  /\ slot' = [slot EXCEPT ![s] = c]
  /\ q' = q

StoredForOldest(s, c) ==
  /\ slot[s] # None /\ q[s].on /\ Full(s)
  /\ slot' = [slot EXCEPT ![s] = Head(q[s].items)]
  /\ q' = [q EXCEPT ![s] = Pushed(s, c), !["sync"] = SyncAfterDrop(slot[s])]

StoredInQueue(s, c) ==
  /\ slot[s] # None /\ ~(q[s].on /\ Full(s))
  /\ q' = [q EXCEPT ![s] = Pushed(s, c)]
  /\ slot' = slot

LEMMA StoreCases ==
  ASSUME NEW s \in Sensors, NEW c, Store(s, c)
  PROVE  StoredInSlot(s, c) \/ StoredForOldest(s, c) \/ StoredInQueue(s, c)
<1>1. CASE slot[s] = None
  BY <1>1 DEF Store, StoredInSlot
<1>2. CASE slot[s] # None /\ q[s].on /\ Full(s)
  BY <1>2 DEF Store, replace_sample, StoredForOldest
<1>3. CASE slot[s] # None /\ ~(q[s].on /\ Full(s))
  BY <1>3 DEF Store, StoredInQueue
<1> QED
  BY <1>1, <1>2, <1>3

(* The queues and slots keep their shape.                                  *)
LEMMA StoreKeepsContents ==
  ASSUME SyncInv, NEW s \in Sensors, NEW c \in Captures,
         c # None, c.sensor = s, c.merged = None, c.ts # Unclean,
         StoredInSlot(s, c) \/ StoredForOldest(s, c) \/ StoredInQueue(s, c)
  PROVE  /\ q' \in [Queues -> [on : BOOLEAN, items : Seq(Captures)]]
         /\ slot' \in [Sensors -> Captures \cup {None}]
         /\ \A n \in Queues : /\ q'[n].on <=> q[n].on
                              /\ Len(q'[n].items) <= Capacity(n)
                              /\ ~q'[n].on => q'[n].items = <<>>
         /\ \A x \in Sensors :
              /\ \A k \in DOMAIN q'[x].items :
                   q'[x].items[k].sensor = x /\ q'[x].items[k].merged = None /\ q'[x].items[k].ts # Unclean
              /\ slot'[x] # None => slot'[x].sensor = x /\ slot'[x].merged = None /\ slot'[x].ts # Unclean
              /\ x # s => q'[x] = q[x] /\ slot'[x] = slot[x]
         /\ slot'[s] # None
         /\ \A k \in DOMAIN q'["sync"].items :
              (q'["sync"].items[k].merged # None => q'["sync"].items[k].sensor = "depth")
              /\ q'["sync"].items[k].ts # Unclean
<1>0. SyncTypes /\ Contents /\ s \in Queues /\ "sync" \in Queues /\ s # "sync"
  BY DEF SyncInv, Queues, Sensors
<1>1. /\ q \in [Queues -> [on : BOOLEAN, items : Seq(Captures)]]
      /\ slot \in [Sensors -> Captures \cup {None}]
  BY <1>0 DEF SyncTypes
<1>2. \A x \in Sensors : x \in Queues
  BY DEF Queues
<1> DEFINE p == Pushed(s, c)
<1>3. /\ p \in [on : BOOLEAN, items : Seq(Captures)]
      /\ p.on <=> q[s].on
      /\ Len(p.items) <= Capacity(s)
      /\ ~p.on => p.items = <<>>
      /\ \A k \in DOMAIN p.items :
           p.items[k].sensor = s /\ p.items[k].merged = None /\ p.items[k].ts # Unclean
  BY <1>0, OwnQueueFacts
<1> HIDE DEF p
<1>4. CASE StoredInSlot(s, c)
  BY <1>0, <1>1, <1>2, <1>4 DEF StoredInSlot, Contents
<1>5. CASE StoredInQueue(s, c)
  <2>1. q' = [q EXCEPT ![s] = p] /\ slot' = slot /\ slot[s] # None
    BY <1>5 DEF StoredInQueue, p
  <2>2. q'[s] = p /\ \A n \in Queues : n # s => q'[n] = q[n]
    BY <1>0, <1>1, <2>1
  <2>3. q' \in [Queues -> [on : BOOLEAN, items : Seq(Captures)]]
    BY <1>1, <1>3, <2>1
  <2> QED
    BY <1>0, <1>1, <1>2, <1>3, <2>1, <2>2, <2>3 DEF Contents
<1>6. CASE StoredForOldest(s, c)
  <2>1. slot[s] \in Captures /\ slot[s].ts # Unclean /\ slot[s].merged = None /\ slot[s] # None
    BY <1>0, <1>1, <1>6 DEF StoredForOldest, Contents
  <2>2. PICK d : d = slot[s]
    OBVIOUS
  <2>3. PICK y : y = SyncAfterDrop(slot[s])
    OBVIOUS
  <2>4. /\ y \in [on : BOOLEAN, items : Seq(Captures)]
        /\ y.on <=> q["sync"].on
        /\ Len(y.items) <= Capacity("sync")
        /\ ~y.on => y.items = <<>>
        /\ \A k \in DOMAIN y.items :
             (y.items[k].merged # None => y.items[k].sensor = "depth") /\ y.items[k].ts # Unclean
    <3>1. y = q["sync"] \/ y = Pushed("sync", d)
      BY <2>2, <2>3 DEF SyncAfterDrop
    <3> QED
      BY <1>0, <2>1, <2>2, <3>1, SyncQueueFacts
  <2>5. q' = [q EXCEPT ![s] = p, !["sync"] = y] /\ slot' = [slot EXCEPT ![s] = Head(q[s].items)]
    BY <1>6, <2>3 DEF StoredForOldest, p
  <2>6. /\ q'[s] = p /\ q'["sync"] = y /\ \A n \in Queues : n # s /\ n # "sync" => q'[n] = q[n]
        /\ q' \in [Queues -> [on : BOOLEAN, items : Seq(Captures)]]
    BY <1>0, <1>1, <1>3, <2>4, <2>5
  <2>7. Head(q[s].items) \in Captures /\ Head(q[s].items) = q[s].items[1] /\ 1 \in DOMAIN q[s].items
    <3>1. q[s].items \in Seq(Captures) /\ Len(q[s].items) = Capacity(s) /\ Capacity(s) \in Nat \ {0}
      BY <1>0, <1>6, QueueTypes, CapacityType DEF StoredForOldest, Full
    <3>2. q[s].items # <<>>
      BY <3>1
    <3> QED
      BY <3>1, <3>2, TailFacts
  <2>8. Head(q[s].items) # None
    BY <2>7, SyncAssumption
  <2>9. /\ slot'[s] = q[s].items[1] /\ slot'[s] # None /\ \A x \in Sensors : x # s => slot'[x] = slot[x]
        /\ slot' \in [Sensors -> Captures \cup {None}]
    BY <1>1, <2>5, <2>7, <2>8
  <2>10. slot'[s].sensor = s /\ slot'[s].merged = None /\ slot'[s].ts # Unclean
    BY <1>0, <2>7, <2>9 DEF Contents
  <2>11. \A n \in Queues : /\ q'[n].on <=> q[n].on
                           /\ Len(q'[n].items) <= Capacity(n)
                           /\ ~q'[n].on => q'[n].items = <<>>
    <3> SUFFICES ASSUME NEW n \in Queues
                 PROVE  /\ q'[n].on <=> q[n].on
                        /\ Len(q'[n].items) <= Capacity(n)
                        /\ ~q'[n].on => q'[n].items = <<>>
      OBVIOUS
    <3>1. CASE n = s
      BY <1>3, <2>6, <3>1
    <3>2. CASE n = "sync"
      BY <2>4, <2>6, <3>2
    <3>3. CASE n # s /\ n # "sync"
      BY <1>0, <2>6, <3>3 DEF Contents
    <3> QED
      BY <3>1, <3>2, <3>3
  <2>12. \A x \in Sensors : x # s => x # "sync" /\ q'[x] = q[x]
    BY <1>2, <2>6 DEF Sensors
  <2> QED
    BY <1>0, <1>3, <2>4, <2>6, <2>9, <2>10, <2>11, <2>12 DEF Contents
<1> QED
  BY <1>4, <1>5, <1>6

LEMMA AddStoredKeeps ==
  ASSUME SyncInv, NEW s \in Sensors, AddStored(s)
  PROVE  SyncInv'
<1>0. SyncTypes /\ Protocol /\ Contents /\ Stranded
  BY DEF SyncInv
<1> DEFINE c == call[s].capture
<1>1. /\ call[s].at = "lock" /\ lock = None /\ running /\ sync_captures
      /\ c \in Captures /\ c # None /\ c.sensor = s /\ c.merged = None /\ c.ts # Unclean
      /\ lock' = s
      /\ call' = [call EXCEPT ![s].at = "match"]
      /\ waiting_for_clean_depth_ts' = (waiting_for_clean_depth_ts /\ s = "color")
      /\ UNCHANGED <<running, sync_captures, synchronized_images_only,
                     depth_delay_off_color_usec, control, clock, seen>>
  BY AddStoredFacts
<1>2. StoredInSlot(s, c) \/ StoredForOldest(s, c) \/ StoredInQueue(s, c)
  BY StoreCases DEF AddStored
<1>3. call[s] \in CallRecord /\ call \in [Sensors -> CallRecord]
  BY <1>0, CallTypes
<1>4. /\ call'[s].at = "match" /\ call'[s].capture = c /\ call'[s].wresult = call[s].wresult
      /\ call'[s].todo = call[s].todo
      /\ \A u \in Sensors : u # s => call'[u] = call[u]
      /\ call' \in [Sensors -> CallRecord]
  BY <1>1, <1>3 DEF CallRecord
<1> HIDE DEF c
<1>5. /\ q' \in [Queues -> [on : BOOLEAN, items : Seq(Captures)]]
      /\ slot' \in [Sensors -> Captures \cup {None}]
      /\ \A n \in Queues : /\ q'[n].on <=> q[n].on
                           /\ Len(q'[n].items) <= Capacity(n)
                           /\ ~q'[n].on => q'[n].items = <<>>
      /\ \A x \in Sensors :
           /\ \A k \in DOMAIN q'[x].items :
                q'[x].items[k].sensor = x /\ q'[x].items[k].merged = None /\ q'[x].items[k].ts # Unclean
           /\ slot'[x] # None => slot'[x].sensor = x /\ slot'[x].merged = None /\ slot'[x].ts # Unclean
           /\ x # s => q'[x] = q[x] /\ slot'[x] = slot[x]
      /\ slot'[s] # None
      /\ \A k \in DOMAIN q'["sync"].items :
           (q'["sync"].items[k].merged # None => q'["sync"].items[k].sensor = "depth")
           /\ q'["sync"].items[k].ts # Unclean
  BY <1>1, <1>2, StoreKeepsContents
<1>6. SyncTypes'
  <2>1. waiting_for_clean_depth_ts' \in BOOLEAN
    BY <1>1
  <2> QED
    BY <1>0, <1>1, <1>4, <1>5, <2>1 DEF SyncTypes, CallRecord
<1>7. Protocol'
  <2>1. /\ None \notin Sensors /\ None # "control" /\ s # "control"
        /\ q'["color"].on <=> q["color"].on
        /\ q'["depth"].on <=> q["depth"].on
    BY <1>5, SyncAssumption DEF Sensors, Queues
  <2>2. control'.at = control.at /\ control'.todo = control.todo /\ control.at # "stopping"
        /\ control.at # "starting"
    BY <1>0, <1>1, <2>1 DEF Protocol
  <2>3. \A u \in Sensors : call[u].at \notin {"match", "refill"}
    BY <1>0, <1>1, <2>1 DEF Protocol
  <2>4. \A u \in Sensors : /\ call'[u].at \in {"match", "refill"} <=> lock' = u
                           /\ call'[u].at \in {"lock", "match", "refill"} <=> call'[u].capture # None
    BY <1>0, <1>1, <1>4, <2>3 DEF Protocol
  <2> QED
    BY <1>0, <1>1, <1>4, <2>1, <2>2, <2>3, <2>4 DEF Protocol
<1>8. Contents'
  <2>1. \A u \in Sensors : call'[u].capture # None =>
            /\ call'[u].capture.sensor = u /\ call'[u].capture.merged = None
            /\ call'[u].capture.ts = Unclean =>
                 call'[u].at = "lock" /\ u = "depth" /\ waiting_for_clean_depth_ts' /\ sync_captures'
    <3> SUFFICES ASSUME NEW u \in Sensors, call'[u].capture # None
                 PROVE  /\ call'[u].capture.sensor = u /\ call'[u].capture.merged = None
                        /\ call'[u].capture.ts = Unclean =>
                             call'[u].at = "lock" /\ u = "depth" /\ waiting_for_clean_depth_ts' /\ sync_captures'
      OBVIOUS
    <3>1. CASE u = s
      BY <1>1, <1>4, <3>1
    <3>2. CASE u # s
      BY <1>0, <1>1, <1>4, <3>2, ZenonT(40) DEF Contents, Sensors
    <3> QED
      BY <3>1, <3>2
  <2> QED
    BY <1>5, <2>1 DEF Contents
<1>9. Stranded'
  <2>0. None \notin Sensors
    BY SyncAssumption
  <2>1. \A x \in Sensors : ~Refilling(x) /\ ~Refilling(x)'
    BY <1>0, <1>1, <1>4, <2>0 DEF Refilling, Protocol
  <2>2. \A x \in Sensors : slot'[x] = None => q'[x].items = <<>>
    BY <1>0, <1>5, <2>1 DEF Stranded
  <2>3. \A u \in Sensors : call'[u].at = "match" => call'[u].wresult = "SUCCEEDED"
    BY <1>0, <1>1, <1>4, <2>0 DEF Protocol
  <2>4. lock' \in Sensors /\ control'.at # "stopping" /\ running' /\ sync_captures'
    BY <1>0, <1>1 DEF Protocol
  <2> QED
    BY <2>1, <2>2, <2>3, <2>4 DEF Stranded
<1> QED
  BY <1>6, <1>7, <1>8, <1>9 DEF SyncInv

LEMMA JudgementType ==
  ASSUME NEW x, NEW y
  PROVE  Judgement(x, y) \in Sensors \cup {"merge"}
BY DEF Judgement, Sensors

(* A thread that judges, or refills, is alone with the slots.              *)
LEMMA Alone ==
  ASSUME SyncInv, NEW s \in Sensors, call[s].at \in {"match", "refill"}
  PROVE  /\ lock = s /\ running /\ sync_captures /\ control.at = "idle"
         /\ \A u \in Sensors : u # s => call[u].at \notin {"match", "refill"}
         /\ \A x \in Sensors : Refilling(x) <=>
              call[s].at = "refill" /\ \E k \in DOMAIN call[s].todo : call[s].todo[k] = x
<1>1. /\ lock = s /\ running /\ sync_captures
      /\ \A u \in Sensors : u # s => call[u].at \notin {"match", "refill"}
  BY DEF SyncInv, Protocol
<1>2. control.at \in {"idle", "starting", "stopping"}
  BY DEF SyncInv, SyncTypes
<1>3. control.at # "stopping"
  BY <1>1 DEF SyncInv, Protocol, Sensors
<1>4. control.at # "starting"
  BY <1>1 DEF SyncInv, Protocol
<1> QED
  BY <1>1, <1>2, <1>3, <1>4 DEF Refilling

(* Both slots hold captures of their sensors.                              *)
LEMMA Pending ==
  ASSUME SyncInv, BothPending, NEW x \in Sensors
  PROVE  /\ slot[x] \in Captures /\ slot[x] # None /\ slot[x].sensor = x
         /\ slot[x].merged = None /\ slot[x].ts # Unclean
         /\ slot[x].ts \in 0 .. MaxTs /\ slot[x].ts \in Int
<1>1. slot[x] # None
  BY DEF BothPending, Sensors
<1>2. slot[x] \in Captures /\ slot[x].sensor = x /\ slot[x].merged = None /\ slot[x].ts # Unclean
  BY <1>1 DEF SyncInv, SyncTypes, Contents
<1>3. slot[x].ts \in 0 .. MaxTs
  BY <1>2 DEF Captures
<1> QED
  BY <1>1, <1>2, <1>3, SyncAssumption

LEMMA MergeFacts ==
  ASSUME SyncInv, BothPending
  PROVE  LET pair == merge_captures(slot["depth"], slot["color"])
         IN  /\ pair \in Captures /\ pair.sensor = "depth" /\ pair.ts = slot["depth"].ts
             /\ pair.ts # Unclean /\ pair.merged = slot["color"].ts
             /\ pair.merged \in 0 .. MaxTs /\ pair.merged # None
             /\ Id(pair) = Id(slot["depth"])
<1>1. "color" \in Sensors /\ "depth" \in Sensors
  BY DEF Sensors
<1>2. PICK d : d = slot["depth"]
  OBVIOUS
<1>3. PICK t : t = slot["color"].ts
  OBVIOUS
<1>4. d \in Captures /\ d.sensor = "depth" /\ d.ts # Unclean /\ t \in 0 .. MaxTs
  BY <1>1, <1>2, <1>3, Pending
<1>5. t # None
  BY <1>4, SyncAssumption
<1>6. PICK p : p = [d EXCEPT !.merged = t]
  OBVIOUS
<1>7. p \in Captures /\ p.sensor = "depth" /\ p.ts = d.ts /\ p.merged = t
  BY <1>4, <1>6 DEF Captures
<1>8. p = merge_captures(slot["depth"], slot["color"])
  BY <1>2, <1>3, <1>6 DEF merge_captures
<1>9. Id(p) = Id(d)
  BY <1>4, <1>7 DEF Id
<1> QED
  BY <1>2, <1>3, <1>4, <1>5, <1>7, <1>8, <1>9

(* What a drop or a merge does: the user's queue has one capture more, or  *)
(* not, and the slots in names are empty and about to be refilled.          *)
GivesUp(s, c, p, names) ==
  /\ call[s].at = "match" /\ call[s].wresult = "SUCCEEDED" /\ BothPending
  /\ c \in Captures /\ c.ts # Unclean /\ (c.merged # None => c.sensor = "depth")
  /\ p = q["sync"] \/ p = Pushed("sync", c)
  /\ names \in ToRefill
  /\ q' = [q EXCEPT !["sync"] = p]
  /\ call' = [call EXCEPT ![s].at = "refill", ![s].todo = names]
  /\ slot' \in [Sensors -> Captures \cup {None}]
  /\ \A x \in Sensors : slot'[x] = IF \E k \in DOMAIN names : names[k] = x THEN None ELSE slot[x]
  /\ UNCHANGED <<running, waiting_for_clean_depth_ts, sync_captures,
                 synchronized_images_only, depth_delay_off_color_usec, lock, control, clock, seen>>

LEMMA GivesUpKeeps ==
  ASSUME SyncInv, NEW s \in Sensors, NEW c, NEW p, NEW names, GivesUp(s, c, p, names)
  PROVE  SyncInv'
<1>0. SyncTypes /\ Protocol /\ Contents /\ Stranded
  BY DEF SyncInv
<1>1. /\ lock = s /\ running /\ sync_captures /\ control.at = "idle"
      /\ \A u \in Sensors : u # s => call[u].at \notin {"match", "refill"}
      /\ \A x \in Sensors : ~Refilling(x)
  BY Alone DEF GivesUp
<1>10. /\ slot' \in [Sensors -> Captures \cup {None}]
       /\ \A x \in Sensors : slot'[x] = IF \E k \in DOMAIN names : names[k] = x THEN None ELSE slot[x]
       /\ call[s].at = "match" /\ call[s].wresult = "SUCCEEDED" /\ BothPending /\ names \in ToRefill
  BY DEF GivesUp
<1>11. UNCHANGED <<running, waiting_for_clean_depth_ts, sync_captures,
                   synchronized_images_only, depth_delay_off_color_usec, lock, control, clock, seen>>
  BY DEF GivesUp
<1>2. call[s] \in CallRecord /\ call \in [Sensors -> CallRecord]
  BY <1>0, CallTypes
<1>3. /\ call'[s].at = "refill" /\ call'[s].capture = call[s].capture
      /\ call'[s].wresult = call[s].wresult /\ call'[s].todo = names
      /\ \A u \in Sensors : u # s => call'[u] = call[u]
      /\ call' \in [Sensors -> CallRecord]
  BY <1>2 DEF CallRecord, GivesUp
<1>4. /\ p \in [on : BOOLEAN, items : Seq(Captures)]
      /\ Len(p.items) <= Capacity("sync")
      /\ ~p.on => p.items = <<>>
      /\ \A k \in DOMAIN p.items :
           (p.items[k].merged # None => p.items[k].sensor = "depth") /\ p.items[k].ts # Unclean
  BY <1>0, SyncQueueFacts DEF GivesUp
<1>5. /\ q' \in [Queues -> [on : BOOLEAN, items : Seq(Captures)]]
      /\ q'["sync"] = p /\ q'["color"] = q["color"] /\ q'["depth"] = q["depth"]
  BY <1>0, <1>4 DEF SyncTypes, Queues, Sensors, GivesUp
<1>6. SyncTypes'
  BY <1>0, <1>10, <1>11, <1>3, <1>5 DEF SyncTypes, CallRecord
<1>7. Protocol'
  <2>1. control'.at = "idle" /\ running' /\ sync_captures' /\ q'["color"] = q["color"] /\ q'["depth"] = q["depth"]
    BY <1>10, <1>11, <1>1, <1>5
  <2>2. \A u \in Sensors :
       /\ call'[u].at \in {"match", "refill"} <=> lock' = u
       /\ call'[u].at \in {"lock", "match", "refill"} <=> call'[u].capture # None
       /\ call'[u].at = "refill" => call'[u].todo \in ToRefill
       /\ call'[u].at = "refill" /\ call'[u].todo # <<"depth">> => call'[u].wresult = "SUCCEEDED"
       /\ call'[u].at = "failing" => call'[u].todo \in ToStop
       /\ call'[u].at \in {"idle", "lock"} => call'[u].wresult = "SUCCEEDED"
       /\ call'[u].wresult = "FAILED" => ~q["depth"].on
       /\ call'[u].at = "failing" /\ call'[u].todo = <<"color">> => ~q["depth"].on
    <3> SUFFICES ASSUME NEW u \in Sensors
                 PROVE
       /\ call'[u].at \in {"match", "refill"} <=> lock' = u
       /\ call'[u].at \in {"lock", "match", "refill"} <=> call'[u].capture # None
       /\ call'[u].at = "refill" => call'[u].todo \in ToRefill
       /\ call'[u].at = "refill" /\ call'[u].todo # <<"depth">> => call'[u].wresult = "SUCCEEDED"
       /\ call'[u].at = "failing" => call'[u].todo \in ToStop
       /\ call'[u].at \in {"idle", "lock"} => call'[u].wresult = "SUCCEEDED"
       /\ call'[u].wresult = "FAILED" => ~q["depth"].on
       /\ call'[u].at = "failing" /\ call'[u].todo = <<"color">> => ~q["depth"].on
      OBVIOUS
    <3>1. CASE u = s
      BY <1>0, <1>10, <1>11, <1>1, <1>3, <3>1 DEF Protocol
    <3>2. CASE u # s
      BY <1>0, <1>10, <1>11, <1>1, <1>3, <3>2 DEF Protocol
    <3> QED
      BY <3>1, <3>2
  <2>3. lock # "control"
    BY <1>1 DEF Sensors
  <2>4. ~q["color"].on => ~q["depth"].on
    BY <1>0, <1>1 DEF Protocol
  <2>5. lock' # "control" /\ (~q'["color"].on => ~q'["depth"].on)
    BY <1>10, <1>11, <2>1, <2>3, <2>4
  <2>6. \A u \in Sensors :
       /\ call'[u].wresult = "FAILED" => ~q'["depth"].on
       /\ call'[u].at = "failing" /\ call'[u].todo = <<"color">> => ~q'["depth"].on
    BY <2>1, <2>2
  <2> QED
    BY <2>1, <2>2, <2>5, <2>6 DEF Protocol
<1>8. Contents'
  <2>1. \A n \in Queues : /\ Len(q'[n].items) <= Capacity(n)
                          /\ ~q'[n].on => q'[n].items = <<>>
    BY <1>0, <1>4, <1>5 DEF Contents, Queues, Sensors
  <2>2. \A x \in Sensors : slot'[x] # None => slot'[x] = slot[x]
    BY <1>10
  <2>6. \A x \in Sensors : q'[x] = q[x]
    BY <1>5 DEF Sensors
  <2>7. \A x \in Sensors : /\ call'[x].capture = call[x].capture
                           /\ call[x].at = "lock" => call'[x].at = "lock"
    BY <1>3, <1>10
  <2>3. \A x \in Sensors :
       /\ \A k \in DOMAIN q'[x].items :
            q'[x].items[k].sensor = x /\ q'[x].items[k].merged = None /\ q'[x].items[k].ts # Unclean
       /\ slot'[x] # None => slot'[x].sensor = x /\ slot'[x].merged = None /\ slot'[x].ts # Unclean
    BY <1>0, <1>10, <1>11, <2>2, <2>6, <2>7 DEF Contents
  <2>4. \A x \in Sensors : call'[x].capture # None =>
            /\ call'[x].capture.sensor = x /\ call'[x].capture.merged = None
            /\ call'[x].capture.ts = Unclean =>
                 call'[x].at = "lock" /\ x = "depth" /\ waiting_for_clean_depth_ts' /\ sync_captures'
    BY <1>0, <1>10, <1>11, <2>2, <2>6, <2>7 DEF Contents
  <2>5. \A k \in DOMAIN q'["sync"].items :
          /\ q'["sync"].items[k].merged # None => q'["sync"].items[k].sensor = "depth"
          /\ q'["sync"].items[k].ts # Unclean
    BY <1>4, <1>5
  <2> QED
    BY <2>1, <2>3, <2>4, <2>5 DEF Contents
<1>9. Stranded'
  <2>1. \A x \in Sensors : Refilling(x)' <=> \E k \in DOMAIN names : names[k] = x
    BY <1>1, <1>3 DEF Refilling
  <2>2. \A x \in Sensors : q'[x] = q[x]
    BY <1>5 DEF Sensors
  <2>3. lock' \in Sensors /\ running' /\ sync_captures' /\ control'.at # "stopping"
    BY <1>10, <1>11, <1>1
  <2>4. \A u \in Sensors : call'[u].at # "match"
    BY <1>1, <1>3
  <2>5. \A x \in Sensors : /\ Refilling(x)' => slot'[x] = None
                           /\ ~Refilling(x)' /\ slot'[x] = None => q'[x].items = <<>>
    BY <1>0, <1>10, <1>11, <1>1, <2>1, <2>2 DEF Stranded
  <2>6. ~running' /\ control'.at # "stopping" =>
          /\ \A n \in Queues : q'[n].items = <<>>
          /\ \A u \in Sensors : slot'[u] = None
    BY <2>3
  <2>7. control'.at = "stopping" =>
          \A n \in Queues : ~q'[n].on \/ \E k \in DOMAIN control'.todo : control'.todo[k] = n
    BY <2>3
  <2>8. \A x \in Sensors : ~sync_captures' => slot'[x] = None /\ q'[x].items = <<>>
    BY <2>3
  <2>9. \A u \in Sensors : call'[u].at = "match" /\ call'[u].wresult # "SUCCEEDED" => ~BothPending'
    BY <2>4
  <2> QED
    BY <2>3, <2>5, <2>6, <2>7, <2>8, <2>9 DEF Stranded
<1> QED
  BY <1>6, <1>7, <1>8, <1>9 DEF SyncInv

LEMMA MatchDropsKeeps ==
  ASSUME SyncInv, NEW s \in Sensors, MatchDrops(s)
  PROVE  SyncInv'
<1>1. PICK which : which = Judgement(slot["color"].ts, slot["depth"].ts)
  OBVIOUS
<1>2. /\ call[s].at = "match" /\ call[s].wresult = "SUCCEEDED" /\ BothPending /\ which # "merge"
      /\ q' = [q EXCEPT !["sync"] = SyncAfterDrop(slot[which])]
      /\ slot' = [slot EXCEPT ![which] = None]
      /\ call' = [call EXCEPT ![s].at = "refill", ![s].todo = <<which>>]
      /\ UNCHANGED <<running, waiting_for_clean_depth_ts, sync_captures,
                     synchronized_images_only, depth_delay_off_color_usec, lock, control, clock, seen>>
  BY <1>1 DEF MatchDrops, config
<1>3. which \in Sensors
  BY <1>1, <1>2, JudgementType
<1>4. PICK c : c = slot[which]
  OBVIOUS
<1>5. c \in Captures /\ c.ts # Unclean /\ c.merged = None
  BY <1>2, <1>3, <1>4, Pending
<1>6. PICK p : p = SyncAfterDrop(c)
  OBVIOUS
<1>7. p = q["sync"] \/ p = Pushed("sync", c)
  BY <1>6 DEF SyncAfterDrop
<1>8. PICK names : names = <<which>>
  OBVIOUS
<1>9. names \in ToRefill /\ \A x : (\E k \in DOMAIN names : names[k] = x) <=> x = which
  BY <1>3, <1>8, TodoNames DEF ToRefill, Sensors
<1>10. /\ slot' \in [Sensors -> Captures \cup {None}]
       /\ \A x \in Sensors : slot'[x] = IF x = which THEN None ELSE slot[x]
  BY <1>2, <1>3 DEF SyncInv, SyncTypes
<1> QED
  <2>1. \A x \in Sensors : slot'[x] = IF \E k \in DOMAIN names : names[k] = x THEN None ELSE slot[x]
    BY <1>9, <1>10
  <2>2. q' = [q EXCEPT !["sync"] = p]
    BY <1>2, <1>4, <1>6
  <2>3. call' = [call EXCEPT ![s].at = "refill", ![s].todo = names]
    BY <1>2, <1>8
  <2>4. /\ running' = running /\ waiting_for_clean_depth_ts' = waiting_for_clean_depth_ts
        /\ sync_captures' = sync_captures /\ synchronized_images_only' = synchronized_images_only
        /\ depth_delay_off_color_usec' = depth_delay_off_color_usec
        /\ lock' = lock /\ control' = control /\ clock' = clock /\ seen' = seen
    BY <1>2
  <2>5. GivesUp(s, c, p, names)
    BY <1>2, <1>5, <1>7, <1>9, <1>10, <2>1, <2>2, <2>3, <2>4 DEF GivesUp
  <2> QED
    BY <2>5, GivesUpKeeps

LEMMA MatchMergesKeeps ==
  ASSUME SyncInv, NEW s \in Sensors, MatchMerges(s)
  PROVE  SyncInv'
<1>1. PICK c : c = merge_captures(slot["depth"], slot["color"])
  OBVIOUS
<1>2. /\ call[s].at = "match" /\ call[s].wresult = "SUCCEEDED" /\ BothPending
      /\ q' = [q EXCEPT !["sync"] = Pushed("sync", c)]
      /\ slot' = [x \in Sensors |-> None]
      /\ call' = [call EXCEPT ![s].at = "refill", ![s].todo = <<"color", "depth">>]
      /\ UNCHANGED <<running, waiting_for_clean_depth_ts, sync_captures,
                     synchronized_images_only, depth_delay_off_color_usec, lock, control, clock, seen>>
  BY <1>1 DEF MatchMerges, config
<1>5. c \in Captures /\ c.ts # Unclean /\ c.sensor = "depth"
  BY <1>1, <1>2, MergeFacts
<1>6. PICK p : p = Pushed("sync", c)
  OBVIOUS
<1>8. PICK names : names = <<"color", "depth">>
  OBVIOUS
<1>9. names \in ToRefill /\ \A x \in Sensors : \E k \in DOMAIN names : names[k] = x
  BY <1>8, TodoNames DEF ToRefill, Sensors
<1>10. /\ slot' \in [Sensors -> Captures \cup {None}]
       /\ \A x \in Sensors : slot'[x] = IF \E k \in DOMAIN names : names[k] = x THEN None ELSE slot[x]
  BY <1>2, <1>9
<1> QED
  <2>2. q' = [q EXCEPT !["sync"] = p]
    BY <1>2, <1>6
  <2>3. call' = [call EXCEPT ![s].at = "refill", ![s].todo = names]
    BY <1>2, <1>8
  <2>4. /\ running' = running /\ waiting_for_clean_depth_ts' = waiting_for_clean_depth_ts
        /\ sync_captures' = sync_captures /\ synchronized_images_only' = synchronized_images_only
        /\ depth_delay_off_color_usec' = depth_delay_off_color_usec
        /\ lock' = lock /\ control' = control /\ clock' = clock /\ seen' = seen
    BY <1>2
  <2>5. GivesUp(s, c, p, names)
    BY <1>2, <1>5, <1>6, <1>9, <1>10, <2>2, <2>3, <2>4 DEF GivesUp
  <2> QED
    BY <2>5, GivesUpKeeps

(* The head of what is to be refilled, and the rest.                       *)
LEMMA RefillNames ==
  ASSUME NEW names \in ToRefill
  PROVE  /\ Head(names) \in Sensors
         /\ Tail(names) \in ToRefill \cup {<<>>}
         /\ Tail(names) # <<>> => Tail(names) \in ToRefill /\ Head(names) = "color"
                                   /\ Tail(names) = <<"depth">>
         /\ names = <<"depth">> => Head(names) = "depth"
         /\ names # <<"depth">> => Head(names) = "color"
         /\ ~ \E k \in DOMAIN Tail(names) : Tail(names)[k] = Head(names)
         /\ \A x : (\E k \in DOMAIN names : names[k] = x)
                     <=> x = Head(names) \/ \E k \in DOMAIN Tail(names) : Tail(names)[k] = x
<1>0. \A x : ~ \E k \in DOMAIN <<>> : <<>>[k] = x
  OBVIOUS
<1>1. CASE names = <<"color">>
  BY <1>0, <1>1, Todo, TodoNames, TodoDistinct DEF ToRefill, Sensors
<1>2. CASE names = <<"depth">>
  BY <1>0, <1>2, Todo, TodoNames, TodoDistinct DEF ToRefill, Sensors
<1>3. CASE names = <<"color", "depth">>
  <2>1. Head(names) = "color" /\ Tail(names) = <<"depth">> /\ <<"depth">> # <<>>
    BY <1>3, Todo, TodoDistinct
  <2>2. names # <<"depth">>
    BY <1>3
  <2> QED
    BY <1>3, <2>1, <2>2, TodoNames DEF ToRefill, Sensors
<1> QED
  BY <1>1, <1>2, <1>3 DEF ToRefill

(* What a refill does to the queue and the slot of the sensor.             *)
Refills(s, which, rest) ==
  /\ call[s].at = "refill" /\ call[s].todo \in ToRefill
  /\ which = Head(call[s].todo) /\ rest = Tail(call[s].todo)
  /\ \/ /\ call[s].wresult # "FAILED" /\ q[which].on /\ q[which].items # <<>>
        /\ slot' = [slot EXCEPT ![which] = Head(q[which].items)]
        /\ q' = [q EXCEPT ![which].items = Tail(@)]
        /\ call'[s].wresult = "SUCCEEDED"
     \/ /\ call[s].wresult = "FAILED" \/ ~q[which].on \/ q[which].items = <<>>
        /\ slot' = [slot EXCEPT ![which] = None]
        /\ q' = q
        /\ call'[s].wresult \in {"TIMEOUT", "FAILED"}
        /\ call'[s].wresult = "FAILED" => call[s].wresult = "FAILED" \/ ~q[which].on
  /\ call'[s].capture = call[s].capture /\ call'[s].todo = rest
  /\ call'[s].at = IF rest = <<>> THEN "match" ELSE "refill"
  /\ \A u \in Sensors : u # s => call'[u] = call[u]
  /\ call' \in [Sensors -> CallRecord]

LEMMA RefillFacts ==
  ASSUME SyncInv, NEW s \in Sensors, Refill(s)
  PROVE  /\ Refills(s, Head(call[s].todo), Tail(call[s].todo))
         /\ UNCHANGED <<running, waiting_for_clean_depth_ts, sync_captures,
                        synchronized_images_only, depth_delay_off_color_usec, lock, control, clock, seen>>
<1>1. PICK which : which = Head(call[s].todo)
  OBVIOUS
<1>2. PICK rest : rest = Tail(call[s].todo)
  OBVIOUS
<1>3. call[s] \in CallRecord /\ call \in [Sensors -> CallRecord] /\ SyncTypes
  BY CallTypes DEF SyncInv
<1>4. call[s].at = "refill" /\ call[s].todo \in ToRefill
  BY DEF Refill, SyncInv, Protocol
<1>5. rest \in ToRefill \cup {<<>>}
  BY <1>2, <1>4, RefillNames
<1> DEFINE popped == call[s].wresult # "FAILED" /\ q[which].on /\ q[which].items # <<>>
           wresult == IF call[s].wresult = "FAILED" THEN call[s].wresult
                      ELSE IF popped THEN "SUCCEEDED"
                      ELSE IF q[which].on THEN "TIMEOUT" ELSE "FAILED"
           at == IF rest = <<>> THEN "match" ELSE "refill"
<1>6. /\ slot' = [slot EXCEPT ![which] = IF popped THEN Head(q[which].items) ELSE None]
      /\ q' = IF popped THEN [q EXCEPT ![which].items = Tail(@)] ELSE q
      /\ call' = [call EXCEPT ![s].wresult = wresult, ![s].todo = rest, ![s].at = at]
      /\ UNCHANGED <<running, waiting_for_clean_depth_ts, sync_captures,
                     synchronized_images_only, depth_delay_off_color_usec, lock, control, clock, seen>>
  BY <1>1, <1>2 DEF Refill, MayPop, config
<1>7. wresult \in {"SUCCEEDED", "TIMEOUT", "FAILED"} /\ at \in {"match", "refill"}
  BY <1>3 DEF CallRecord
<1>8. /\ popped => wresult = "SUCCEEDED"
      /\ ~popped => wresult \in {"TIMEOUT", "FAILED"} /\ (wresult = "FAILED" => call[s].wresult = "FAILED" \/ ~q[which].on)
  BY <1>3 DEF CallRecord
<1> HIDE DEF wresult, at
<1>9. /\ call'[s].wresult = wresult /\ call'[s].todo = rest /\ call'[s].at = at
      /\ call'[s].capture = call[s].capture
      /\ \A u \in Sensors : u # s => call'[u] = call[u]
      /\ call' \in [Sensors -> CallRecord]
  BY <1>3, <1>5, <1>6, <1>7 DEF CallRecord
<1>10. CASE popped
  BY <1>1, <1>2, <1>4, <1>6, <1>8, <1>9, <1>10 DEF Refills, at
<1>11. CASE ~popped
  <2>1. slot' = [slot EXCEPT ![which] = None] /\ q' = q
    BY <1>6, <1>11
  <2> QED
    BY <1>1, <1>2, <1>4, <1>6, <1>8, <1>9, <1>11, <2>1 DEF Refills, at
<1> QED
  BY <1>10, <1>11

(* The queues and slots after a refill.                                    *)
LEMMA RefillContents ==
  ASSUME SyncInv, NEW s \in Sensors, NEW which \in Sensors, NEW rest, Refills(s, which, rest)
  PROVE  /\ q' \in [Queues -> [on : BOOLEAN, items : Seq(Captures)]]
         /\ slot' \in [Sensors -> Captures \cup {None}]
         /\ \A n \in Queues : /\ q'[n].on <=> q[n].on
                              /\ Len(q'[n].items) <= Capacity(n)
                              /\ ~q'[n].on => q'[n].items = <<>>
                              /\ n # which => q'[n] = q[n]
         /\ \A x \in Sensors :
              /\ \A k \in DOMAIN q'[x].items :
                   q'[x].items[k].sensor = x /\ q'[x].items[k].merged = None /\ q'[x].items[k].ts # Unclean
              /\ slot'[x] # None => slot'[x].sensor = x /\ slot'[x].merged = None /\ slot'[x].ts # Unclean
              /\ x # which => slot'[x] = slot[x]
         /\ call'[s].wresult # "SUCCEEDED" => slot'[which] = None
         /\ slot'[which] = None => q'[which].items = <<>>
<1>0. SyncTypes /\ Protocol /\ Contents /\ which \in Queues
  BY DEF SyncInv, Queues
<1>1. /\ q \in [Queues -> [on : BOOLEAN, items : Seq(Captures)]]
      /\ slot \in [Sensors -> Captures \cup {None}]
      /\ \A n \in Queues : /\ Len(q[n].items) <= Capacity(n)
                           /\ ~q[n].on => q[n].items = <<>>
      /\ \A x \in Sensors :
           /\ \A k \in DOMAIN q[x].items :
                q[x].items[k].sensor = x /\ q[x].items[k].merged = None /\ q[x].items[k].ts # Unclean
           /\ slot[x] # None => slot[x].sensor = x /\ slot[x].merged = None /\ slot[x].ts # Unclean
  BY <1>0 DEF SyncTypes, Contents
<1>2. \A x \in Sensors : x \in Queues
  BY DEF Queues
<1>3. CASE /\ q[which].on /\ q[which].items # <<>>
           /\ slot' = [slot EXCEPT ![which] = Head(q[which].items)]
           /\ q' = [q EXCEPT ![which].items = Tail(@)]
           /\ call'[s].wresult = "SUCCEEDED"
  <2>1. PICK items : items = q[which].items
    OBVIOUS
  <2>2. /\ Tail(items) \in Seq(Captures) /\ Len(Tail(items)) = Len(items) - 1
        /\ Head(items) = items[1] /\ Head(items) \in Captures /\ 1 \in DOMAIN items
        /\ \A k \in DOMAIN Tail(items) : k + 1 \in DOMAIN items /\ Tail(items)[k] = items[k + 1]
        /\ Len(items) \in Nat
    BY <1>0, <1>3, <2>1, TailFacts, QueueTypes
  <2>3. Head(items) # None
    BY <2>2, SyncAssumption
  <2>4. /\ slot'[which] = items[1] /\ slot'[which] # None
        /\ \A x \in Sensors : x # which => slot'[x] = slot[x]
        /\ slot' \in [Sensors -> Captures \cup {None}]
    BY <1>1, <1>3, <2>1, <2>2, <2>3
  <2>5. /\ q' \in [Queues -> [on : BOOLEAN, items : Seq(Captures)]]
        /\ q'[which].on /\ q'[which].items = Tail(items)
        /\ \A n \in Queues : n # which => q'[n] = q[n]
    BY <1>0, <1>1, <1>3, <2>1, <2>2
  <2>6. Len(q'[which].items) <= Capacity(which)
    <3>1. Capacity(which) \in Nat /\ Len(items) <= Capacity(which)
      BY <1>0, <1>1, <2>1, CapacityType
    <3> QED
      BY <2>2, <2>5, <3>1
  <2>7. \A k \in DOMAIN q'[which].items :
          /\ q'[which].items[k].sensor = which /\ q'[which].items[k].merged = None
          /\ q'[which].items[k].ts # Unclean
    BY <1>1, <2>1, <2>2, <2>5
  <2>8. slot'[which].sensor = which /\ slot'[which].merged = None /\ slot'[which].ts # Unclean
    BY <1>1, <2>1, <2>2, <2>4
  <2>9. \A n \in Queues : /\ q'[n].on <=> q[n].on
                          /\ Len(q'[n].items) <= Capacity(n)
                          /\ ~q'[n].on => q'[n].items = <<>>
    BY <1>1, <1>3, <2>5, <2>6
  <2>10. \A x \in Sensors :
              /\ \A k \in DOMAIN q'[x].items :
                   q'[x].items[k].sensor = x /\ q'[x].items[k].merged = None /\ q'[x].items[k].ts # Unclean
              /\ slot'[x] # None => slot'[x].sensor = x /\ slot'[x].merged = None /\ slot'[x].ts # Unclean
    <3> SUFFICES ASSUME NEW x \in Sensors
                 PROVE  /\ \A k \in DOMAIN q'[x].items :
                             /\ q'[x].items[k].sensor = x /\ q'[x].items[k].merged = None
                             /\ q'[x].items[k].ts # Unclean
                        /\ slot'[x] # None =>
                             slot'[x].sensor = x /\ slot'[x].merged = None /\ slot'[x].ts # Unclean
      OBVIOUS
    <3>1. CASE x = which
      BY <2>7, <2>8, <3>1
    <3>2. CASE x # which
      <4>1. q'[x] = q[x] /\ slot'[x] = slot[x]
        BY <1>2, <2>4, <2>5, <3>2
      <4> QED
        BY <1>1, <4>1
    <3> QED
      BY <3>1, <3>2
  <2> QED
    BY <1>3, <2>4, <2>5, <2>9, <2>10
<1>4. CASE /\ call[s].wresult = "FAILED" \/ ~q[which].on \/ q[which].items = <<>>
           /\ slot' = [slot EXCEPT ![which] = None]
           /\ q' = q
  <2>1. q[which].items = <<>>
    <3>1. CASE call[s].wresult = "FAILED"
      <4>1. call[s].at = "refill" /\ call[s].todo \in ToRefill /\ which = Head(call[s].todo)
        BY DEF Refills
      <4>2. call[s].todo = <<"depth">> /\ ~q["depth"].on
        BY <1>0, <3>1, <4>1 DEF Protocol
      <4>3. which = "depth"
        BY <4>1, <4>2, RefillNames
      <4> QED
        BY <1>0, <1>1, <4>2, <4>3
    <3> QED
      BY <1>0, <1>1, <1>4, <3>1
  <2>2. /\ slot'[which] = None /\ \A x \in Sensors : x # which => slot'[x] = slot[x]
        /\ slot' \in [Sensors -> Captures \cup {None}]
    BY <1>1, <1>4
  <2> QED
    BY <1>1, <1>4, <2>1, <2>2
<1> QED
  BY <1>3, <1>4 DEF Refills

LEMMA RefillKeeps ==
  ASSUME SyncInv, NEW s \in Sensors, Refill(s)
  PROVE  SyncInv'
<1>0. SyncTypes /\ Protocol /\ Contents /\ Stranded
  BY DEF SyncInv
<1>1. PICK which, rest : which = Head(call[s].todo) /\ rest = Tail(call[s].todo)
  OBVIOUS
<1>2. /\ Refills(s, which, rest)
      /\ UNCHANGED <<running, waiting_for_clean_depth_ts, sync_captures,
                     synchronized_images_only, depth_delay_off_color_usec, lock, control, clock, seen>>
  BY <1>1, RefillFacts
<1>3. /\ call[s].at = "refill" /\ call[s].todo \in ToRefill
      /\ call'[s].capture = call[s].capture /\ call'[s].todo = rest
      /\ call'[s].at = IF rest = <<>> THEN "match" ELSE "refill"
      /\ \A u \in Sensors : u # s => call'[u] = call[u]
      /\ call' \in [Sensors -> CallRecord]
  BY <1>2 DEF Refills
<1>4. /\ which \in Sensors
      /\ rest # <<>> => rest \in ToRefill /\ which = "color" /\ rest = <<"depth">>
      /\ ~ \E k \in DOMAIN rest : rest[k] = which
      /\ \A x : (\E k \in DOMAIN call[s].todo : call[s].todo[k] = x)
                  <=> x = which \/ \E k \in DOMAIN rest : rest[k] = x
  <2>1. PICK names : names = call[s].todo
    OBVIOUS
  <2>2. names \in ToRefill /\ which = Head(names) /\ rest = Tail(names)
    BY <1>1, <1>3, <2>1
  <2>3. /\ which \in Sensors
        /\ rest # <<>> => rest \in ToRefill /\ which = "color" /\ rest = <<"depth">>
        /\ ~ \E k \in DOMAIN rest : rest[k] = which
        /\ \A x : (\E k \in DOMAIN names : names[k] = x)
                    <=> x = which \/ \E k \in DOMAIN rest : rest[k] = x
    BY <2>2, RefillNames
  <2> QED
    BY <2>1, <2>3
<1>5. /\ lock = s /\ running /\ sync_captures /\ control.at = "idle"
      /\ \A u \in Sensors : u # s => call[u].at \notin {"match", "refill"}
      /\ \A x \in Sensors : Refilling(x) <=> x = which \/ \E k \in DOMAIN rest : rest[k] = x
  BY <1>3, <1>4, Alone
<1>6. /\ q' \in [Queues -> [on : BOOLEAN, items : Seq(Captures)]]
      /\ slot' \in [Sensors -> Captures \cup {None}]
      /\ \A n \in Queues : /\ q'[n].on <=> q[n].on
                           /\ Len(q'[n].items) <= Capacity(n)
                           /\ ~q'[n].on => q'[n].items = <<>>
                           /\ n # which => q'[n] = q[n]
      /\ \A x \in Sensors :
           /\ \A k \in DOMAIN q'[x].items :
                q'[x].items[k].sensor = x /\ q'[x].items[k].merged = None /\ q'[x].items[k].ts # Unclean
           /\ slot'[x] # None => slot'[x].sensor = x /\ slot'[x].merged = None /\ slot'[x].ts # Unclean
           /\ x # which => slot'[x] = slot[x]
      /\ call'[s].wresult # "SUCCEEDED" => slot'[which] = None
      /\ slot'[which] = None => q'[which].items = <<>>
  BY <1>2, <1>4, RefillContents
<1>7. SyncTypes'
  BY <1>0, <1>2, <1>3, <1>6 DEF SyncTypes, CallRecord
<1>8. Protocol'
  <2>1. /\ q'["color"].on <=> q["color"].on
        /\ q'["depth"].on <=> q["depth"].on
    BY <1>6 DEF Queues, Sensors
  <2>2. control'.at = "idle" /\ running' /\ sync_captures' /\ lock' # "control" /\ lock' = s
    BY <1>2, <1>5 DEF Sensors
  <2>3. ~q'["color"].on => ~q'["depth"].on
    BY <1>0, <1>5, <2>1 DEF Protocol
  <2>4. call'[s].wresult = "FAILED" => ~q'["depth"].on
    <3>1. call'[s].wresult = "FAILED" => call[s].wresult = "FAILED" \/ ~q[which].on
      BY <1>2 DEF Refills
    <3>2. call[s].wresult = "FAILED" => ~q["depth"].on
      BY <1>0 DEF Protocol
    <3> QED
      BY <1>4, <2>1, <2>3, <3>1, <3>2 DEF Sensors
  <2>5. \A u \in Sensors :
       /\ call'[u].at \in {"match", "refill"} <=> lock' = u
       /\ call'[u].at \in {"lock", "match", "refill"} <=> call'[u].capture # None
       /\ call'[u].at = "refill" => call'[u].todo \in ToRefill
       /\ call'[u].at = "refill" /\ call'[u].todo # <<"depth">> => call'[u].wresult = "SUCCEEDED"
       /\ call'[u].at = "failing" => call'[u].todo \in ToStop
       /\ call'[u].at \in {"idle", "lock"} => call'[u].wresult = "SUCCEEDED"
       /\ call'[u].wresult = "FAILED" => ~q'["depth"].on
       /\ call'[u].at = "failing" /\ call'[u].todo = <<"color">> => ~q'["depth"].on
    <3> SUFFICES ASSUME NEW u \in Sensors
                 PROVE
       /\ call'[u].at \in {"match", "refill"} <=> lock' = u
       /\ call'[u].at \in {"lock", "match", "refill"} <=> call'[u].capture # None
       /\ call'[u].at = "refill" => call'[u].todo \in ToRefill
       /\ call'[u].at = "refill" /\ call'[u].todo # <<"depth">> => call'[u].wresult = "SUCCEEDED"
       /\ call'[u].at = "failing" => call'[u].todo \in ToStop
       /\ call'[u].at \in {"idle", "lock"} => call'[u].wresult = "SUCCEEDED"
       /\ call'[u].wresult = "FAILED" => ~q'["depth"].on
       /\ call'[u].at = "failing" /\ call'[u].todo = <<"color">> => ~q'["depth"].on
      OBVIOUS
    <3>1. CASE u = s
      BY <1>0, <1>3, <1>4, <2>2, <2>4, <3>1 DEF Protocol
    <3>2. CASE u # s
      BY <1>0, <1>3, <1>5, <2>1, <2>2, <3>2 DEF Protocol
    <3> QED
      BY <3>1, <3>2
  <2> QED
    BY <2>2, <2>3, <2>5 DEF Protocol
<1>9. Contents'
  <2>1. \A x \in Sensors : call'[x].capture = call[x].capture /\ (call[x].at = "lock" => call'[x].at = "lock")
    BY <1>3
  <2>2. \A x \in Sensors : call'[x].capture # None =>
            /\ call'[x].capture.sensor = x /\ call'[x].capture.merged = None
            /\ call'[x].capture.ts = Unclean =>
                 call'[x].at = "lock" /\ x = "depth" /\ waiting_for_clean_depth_ts' /\ sync_captures'
    BY <1>0, <1>2, <2>1 DEF Contents
  <2>3. q'["sync"] = q["sync"]
    BY <1>4, <1>6 DEF Queues, Sensors
  <2>4. \A k \in DOMAIN q'["sync"].items :
          /\ q'["sync"].items[k].merged # None => q'["sync"].items[k].sensor = "depth"
          /\ q'["sync"].items[k].ts # Unclean
    BY <1>0, <2>3 DEF Contents
  <2> QED
    BY <1>6, <2>2, <2>4 DEF Contents
<1>10. Stranded'
  <2>1. \A x \in Sensors : Refilling(x)' <=> \E k \in DOMAIN rest : rest[k] = x
    <3>1. rest = <<>> => ~ \E k \in DOMAIN rest : TRUE
      OBVIOUS
    <3> QED
      BY <1>3, <1>5, <3>1 DEF Refilling
  <2>2. \A x \in Sensors : x # which => q'[x] = q[x] /\ slot'[x] = slot[x]
    BY <1>6 DEF Queues
  <2>3. lock' \in Sensors /\ running' /\ sync_captures' /\ control'.at # "stopping"
    BY <1>2, <1>5
  <2>4. \A x \in Sensors : /\ Refilling(x)' => slot'[x] = None
                           /\ ~Refilling(x)' /\ slot'[x] = None => q'[x].items = <<>>
    BY <1>0, <1>4, <1>5, <1>6, <2>1, <2>2 DEF Stranded
  <2>5. \A u \in Sensors : call'[u].at = "match" /\ call'[u].wresult # "SUCCEEDED" => ~BothPending'
    <3>1. slot'[which] = None => ~BothPending'
      BY <1>4 DEF BothPending, Sensors
    <3> QED
      BY <1>3, <1>5, <1>6, <3>1
  <2> QED
    BY <2>3, <2>4, <2>5 DEF Stranded
<1> QED
  BY <1>7, <1>8, <1>9, <1>10 DEF SyncInv

-----------------------------------------------------------------------------
(* A queue is stopped, by a thread that met an error or by capturesync_stop *)

LEMMA QueueOff ==
  ASSUME SyncTypes, Contents, NEW n \in Queues, q' = [q EXCEPT ![n] = Disabled]
  PROVE  /\ q' \in [Queues -> [on : BOOLEAN, items : Seq(Captures)]]
         /\ ~q'[n].on /\ q'[n].items = <<>>
         /\ \A m \in Queues : /\ m # n => q'[m] = q[m]
                              /\ Len(q'[m].items) <= Capacity(m)
                              /\ ~q'[m].on => q'[m].items = <<>>
                              /\ q'[m].on => q[m].on
                              /\ q[m].items = <<>> => q'[m].items = <<>>
                              /\ \A k \in DOMAIN q'[m].items : m # n /\ q'[m] = q[m]
<1>1. Disabled \in [on : BOOLEAN, items : Seq(Captures)] /\ ~Disabled.on /\ Disabled.items = <<>>
  BY DEF Disabled
<1>2. q \in [Queues -> [on : BOOLEAN, items : Seq(Captures)]]
  BY DEF SyncTypes
<1>3. q'[n] = Disabled /\ \A m \in Queues : m # n => q'[m] = q[m]
  BY <1>2
<1>4. q' \in [Queues -> [on : BOOLEAN, items : Seq(Captures)]]
  BY <1>1, <1>2
<1>5. ~q'[n].on /\ q'[n].items = <<>>
  BY <1>1, <1>3
<1>6. Len(q'[n].items) <= Capacity(n)
  BY <1>5, CapacityType
<1>7. \A k \in DOMAIN q'[n].items : FALSE
  BY <1>5
<1> HIDE DEF Disabled
<1> QED
  BY <1>3, <1>4, <1>5, <1>6, <1>7 DEF Contents

LEMMA StopNames ==
  ASSUME NEW names \in ToStop
  PROVE  /\ Head(names) \in Queues
         /\ Tail(names) \in ToStop \cup {<<>>}
         /\ Tail(names) # <<>> => Tail(names) \in ToStop
         /\ Tail(names) = <<"color">> => Head(names) = "depth"
         /\ Head(names) = "color" => names = <<"color">>
<1>1. CASE names = <<"color">>
  BY <1>1, Todo, TodoDistinct DEF ToStop, Queues, Sensors
<1>2. CASE names = <<"depth", "color">>
  BY <1>2, Todo, TodoDistinct DEF ToStop, Queues, Sensors
<1>3. CASE names = <<"sync", "depth", "color">>
  BY <1>3, Todo, TodoDistinct DEF ToStop, Queues, Sensors
<1> QED
  BY <1>1, <1>2, <1>3 DEF ToStop

LEMMA StopQueueKeeps ==
  ASSUME SyncInv, NEW s \in Sensors, StopQueue(s)
  PROVE  SyncInv'
<1>0. SyncTypes /\ Protocol /\ Contents /\ Stranded
  BY DEF SyncInv
<1>1. PICK n, rest : n = Head(call[s].todo) /\ rest = Tail(call[s].todo)
  OBVIOUS
<1>2. /\ call[s].at = "failing"
      /\ q' = [q EXCEPT ![n] = Disabled]
      /\ call' = [call EXCEPT ![s] = IF rest = <<>> THEN Idle ELSE [call[s] EXCEPT !.todo = rest]]
      /\ UNCHANGED <<slot, running, waiting_for_clean_depth_ts, sync_captures,
                     synchronized_images_only, depth_delay_off_color_usec, lock, control, clock, seen>>
  BY <1>0, <1>1 DEF StopQueue, config, SyncTypes
<1>3. /\ call[s].todo \in ToStop /\ call[s].capture = None
      /\ call[s].todo = <<"color">> => ~q["depth"].on
  BY <1>0, <1>2 DEF Protocol
<1>4. /\ n \in Queues /\ rest \in ToStop \cup {<<>>}
      /\ rest # <<>> => rest \in ToStop
      /\ rest = <<"color">> => n = "depth"
      /\ n = "color" => ~q["depth"].on
  <2>1. PICK names : names = call[s].todo
    OBVIOUS
  <2>2. names \in ToStop /\ n = Head(names) /\ rest = Tail(names)
    BY <1>1, <1>3, <2>1
  <2> QED
    BY <1>3, <2>1, <2>2, StopNames
<1>5. call[s] \in CallRecord /\ call \in [Sensors -> CallRecord]
  BY <1>0, CallTypes
<1>6. /\ call'[s].at \in {"idle", "failing"} /\ call'[s].capture = None
      /\ call'[s].at = "failing" => call'[s].todo = rest /\ rest # <<>>
      /\ call'[s].wresult \in {call[s].wresult, "SUCCEEDED"}
      /\ call'[s].at = "idle" => call'[s].wresult = "SUCCEEDED"
      /\ \A u \in Sensors : u # s => call'[u] = call[u]
      /\ call' \in [Sensors -> CallRecord]
  <2>1. CASE rest = <<>>
    <3>1. call' = [call EXCEPT ![s] = Idle]
      BY <1>2, <2>1
    <3> QED
      BY <1>5, <3>1, IdleFacts
  <2>2. CASE rest # <<>>
    <3>1. PICK r : r = [call[s] EXCEPT !.todo = rest]
      OBVIOUS
    <3>2. r \in CallRecord /\ r.at = "failing" /\ r.capture = None /\ r.wresult = call[s].wresult /\ r.todo = rest
      BY <1>2, <1>3, <1>4, <1>5, <3>1 DEF CallRecord
    <3>3. call' = [call EXCEPT ![s] = r]
      BY <1>2, <2>2, <3>1
    <3> QED
      BY <1>5, <2>2, <3>2, <3>3
  <2> QED
    BY <2>1, <2>2
<1>7. /\ q' \in [Queues -> [on : BOOLEAN, items : Seq(Captures)]]
      /\ ~q'[n].on /\ q'[n].items = <<>>
      /\ \A m \in Queues : /\ m # n => q'[m] = q[m]
                           /\ Len(q'[m].items) <= Capacity(m)
                           /\ ~q'[m].on => q'[m].items = <<>>
                           /\ q'[m].on => q[m].on
                           /\ q[m].items = <<>> => q'[m].items = <<>>
                           /\ \A k \in DOMAIN q'[m].items : m # n /\ q'[m] = q[m]
  BY <1>0, <1>2, <1>4, QueueOff
<1>8. SyncTypes'
  BY <1>0, <1>2, <1>6, <1>7 DEF SyncTypes, CallRecord
<1>9. "color" \in Queues /\ "depth" \in Queues /\ "sync" \in Queues /\ \A x \in Sensors : x \in Queues
  BY DEF Queues, Sensors
<1>10. Protocol'
  <2>1. q'["depth"].on => q["depth"].on
    BY <1>7, <1>9
  <2>2. control.at # "starting"
    BY <1>0, <1>2 DEF Protocol
  <2>3. control.at = "idle" /\ ~q'["color"].on => ~q'["depth"].on
    <3>1. CASE n = "color"
      BY <1>4, <2>1, <3>1
    <3>2. CASE n # "color"
      BY <1>0, <1>7, <1>9, <2>1, <3>2 DEF Protocol
    <3> QED
      BY <3>1, <3>2
  <2>4. \A u \in Sensors :
       /\ call'[u].at \in {"match", "refill"} <=> lock = u
       /\ call'[u].at \in {"lock", "match", "refill"} <=> call'[u].capture # None
       /\ call'[u].at = "refill" => call'[u].todo \in ToRefill
       /\ call'[u].at = "refill" /\ call'[u].todo # <<"depth">> => call'[u].wresult = "SUCCEEDED"
       /\ call'[u].at = "failing" => call'[u].todo \in ToStop
       /\ call'[u].at \in {"idle", "lock"} => call'[u].wresult = "SUCCEEDED"
       /\ call'[u].wresult = "FAILED" => ~q'["depth"].on
       /\ call'[u].at = "failing" /\ call'[u].todo = <<"color">> => ~q'["depth"].on
    <3> SUFFICES ASSUME NEW u \in Sensors
                 PROVE
       /\ call'[u].at \in {"match", "refill"} <=> lock = u
       /\ call'[u].at \in {"lock", "match", "refill"} <=> call'[u].capture # None
       /\ call'[u].at = "refill" => call'[u].todo \in ToRefill
       /\ call'[u].at = "refill" /\ call'[u].todo # <<"depth">> => call'[u].wresult = "SUCCEEDED"
       /\ call'[u].at = "failing" => call'[u].todo \in ToStop
       /\ call'[u].at \in {"idle", "lock"} => call'[u].wresult = "SUCCEEDED"
       /\ call'[u].wresult = "FAILED" => ~q'["depth"].on
       /\ call'[u].at = "failing" /\ call'[u].todo = <<"color">> => ~q'["depth"].on
      OBVIOUS
    <3>1. CASE u = s
      <4>1. lock # s /\ (call[s].wresult = "FAILED" => ~q["depth"].on)
        BY <1>0, <1>2 DEF Protocol
      <4>2. rest = <<"color">> => ~q'["depth"].on
        BY <1>4, <1>7
      <4>3. call'[s].wresult = "FAILED" => ~q'["depth"].on
        BY <1>6, <2>1, <4>1
      <4> QED
        BY <1>4, <1>6, <3>1, <4>1, <4>2, <4>3
    <3>2. CASE u # s
      BY <1>0, <1>6, <2>1, <3>2 DEF Protocol
    <3> QED
      BY <3>1, <3>2
  <2> QED
    BY <1>0, <1>2, <2>2, <2>3, <2>4 DEF Protocol
<1>11. Contents'
  <2>1. \A x \in Sensors : /\ call'[x].capture = call[x].capture
                           /\ call[x].at = "lock" => call'[x].at = "lock"
    BY <1>2, <1>3, <1>6
  <2>2. \A x \in Sensors : call'[x].capture # None =>
            /\ call'[x].capture.sensor = x /\ call'[x].capture.merged = None
            /\ call'[x].capture.ts = Unclean =>
                 call'[x].at = "lock" /\ x = "depth" /\ waiting_for_clean_depth_ts' /\ sync_captures'
    BY <1>0, <1>2, <2>1 DEF Contents
  <2>3. \A x \in Sensors :
       /\ \A k \in DOMAIN q'[x].items :
            q'[x].items[k].sensor = x /\ q'[x].items[k].merged = None /\ q'[x].items[k].ts # Unclean
       /\ slot'[x] # None => slot'[x].sensor = x /\ slot'[x].merged = None /\ slot'[x].ts # Unclean
    BY <1>0, <1>2, <1>7, <1>9 DEF Contents
  <2>4. \A k \in DOMAIN q'["sync"].items :
          /\ q'["sync"].items[k].merged # None => q'["sync"].items[k].sensor = "depth"
          /\ q'["sync"].items[k].ts # Unclean
    BY <1>0, <1>7, <1>9 DEF Contents
  <2> QED
    BY <1>7, <2>2, <2>3, <2>4 DEF Contents
<1>12. Stranded'
  <2>1. \A x \in Sensors : Refilling(x)' <=> Refilling(x)
    BY <1>2, <1>6 DEF Refilling
  <2>2. \A u \in Sensors : call'[u].at = "match" => call'[u] = call[u]
    BY <1>6
  <2>3. BothPending' <=> BothPending
    BY <1>2 DEF BothPending
  <2>4. \A x \in Sensors : q[x].items = <<>> => q'[x].items = <<>>
    BY <1>7, <1>9
  <2> QED
    BY <1>0, <1>2, <1>7, <2>1, <2>2, <2>3, <2>4 DEF Stranded
<1> QED
  BY <1>8, <1>10, <1>11, <1>12 DEF SyncInv

(* What the user has seen after he has taken a capture.                    *)
LEMMA SeenAfterGet ==
  ASSUME SyncInv, GetCapture
  PROVE  LET c == Head(q["sync"].items)
         IN  /\ c \in Captures /\ c = q["sync"].items[1] /\ 1 \in DOMAIN q["sync"].items
             /\ \A x \in Sensors : seen'[x] = IF Carries(c, x) THEN TakenAt(c, x) ELSE seen[x]
             /\ \A x \in Sensors : Carries(c, x) => TakenAt(c, x) \in 0 .. MaxTs
             /\ seen' \in [Sensors -> -1 .. MaxTs]
<1>0. SyncTypes /\ Contents /\ "sync" \in Queues
  BY DEF SyncInv, Queues
<1>1. PICK c : c = Head(q["sync"].items)
  OBVIOUS
<1>2. q["sync"].items \in Seq(Captures) /\ q["sync"].items # <<>>
  BY <1>0, QueueTypes DEF GetCapture
<1>3. c \in Captures /\ c = q["sync"].items[1] /\ 1 \in DOMAIN q["sync"].items
  BY <1>1, <1>2, TailFacts
<1>4. (c.merged # None => c.sensor = "depth") /\ c.ts # Unclean
  BY <1>0, <1>3 DEF Contents
<1>5. c.sensor \in Sensors /\ c.ts \in 0 .. MaxTs /\ c.merged \in 0 .. MaxTs \cup {None}
  BY <1>3, <1>4 DEF Captures
<1>6. seen' = [seen EXCEPT ![c.sensor] = c.ts,
                           !["color"] = IF c.merged # None THEN c.merged
                                        ELSE IF c.sensor = "color" THEN c.ts ELSE @]
  BY <1>1 DEF GetCapture
<1>7. seen \in [Sensors -> -1 .. MaxTs] /\ Sensors = {"color", "depth"}
  BY <1>0 DEF SyncTypes, Sensors
<1>8. c.ts \in -1 .. MaxTs /\ (c.merged # None => c.merged \in -1 .. MaxTs)
  BY <1>5, SyncAssumption
<1>9. CASE c.sensor = "color"
  <2>1. c.merged = None
    BY <1>4, <1>9
  <2>2. seen' \in [Sensors -> -1 .. MaxTs] /\ seen'["color"] = c.ts /\ seen'["depth"] = seen["depth"]
    BY <1>6, <1>7, <1>8, <1>9, <2>1
  <2> QED
    BY <1>1, <1>3, <1>5, <1>7, <1>9, <2>1, <2>2 DEF Carries, TakenAt
<1>10. CASE c.sensor = "depth"
  <2>1. /\ seen' \in [Sensors -> -1 .. MaxTs] /\ seen'["depth"] = c.ts
        /\ seen'["color"] = IF c.merged # None THEN c.merged ELSE seen["color"]
    <3>1. CASE c.merged = None
      BY <1>6, <1>7, <1>8, <1>10, <3>1
    <3>2. CASE c.merged # None
      BY <1>6, <1>7, <1>8, <1>10, <3>2
    <3> QED
      BY <3>1, <3>2
  <2> QED
    BY <1>1, <1>3, <1>5, <1>7, <1>10, <2>1 DEF Carries, TakenAt
<1> QED
  BY <1>5, <1>9, <1>10 DEF Sensors

(* The user's queue without the capture he has taken.                      *)
LEMMA QueueAfterGet ==
  ASSUME SyncInv, GetCapture
  PROVE  /\ q' \in [Queues -> [on : BOOLEAN, items : Seq(Captures)]]
         /\ q'["color"] = q["color"] /\ q'["depth"] = q["depth"]
         /\ q["sync"].on /\ q'["sync"].on
         /\ q["sync"].items # <<>> /\ q'["sync"].items = Tail(q["sync"].items)
         /\ Len(q'["sync"].items) = Len(q["sync"].items) - 1
         /\ \A k \in DOMAIN q'["sync"].items :
              k + 1 \in DOMAIN q["sync"].items /\ q'["sync"].items[k] = q["sync"].items[k + 1]
<1>0. SyncTypes /\ "sync" \in Queues
  BY DEF SyncInv, Queues
<1>1. q["sync"].items \in Seq(Captures) /\ q["sync"].items # <<>> /\ q["sync"].on
  BY <1>0, QueueTypes DEF GetCapture
<1>2. PICK items : items = q["sync"].items
  OBVIOUS
<1>3. PICK t : t = Tail(items)
  OBVIOUS
<1>4. /\ t \in Seq(Captures) /\ Len(t) = Len(items) - 1
      /\ \A k \in DOMAIN t : k + 1 \in DOMAIN items /\ t[k] = items[k + 1]
  BY <1>1, <1>2, <1>3, TailFacts
<1>5. q' = [q EXCEPT !["sync"].items = t]
  BY <1>2, <1>3 DEF GetCapture
<1>6. q \in [Queues -> [on : BOOLEAN, items : Seq(Captures)]]
  BY <1>0 DEF SyncTypes
<1>7. /\ q' \in [Queues -> [on : BOOLEAN, items : Seq(Captures)]]
      /\ q'["color"] = q["color"] /\ q'["depth"] = q["depth"]
      /\ q'["sync"].on /\ q'["sync"].items = t
  BY <1>1, <1>4, <1>5, <1>6 DEF Queues, Sensors
<1> QED
  BY <1>1, <1>2, <1>3, <1>4, <1>7

LEMMA GetCaptureKeeps ==
  ASSUME SyncInv, GetCapture
  PROVE  SyncInv'
<1>0. SyncTypes /\ Protocol /\ Contents /\ Stranded
  BY DEF SyncInv
<1>1. UNCHANGED <<slot, running, waiting_for_clean_depth_ts, sync_captures,
                  synchronized_images_only, depth_delay_off_color_usec, lock, call, control, clock>>
  BY DEF GetCapture, config
<1>2. /\ q' \in [Queues -> [on : BOOLEAN, items : Seq(Captures)]]
      /\ q'["color"] = q["color"] /\ q'["depth"] = q["depth"]
      /\ q["sync"].on /\ q'["sync"].on
      /\ q["sync"].items # <<>>
      /\ Len(q'["sync"].items) = Len(q["sync"].items) - 1
      /\ \A k \in DOMAIN q'["sync"].items :
           k + 1 \in DOMAIN q["sync"].items /\ q'["sync"].items[k] = q["sync"].items[k + 1]
  BY QueueAfterGet
<1>3. seen' \in [Sensors -> -1 .. MaxTs]
  BY SeenAfterGet
<1>4. SyncTypes'
  BY <1>0, <1>1, <1>2, <1>3 DEF SyncTypes
<1>5. Protocol'
  BY <1>0, <1>1, <1>2 DEF Protocol
<1>6. Contents'
  <2>1. Len(q'["sync"].items) <= Capacity("sync")
    <3>1. Len(q["sync"].items) \in Nat /\ Len(q["sync"].items) <= Capacity("sync") /\ Capacity("sync") \in Nat
      BY <1>0, QueueTypes, CapacityType DEF Contents, Queues
    <3> QED
      BY <1>2, <3>1
  <2>2. \A n \in Queues : /\ Len(q'[n].items) <= Capacity(n)
                          /\ ~q'[n].on => q'[n].items = <<>>
    <3> SUFFICES ASSUME NEW n \in Queues
                 PROVE  /\ Len(q'[n].items) <= Capacity(n)
                        /\ ~q'[n].on => q'[n].items = <<>>
      OBVIOUS
    <3>1. CASE n = "sync"
      BY <1>2, <2>1, <3>1
    <3>2. CASE n # "sync"
      <4>1. q'[n] = q[n]
        BY <1>2, <3>2 DEF Queues, Sensors
      <4> QED
        BY <1>0, <4>1 DEF Contents
    <3> QED
      BY <3>1, <3>2
  <2>3. \A x \in Sensors : q'[x] = q[x]
    BY <1>2 DEF Sensors
  <2>4. \A k \in DOMAIN q'["sync"].items :
          /\ q'["sync"].items[k].merged # None => q'["sync"].items[k].sensor = "depth"
          /\ q'["sync"].items[k].ts # Unclean
    BY <1>0, <1>2 DEF Contents
  <2> QED
    BY <1>0, <1>1, <2>2, <2>3, <2>4 DEF Contents
<1>7. Stranded'
  <2>1. \A x \in Sensors : Refilling(x)' <=> Refilling(x)
    BY <1>1 DEF Refilling
  <2>2. \A x \in Sensors : q'[x] = q[x]
    BY <1>2 DEF Sensors
  <2>3. running \/ control.at = "stopping"
    BY <1>0, <1>2 DEF Stranded, Queues
  <2>4. \A n \in Queues : q'[n].on <=> q[n].on
    BY <1>2 DEF Queues, Sensors
  <2> QED
    BY <1>0, <1>1, <2>1, <2>2, <2>3, <2>4 DEF Stranded, BothPending
<1> QED
  BY <1>4, <1>5, <1>6, <1>7 DEF SyncInv

-----------------------------------------------------------------------------
(* The steps of capturesync_start and capturesync_stop                     *)

(* Nobody is inside add_capture.                                           *)
LEMMA NobodyInside ==
  ASSUME SyncInv, \A s \in Sensors : call[s].at = "idle"
  PROVE  /\ lock \notin Sensors
         /\ \A s \in Sensors : call[s].capture = None /\ ~Refilling(s)
<1>1. \A s \in Sensors : lock # s /\ call[s].capture = None
  BY DEF SyncInv, Protocol
<1>2. \A s \in Sensors : ~Refilling(s)
  BY DEF Refilling
<1> QED
  BY <1>1, <1>2

LEMMA CaptureSyncStartKeeps ==
  ASSUME SyncInv, CaptureSyncStart
  PROVE  SyncInv'
<1>0. SyncTypes /\ Protocol /\ Contents /\ Stranded
  BY DEF SyncInv
<1>1. /\ control.at = "idle" /\ ~running /\ \A s \in Sensors : call[s].at = "idle"
      /\ waiting_for_clean_depth_ts' = TRUE
      /\ synchronized_images_only' \in BOOLEAN /\ sync_captures' \in BOOLEAN
      /\ depth_delay_off_color_usec' \in Delays
      /\ control' = [at |-> "starting", todo |-> <<"color", "depth", "sync">>]
      /\ clock' = [s \in Sensors |-> -1]
      /\ seen' = [s \in Sensors |-> -1]
      /\ UNCHANGED <<q, slot, running, lock, call>>
  BY DEF CaptureSyncStart
<1>2. control'.at = "starting" /\ control'.todo = <<"color", "depth", "sync">>
      /\ control' \in [at : {"idle", "starting", "stopping"}, todo : ToSwitch \cup {<<>>}]
  BY <1>1 DEF ToSwitch
<1>3. /\ lock \notin Sensors
      /\ \A s \in Sensors : call[s].capture = None /\ ~Refilling(s)
  BY <1>1, NobodyInside
<1>4. SyncTypes'
  <2>1. depth_delay_off_color_usec' \in Int
    BY <1>1, SyncAssumption
  <2>2. clock' \in [Sensors -> -1 .. MaxTs] /\ seen' \in [Sensors -> -1 .. MaxTs]
    <3>1. -1 \in -1 .. MaxTs
      BY SyncAssumption
    <3> QED
      BY <1>1, <3>1
  <2>3. waiting_for_clean_depth_ts' \in BOOLEAN
    BY <1>1
  <2> QED
    BY <1>0, <1>1, <1>2, <2>1, <2>2, <2>3 DEF SyncTypes
<1>5. Protocol'
  <2>1. control'.todo \in ToSwitch
    BY <1>2 DEF ToSwitch
  <2>2. lock' # "control" /\ lock' \notin Sensors
    BY <1>0, <1>1, <1>3 DEF Protocol
  <2>3. \A u \in Sensors :
       /\ call'[u].at \in {"match", "refill"} <=> lock' = u
       /\ call'[u].at \in {"lock", "match", "refill"} <=> call'[u].capture # None
       /\ call'[u].at = "refill" => call'[u].todo \in ToRefill
       /\ call'[u].at = "refill" /\ call'[u].todo # <<"depth">> => call'[u].wresult = "SUCCEEDED"
       /\ call'[u].at = "failing" => call'[u].todo \in ToStop
       /\ call'[u].at \in {"idle", "lock"} => call'[u].wresult = "SUCCEEDED"
       /\ call'[u].wresult = "FAILED" => ~q'["depth"].on
       /\ call'[u].at = "failing" /\ call'[u].todo = <<"color">> => ~q'["depth"].on
    BY <1>0, <1>1 DEF Protocol
  <2>4. ~running' /\ \A u \in Sensors : call'[u].at = "idle"
    BY <1>1
  <2> QED
    BY <1>2, <2>1, <2>2, <2>3, <2>4 DEF Protocol
<1>6. Contents'
  <2>1. \A s \in Sensors : call'[s].capture = None
    BY <1>1, <1>3
  <2> QED
    BY <1>0, <1>1, <2>1 DEF Contents
<1>7. Stranded'
  <2>1. \A x \in Sensors : ~Refilling(x)' /\ slot'[x] = None /\ q'[x].items = <<>>
    BY <1>0, <1>1 DEF Refilling, Stranded, Queues
  <2>2. ~BothPending'
    BY <2>1 DEF BothPending, Sensors
  <2>3. \A n \in Queues : q'[n].items = <<>>
    BY <1>0, <1>1 DEF Stranded
  <2>4. control'.at # "stopping"
    BY <1>2
  <2> QED
    BY <2>1, <2>2, <2>3, <2>4 DEF Stranded
<1> QED
  BY <1>4, <1>5, <1>6, <1>7 DEF SyncInv

LEMMA StartRefusedKeeps ==
  ASSUME SyncInv, StartRefused
  PROVE  SyncInv'
<1>0. SyncTypes /\ Protocol /\ Contents /\ Stranded
  BY DEF SyncInv
<1>1. /\ \A s \in Sensors : call[s].at = "idle"
      /\ waiting_for_clean_depth_ts' = TRUE
      /\ synchronized_images_only' \in BOOLEAN
      /\ UNCHANGED <<q, slot, running, sync_captures, depth_delay_off_color_usec,
                     lock, call, control, clock, seen>>
  BY DEF StartRefused
<1>2. \A s \in Sensors : call[s].capture = None
  BY <1>1, NobodyInside
<1>3. SyncTypes'
  <2>1. waiting_for_clean_depth_ts' \in BOOLEAN
    BY <1>1
  <2> QED
    BY <1>0, <1>1, <2>1 DEF SyncTypes
<1>4. Protocol'
  BY <1>0, <1>1 DEF Protocol
<1>5. Contents'
  <2>1. \A s \in Sensors : call'[s].capture = None
    BY <1>1, <1>2
  <2> QED
    BY <1>0, <1>1, <2>1 DEF Contents
<1>6. Stranded'
  <2>1. \A x \in Sensors : Refilling(x)' <=> Refilling(x)
    BY <1>1 DEF Refilling
  <2> QED
    BY <1>0, <1>1, <2>1 DEF Stranded, BothPending
<1> QED
  BY <1>3, <1>4, <1>5, <1>6 DEF SyncInv

LEMMA SwitchNames ==
  ASSUME NEW names \in ToSwitch
  PROVE  /\ Head(names) \in Queues
         /\ Tail(names) \in ToSwitch \cup {<<>>}
         /\ Tail(names) # <<>> => Tail(names) \in ToSwitch
         /\ names = <<"color", "depth", "sync">> => Head(names) = "color"
         /\ Tail(names) # <<"color", "depth", "sync">>
         /\ \A x : (\E k \in DOMAIN names : names[k] = x)
                     => x = Head(names) \/ \E k \in DOMAIN Tail(names) : Tail(names)[k] = x
<1>1. CASE names = <<"sync">>
  <2>1. Head(names) = "sync" /\ Tail(names) = <<>>
    BY <1>1, Todo
  <2> QED
    BY <1>1, <2>1, TodoNames DEF ToSwitch, Queues
<1>2. CASE names = <<"depth", "sync">>
  <2>1. Head(names) = "depth" /\ Tail(names) = <<"sync">>
    BY <1>2, Todo
  <2> QED
    BY <1>2, <2>1, TodoNames DEF ToSwitch, Queues, Sensors
<1>3. CASE names = <<"color", "depth", "sync">>
  <2>1. Head(names) = "color" /\ Tail(names) = <<"depth", "sync">>
    BY <1>3, Todo
  <2> QED
    BY <1>3, <2>1, TodoNames DEF ToSwitch, Queues, Sensors
<1> QED
  BY <1>1, <1>2, <1>3 DEF ToSwitch

LEMMA StartQueueKeeps ==
  ASSUME SyncInv, StartQueue
  PROVE  SyncInv'
<1>0. SyncTypes /\ Protocol /\ Contents /\ Stranded
  BY DEF SyncInv
<1>1. PICK n, rest : n = Head(control.todo) /\ rest = Tail(control.todo)
  OBVIOUS
<1>2. /\ control.at = "starting"
      /\ q' = [q EXCEPT ![n].on = TRUE]
      /\ running' = (rest = <<>>)
      /\ control' = [at |-> IF rest = <<>> THEN "idle" ELSE "starting", todo |-> rest]
      /\ UNCHANGED <<slot, waiting_for_clean_depth_ts, sync_captures, synchronized_images_only,
                     depth_delay_off_color_usec, lock, call, clock, seen>>
  BY <1>1 DEF StartQueue, config
<1>3. control.todo \in ToSwitch /\ ~running /\ \A s \in Sensors : call[s].at = "idle"
  BY <1>0, <1>2 DEF Protocol
<1>4. /\ n \in Queues /\ rest \in ToSwitch \cup {<<>>}
      /\ rest # <<>> => rest \in ToSwitch
      /\ control.todo = <<"color", "depth", "sync">> => n = "color"
  <2>1. PICK names : names = control.todo
    OBVIOUS
  <2>2. names \in ToSwitch /\ n = Head(names) /\ rest = Tail(names)
    BY <1>1, <1>3, <2>1
  <2> QED
    BY <2>1, <2>2, SwitchNames
<1>5. /\ control'.todo = rest
      /\ rest = <<>> => control'.at = "idle" /\ running'
      /\ rest # <<>> => control'.at = "starting" /\ ~running'
      /\ running' \in BOOLEAN
      /\ control' \in [at : {"idle", "starting", "stopping"}, todo : ToSwitch \cup {<<>>}]
  BY <1>2, <1>4
<1>6. /\ \A m \in Queues : q[m].items = <<>>
      /\ \A s \in Sensors : slot[s] = None
  BY <1>0, <1>2, <1>3 DEF Stranded
<1>7. /\ q' \in [Queues -> [on : BOOLEAN, items : Seq(Captures)]]
      /\ q'[n].on
      /\ \A m \in Queues : q'[m].items = <<>> /\ (m # n => q'[m] = q[m])
  <2>1. q \in [Queues -> [on : BOOLEAN, items : Seq(Captures)]]
    BY <1>0 DEF SyncTypes
  <2> QED
    BY <1>2, <1>4, <1>6, <2>1
<1>8. /\ lock \notin Sensors
      /\ \A s \in Sensors : call[s].capture = None /\ ~Refilling(s)
  BY <1>3, NobodyInside
<1>9. SyncTypes'
  BY <1>0, <1>2, <1>5, <1>7 DEF SyncTypes
<1>10. Protocol'
  <2>1. q'["color"].on
    <3>1. CASE n = "color"
      BY <1>7, <3>1
    <3>2. CASE n # "color"
      BY <1>0, <1>2, <1>4, <1>7, <3>2 DEF Protocol, Queues, Sensors
    <3> QED
      BY <3>1, <3>2
  <2>2. lock' # "control" /\ lock' \notin Sensors
    BY <1>0, <1>2, <1>8 DEF Protocol
  <2>3. \A u \in Sensors : call'[u].at = "idle" /\ call'[u].capture = None
    BY <1>2, <1>3, <1>8
  <2>4. \A u \in Sensors : call'[u].wresult = "SUCCEEDED"
    BY <1>0, <1>2, <1>3 DEF Protocol
  <2>5. control'.at # "stopping"
    BY <1>5
  <2> QED
    BY <1>4, <1>5, <2>1, <2>2, <2>3, <2>4, <2>5 DEF Protocol
<1>11. Contents'
  <2>1. \A s \in Sensors : call'[s].capture = None /\ slot'[s] = None
    BY <1>2, <1>6, <1>8
  <2>2. \A m \in Queues : q'[m].items = <<>> /\ Len(q'[m].items) <= Capacity(m)
    BY <1>7, CapacityType
  <2>3. \A m \in Queues : \A k \in DOMAIN q'[m].items : FALSE
    BY <2>2
  <2>4. "sync" \in Queues /\ \A s \in Sensors : s \in Queues
    BY DEF Queues
  <2> QED
    BY <2>1, <2>2, <2>3, <2>4 DEF Contents
<1>12. Stranded'
  <2>1. \A x \in Sensors : ~Refilling(x)' /\ slot'[x] = None /\ q'[x].items = <<>>
    BY <1>2, <1>3, <1>6, <1>7 DEF Refilling, Queues
  <2>2. ~BothPending'
    BY <2>1 DEF BothPending, Sensors
  <2>3. control'.at # "stopping"
    BY <1>5
  <2> QED
    BY <1>7, <2>1, <2>2, <2>3 DEF Stranded
<1> QED
  BY <1>9, <1>10, <1>11, <1>12 DEF SyncInv

LEMMA CaptureSyncStopKeeps ==
  ASSUME SyncInv, CaptureSyncStop
  PROVE  SyncInv'
<1>0. SyncTypes /\ Protocol /\ Contents /\ Stranded
  BY DEF SyncInv
<1>1. /\ control.at = "idle" /\ lock = None /\ lock' = "control" /\ running' = FALSE
      /\ control' = [at |-> "stopping", todo |-> <<"color", "depth", "sync">>]
      /\ UNCHANGED <<q, slot, waiting_for_clean_depth_ts, sync_captures, synchronized_images_only,
                     depth_delay_off_color_usec, call, clock, seen>>
  BY DEF CaptureSyncStop, config
<1>2. /\ control'.at = "stopping" /\ control'.todo = <<"color", "depth", "sync">>
      /\ control' \in [at : {"idle", "starting", "stopping"}, todo : ToSwitch \cup {<<>>}]
  BY <1>1 DEF ToSwitch
<1>3. None \notin Sensors /\ "control" \notin Sensors
  BY SyncAssumption DEF Sensors
<1>4. SyncTypes'
  BY <1>0, <1>1, <1>2 DEF SyncTypes
<1>5. Protocol'
  <2>1. \A u \in Sensors : call[u].at \notin {"match", "refill"}
    BY <1>0, <1>1, <1>3 DEF Protocol
  <2> QED
    BY <1>0, <1>1, <1>2, <1>3, <2>1 DEF Protocol
<1>6. Contents'
  BY <1>0, <1>1 DEF Contents
<1>7. Stranded'
  <2>1. \A x \in Sensors : Refilling(x)' <=> Refilling(x)
    BY <1>1 DEF Refilling
  <2>2. \A n \in Queues : \E k \in DOMAIN control'.todo : control'.todo[k] = n
    BY <1>2, TodoNames DEF Queues, Sensors
  <2>3. ~BothPending'
    BY <1>0, <1>1, <1>3 DEF Stranded, BothPending
  <2> QED
    BY <1>0, <1>1, <1>2, <2>1, <2>2, <2>3 DEF Stranded
<1> QED
  BY <1>4, <1>5, <1>6, <1>7 DEF SyncInv

LEMMA DisableQueueKeeps ==
  ASSUME SyncInv, DisableQueue
  PROVE  SyncInv'
<1>0. SyncTypes /\ Protocol /\ Contents /\ Stranded
  BY DEF SyncInv
<1>1. PICK n, rest : n = Head(control.todo) /\ rest = Tail(control.todo)
  OBVIOUS
<1>2. /\ control.at = "stopping" /\ control.todo # <<>>
      /\ q' = [q EXCEPT ![n] = Disabled]
      /\ control' = [control EXCEPT !.todo = rest]
      /\ UNCHANGED <<slot, running, waiting_for_clean_depth_ts, sync_captures, synchronized_images_only,
                     depth_delay_off_color_usec, lock, call, clock, seen>>
  BY <1>1 DEF DisableQueue, config
<1>3. control \in [at : {"idle", "starting", "stopping"}, todo : ToSwitch \cup {<<>>}]
  BY <1>0 DEF SyncTypes
<1>4. /\ n \in Queues /\ rest \in ToSwitch \cup {<<>>}
      /\ \A x : (\E k \in DOMAIN control.todo : control.todo[k] = x)
                  => x = n \/ \E k \in DOMAIN rest : rest[k] = x
  <2>1. PICK names : names = control.todo
    OBVIOUS
  <2>2. names \in ToSwitch /\ n = Head(names) /\ rest = Tail(names)
    BY <1>1, <1>2, <1>3, <2>1
  <2>3. \A x : (\E k \in DOMAIN names : names[k] = x) => x = n \/ \E k \in DOMAIN rest : rest[k] = x
    BY <2>2, SwitchNames
  <2> QED
    BY <2>1, <2>2, <2>3, SwitchNames
<1>5. /\ control'.at = "stopping" /\ control'.todo = rest
      /\ control' \in [at : {"idle", "starting", "stopping"}, todo : ToSwitch \cup {<<>>}]
  BY <1>2, <1>3, <1>4
<1>7. /\ q' \in [Queues -> [on : BOOLEAN, items : Seq(Captures)]]
      /\ ~q'[n].on /\ q'[n].items = <<>>
      /\ \A m \in Queues : /\ m # n => q'[m] = q[m]
                           /\ Len(q'[m].items) <= Capacity(m)
                           /\ ~q'[m].on => q'[m].items = <<>>
                           /\ q'[m].on => q[m].on
                           /\ q[m].items = <<>> => q'[m].items = <<>>
                           /\ \A k \in DOMAIN q'[m].items : m # n /\ q'[m] = q[m]
  BY <1>0, <1>2, <1>4, QueueOff
<1>8. SyncTypes'
  BY <1>0, <1>2, <1>5, <1>7 DEF SyncTypes
<1>9. "color" \in Queues /\ "depth" \in Queues /\ "sync" \in Queues /\ \A x \in Sensors : x \in Queues
  BY DEF Queues, Sensors
<1>10. Protocol'
  <2>1. q'["depth"].on => q["depth"].on
    BY <1>7, <1>9
  <2> QED
    BY <1>0, <1>2, <1>5, <2>1 DEF Protocol
<1>11. Contents'
  <2>1. \A x \in Sensors :
         \A k \in DOMAIN q'[x].items :
            q'[x].items[k].sensor = x /\ q'[x].items[k].merged = None /\ q'[x].items[k].ts # Unclean
    BY <1>0, <1>7, <1>9 DEF Contents
  <2>2. \A k \in DOMAIN q'["sync"].items :
          /\ q'["sync"].items[k].merged # None => q'["sync"].items[k].sensor = "depth"
          /\ q'["sync"].items[k].ts # Unclean
    BY <1>0, <1>7, <1>9 DEF Contents
  <2> QED
    BY <1>0, <1>2, <1>7, <2>1, <2>2 DEF Contents
<1>12. Stranded'
  <2>1. \A x \in Sensors : Refilling(x)' <=> Refilling(x)
    BY <1>2 DEF Refilling
  <2>2. BothPending' <=> BothPending
    BY <1>2 DEF BothPending
  <2>3. \A x \in Sensors : q[x].items = <<>> => q'[x].items = <<>>
    BY <1>7, <1>9
  <2>4. \A m \in Queues : ~q'[m].on \/ \E k \in DOMAIN control'.todo : control'.todo[k] = m
    <3> SUFFICES ASSUME NEW m \in Queues, q'[m].on
                 PROVE  \E k \in DOMAIN rest : rest[k] = m
      BY <1>5
    <3>1. m # n /\ q[m].on
      BY <1>7
    <3>2. \E k \in DOMAIN control.todo : control.todo[k] = m
      BY <1>0, <1>2, <3>1 DEF Stranded
    <3> QED
      BY <1>4, <3>1, <3>2
  <2> QED
    BY <1>0, <1>2, <1>5, <2>1, <2>2, <2>3, <2>4 DEF Stranded
<1> QED
  BY <1>8, <1>10, <1>11, <1>12 DEF SyncInv

LEMMA StopReturnsKeeps ==
  ASSUME SyncInv, StopReturns
  PROVE  SyncInv'
<1>0. SyncTypes /\ Protocol /\ Contents /\ Stranded
  BY DEF SyncInv
<1>1. /\ control.at = "stopping" /\ control.todo = <<>>
      /\ slot' = [s \in Sensors |-> None] /\ lock' = None
      /\ control' = [control EXCEPT !.at = "idle"]
      /\ UNCHANGED <<q, running, waiting_for_clean_depth_ts, sync_captures, synchronized_images_only,
                     depth_delay_off_color_usec, call, clock, seen>>
  BY DEF StopReturns, StopEnds, config
<1>2. /\ control'.at = "idle"
      /\ control' \in [at : {"idle", "starting", "stopping"}, todo : ToSwitch \cup {<<>>}]
  BY <1>0, <1>1 DEF SyncTypes
<1>3. None \notin Sensors /\ None # "control" /\ "control" \notin Sensors
  BY SyncAssumption DEF Sensors
<1>4. lock = "control" /\ ~running
  BY <1>0, <1>1 DEF Protocol
<1>5. \A n \in Queues : ~q[n].on /\ q[n].items = <<>>
  <2>1. \A n \in Queues : ~q[n].on
    BY <1>0, <1>1 DEF Stranded
  <2> QED
    BY <1>0, <2>1 DEF Contents
<1>6. SyncTypes'
  BY <1>0, <1>1, <1>2 DEF SyncTypes
<1>7. Protocol'
  <2>1. \A u \in Sensors : call[u].at \notin {"match", "refill"}
    BY <1>0, <1>3, <1>4 DEF Protocol
  <2>2. ~q["depth"].on
    BY <1>5 DEF Queues, Sensors
  <2> QED
    BY <1>0, <1>1, <1>2, <1>3, <1>4, <2>1, <2>2 DEF Protocol
<1>8. Contents'
  BY <1>0, <1>1 DEF Contents
<1>9. Stranded'
  <2>1. \A x \in Sensors : slot'[x] = None /\ q'[x].items = <<>>
    BY <1>1, <1>5 DEF Queues
  <2>2. \A x \in Sensors : ~Refilling(x)'
    BY <1>0, <1>1, <1>3, <1>4 DEF Refilling, Protocol
  <2>3. ~BothPending'
    BY <2>1 DEF BothPending, Sensors
  <2>4. \A n \in Queues : q'[n].items = <<>>
    BY <1>1, <1>5
  <2>5. control'.at # "stopping"
    BY <1>2
  <2> QED
    BY <2>1, <2>2, <2>3, <2>4, <2>5 DEF Stranded
<1> QED
  BY <1>6, <1>7, <1>8, <1>9 DEF SyncInv

-----------------------------------------------------------------------------
LEMMA SyncInit == Init => SyncInv
<1> SUFFICES ASSUME Init PROVE SyncInv
  OBVIOUS
<1>1. None \notin Sensors /\ None # "control"
  BY SyncAssumption
<1>2. Disabled \in [on : BOOLEAN, items : Seq(Captures)] /\ ~Disabled.on /\ Disabled.items = <<>>
  BY DEF Disabled
<1>3. /\ q = [n \in Queues |-> Disabled] /\ slot = [s \in Sensors |-> None]
      /\ lock = None /\ call = [s \in Sensors |-> Idle]
      /\ control = [at |-> "idle", todo |-> <<>>]
      /\ clock = [s \in Sensors |-> -1] /\ seen = [s \in Sensors |-> -1]
      /\ running = FALSE /\ sync_captures = FALSE
  BY DEF Init
<1>4. -1 \in -1 .. MaxTs
  BY SyncAssumption
<1>5. /\ control.at = "idle" /\ control \in [at : {"idle", "starting", "stopping"}, todo : ToSwitch \cup {<<>>}]
  BY <1>3
<1>6. /\ \A n \in Queues : q[n] = Disabled
      /\ \A s \in Sensors : slot[s] = None /\ call[s] = Idle
  BY <1>3
<1>7. SyncTypes
  <2>1. q \in [Queues -> [on : BOOLEAN, items : Seq(Captures)]]
    BY <1>2, <1>3
  <2>2. call \in [Sensors -> CallRecord]
    BY <1>3, IdleFacts
  <2>3. clock \in [Sensors -> -1 .. MaxTs] /\ seen \in [Sensors -> -1 .. MaxTs]
    BY <1>3, <1>4
  <2> QED
    <3>1. /\ running \in BOOLEAN /\ waiting_for_clean_depth_ts \in BOOLEAN
          /\ sync_captures \in BOOLEAN /\ synchronized_images_only \in BOOLEAN
      BY DEF Init
    <3>2. depth_delay_off_color_usec \in Int
      BY DEF Init
    <3>3. lock \in Sensors \cup {"control", None} /\ slot \in [Sensors -> Captures \cup {None}]
      BY <1>3
    <3> QED
      BY <1>5, <2>1, <2>2, <2>3, <3>1, <3>2, <3>3 DEF SyncTypes, CallRecord
<1>8. \A n \in Queues : ~q[n].on /\ q[n].items = <<>>
  BY <1>2, <1>6
<1>9. \A s \in Sensors : call[s].at = "idle" /\ call[s].capture = None /\ call[s].wresult = "SUCCEEDED"
  BY <1>6, IdleFacts
<1>10. "sync" \in Queues /\ "depth" \in Queues /\ \A s \in Sensors : s \in Queues
  BY DEF Queues, Sensors
<1>11. Protocol
  BY <1>1, <1>3, <1>5, <1>8, <1>9, <1>10 DEF Protocol
<1>12. Contents
  <2>1. \A n \in Queues : Len(q[n].items) <= Capacity(n) /\ \A k \in DOMAIN q[n].items : FALSE
    BY <1>8, CapacityType
  <2> QED
    BY <1>6, <1>8, <1>9, <1>10, <2>1 DEF Contents
<1>13. Stranded
  <2>1. \A x \in Sensors : ~Refilling(x) /\ slot[x] = None /\ q[x].items = <<>>
    BY <1>6, <1>8, <1>9, <1>10 DEF Refilling
  <2>2. ~BothPending
    BY <2>1 DEF BothPending, Sensors
  <2> QED
    BY <1>5, <1>8, <2>1, <2>2 DEF Stranded
<1> QED
  BY <1>7, <1>11, <1>12, <1>13 DEF SyncInv

LEMMA SyncStutter ==
  ASSUME SyncInv, UNCHANGED vars
  PROVE  SyncInv'
<1>1. UNCHANGED <<q, slot, running, waiting_for_clean_depth_ts, sync_captures, synchronized_images_only,
                  depth_delay_off_color_usec, lock, call, control, clock, seen>>
  BY DEF vars, config
<1>2. SyncTypes'
  BY <1>1 DEF SyncInv, SyncTypes
<1>3. Protocol'
  BY <1>1 DEF SyncInv, Protocol
<1>4. Contents'
  BY <1>1 DEF SyncInv, Contents
<1>5. Stranded'
  BY <1>1 DEF SyncInv, Stranded, BothPending, Refilling
<1> QED
  BY <1>2, <1>3, <1>4, <1>5 DEF SyncInv

LEMMA SyncNext ==
  ASSUME SyncInv, [Next]_vars
  PROVE  SyncInv'
<1>1. CASE \E s \in Sensors : AddCapture(s) \/ AddFailed(s) \/ AddSteps(s)
  <2>1. PICK s \in Sensors : AddCapture(s) \/ AddFailed(s) \/ AddSteps(s)
    BY <1>1
  <2> QED
    BY <2>1, AddCaptureKeeps, AddFailedKeeps, AddPassedKeeps, AddStoredKeeps, MatchEndsKeeps,
       MatchDropsKeeps, MatchMergesKeeps, RefillKeeps, StopQueueKeeps DEF AddSteps
<1>2. CASE GetCapture \/ CaptureSyncStart \/ StartRefused \/ CaptureSyncStop
  BY <1>2, GetCaptureKeeps, CaptureSyncStartKeeps, StartRefusedKeeps, CaptureSyncStopKeeps
<1>3. CASE ControlSteps
  BY <1>3, StartQueueKeeps, DisableQueueKeeps, StopReturnsKeeps DEF ControlSteps
<1>4. CASE UNCHANGED vars
  BY <1>4, SyncStutter
<1> QED
  BY <1>1, <1>2, <1>3, <1>4 DEF Next

LEMMA SyncInvariant == Spec => []SyncInv
<1>1. Init => SyncInv
  BY SyncInit
<1>2. SyncInv /\ [Next]_vars => SyncInv'
  BY SyncNext
<1> QED
  BY <1>1, <1>2, PTL DEF Spec

(* No capture is stranded (add_capture's loop, drop_sample and             *)
(* capturesync_stop): outside add_capture one of the slots is empty and    *)
(* nothing is queued behind an empty slot, and a stopped synchronizer      *)
(* holds nothing that could reach the next session.                        *)
THEOREM NothingIsStranded == Spec => []NothingStranded
<1>1. SyncInv => NothingStranded
  <2> SUFFICES ASSUME SyncInv PROVE NothingStranded
    OBVIOUS
  <2>1. Stranded /\ Protocol
    BY DEF SyncInv
  <2>2. lock \notin Sensors => \A x \in Sensors : ~Refilling(x)
    BY <2>1 DEF Protocol, Refilling
  <2> QED
    BY <2>1, <2>2 DEF Stranded, NothingStranded
<1> QED
  BY <1>1, SyncInvariant, PTL

-----------------------------------------------------------------------------
(* What the user gets                                                      *)

(* What DeliversPairs asks of one capture.                                 *)
Deliverable(c) ==
  /\ c.merged # None =>
       LET off == c.ts - c.merged - depth_delay_off_color_usec
           late == IF depth_delay_off_color_usec < 0 THEN -off ELSE off
       IN  late \in -fps_1_quarter_period .. fps_period
  /\ sync_captures /\ synchronized_images_only => c.merged # None

LEMMA DeliverableAll ==
  DeliversPairs <=> \A k \in DOMAIN q["sync"].items : Deliverable(q["sync"].items[k])
<1> DEFINE Late(c) == LET off == c.ts - c.merged - depth_delay_off_color_usec
                      IN  IF depth_delay_off_color_usec < 0 THEN -off ELSE off
           Within(c) == Late(c) \in -fps_1_quarter_period .. fps_period
<1>1. \A c : Deliverable(c) <=> /\ c.merged # None => Within(c)
                                /\ sync_captures /\ synchronized_images_only => c.merged # None
  BY DEF Deliverable
<1>2. PairsWithinPeriod <=> \A k \in DOMAIN q["sync"].items :
                              q["sync"].items[k].merged # None => Within(q["sync"].items[k])
  BY DEF PairsWithinPeriod
<1> HIDE DEF Within
<1> QED
  BY <1>1, <1>2 DEF DeliversPairs, OnlyPairs

(* The window of the match loop puts the two images of a pair within the   *)
(* period, near timestamp zero too, where TS_SUBTRACT and TS_ADD stop at   *)
(* zero.                                                                   *)
LEMMA MergeInWindow ==
  ASSUME NEW tc \in Nat, NEW td \in Nat, depth_delay_off_color_usec \in Int,
         Judgement(tc, td) = "merge"
  PROVE  LET off == td - tc - depth_delay_off_color_usec
             late == IF depth_delay_off_color_usec < 0 THEN -off ELSE off
         IN  late \in -fps_1_quarter_period .. fps_period
<1>1. PICK p, quarter, delay : p = fps_period /\ quarter = fps_1_quarter_period /\ delay = depth_delay_off_color_usec
  OBVIOUS
<1>2. p \in Nat /\ quarter \in Nat /\ delay \in Int
  <2>1. fps_period \in Nat /\ fps_period \div 4 \in Nat
    BY SyncAssumption
  <2> QED
    BY <1>1, <2>1 DEF fps_1_quarter_period
<1>3. CASE delay < 0
  <2>1. PICK begin : begin = BeginWindow(tc, td)
    OBVIOUS
  <2>2. begin = (IF td <= quarter THEN 0 ELSE td - quarter) - delay
    BY <1>1, <1>2, <1>3, <2>1 DEF BeginWindow, TS_SUBTRACT
  <2>3. ~(tc > begin + p) /\ ~(tc < begin)
    BY <1>1, <1>3, <2>1 DEF Judgement
  <2>4. -(td - tc - delay) \in -quarter .. p
    BY <1>2, <1>3, <2>2, <2>3
  <2> QED
    BY <1>1, <1>3, <2>4
<1>4. CASE ~(delay < 0)
  <2>1. PICK begin : begin = BeginWindow(tc, td)
    OBVIOUS
  <2>2. begin = (IF tc <= quarter THEN 0 ELSE tc - quarter) + delay
    BY <1>1, <1>2, <1>4, <2>1 DEF BeginWindow, TS_SUBTRACT, TS_ADD
  <2>3. ~(td > begin + p) /\ ~(td < begin)
    BY <1>1, <1>4, <2>1 DEF Judgement
  <2>4. (td - tc - delay) \in -quarter .. p
    BY <1>2, <1>4, <2>2, <2>3
  <2> QED
    BY <1>1, <1>4, <2>4
<1> QED
  BY <1>3, <1>4

(* The configuration stays, and whatever waits for the user waited before  *)
(* or is deliverable.                                                      *)
LEMMA DeliverableKept ==
  ASSUME DeliversPairs, NEW c, Deliverable(c),
         UNCHANGED <<sync_captures, synchronized_images_only, depth_delay_off_color_usec>>,
         \A k \in DOMAIN q'["sync"].items :
           \/ q'["sync"].items[k] = c
           \/ \E l \in DOMAIN q["sync"].items : q'["sync"].items[k] = q["sync"].items[l]
  PROVE  DeliversPairs'
<1>1. \A x : Deliverable(x)' <=> Deliverable(x)
  BY DEF Deliverable
<1>2. \A k \in DOMAIN q["sync"].items : Deliverable(q["sync"].items[k])
  BY DeliverableAll
<1>3. \A k \in DOMAIN q'["sync"].items : Deliverable(q'["sync"].items[k])
  BY <1>2
<1>4. (\A k \in DOMAIN q["sync"].items : Deliverable(q["sync"].items[k]))'
  BY <1>1, <1>3
<1> QED
  BY <1>4, DeliverableAll, PTL

LEMMA DeliverableShrinks ==
  ASSUME DeliversPairs,
         UNCHANGED <<sync_captures, synchronized_images_only, depth_delay_off_color_usec>>,
         \A k \in DOMAIN q'["sync"].items :
           \E l \in DOMAIN q["sync"].items : q'["sync"].items[k] = q["sync"].items[l]
  PROVE  DeliversPairs'
<1>1. \A x : Deliverable(x)' <=> Deliverable(x)
  BY DEF Deliverable
<1>2. \A k \in DOMAIN q["sync"].items : Deliverable(q["sync"].items[k])
  BY DeliverableAll
<1>3. \A k \in DOMAIN q'["sync"].items : Deliverable(q'["sync"].items[k])
  BY <1>2
<1>4. (\A k \in DOMAIN q["sync"].items : Deliverable(q["sync"].items[k]))'
  BY <1>1, <1>3
<1> QED
  BY <1>4, DeliverableAll, PTL

(* The captures that waited for the user and the one that may be pushed.   *)
LEMMA PushedForUser ==
  ASSUME SyncInv, DeliversPairs, NEW c \in Captures, Deliverable(c),
         UNCHANGED <<sync_captures, synchronized_images_only, depth_delay_off_color_usec>>,
         q'["sync"] = Pushed("sync", c) \/ q'["sync"] = q["sync"]
  PROVE  DeliversPairs'
<1>1. SyncTypes /\ Contents /\ "sync" \in Queues
  BY DEF SyncInv, Queues
<1>2. CASE q'["sync"] = q["sync"]
  BY <1>2, DeliverableShrinks
<1>3. CASE q'["sync"] = Pushed("sync", c)
  <2>1. \A k \in DOMAIN q'["sync"].items :
           \/ q'["sync"].items[k] = c
           \/ \E l \in DOMAIN q["sync"].items : q'["sync"].items[k] = q["sync"].items[l]
    BY <1>1, <1>3, PushedMembers
  <2> QED
    BY <2>1, DeliverableKept
<1> QED
  BY <1>2, <1>3

LEMMA StoredForUser ==
  ASSUME SyncInv, DeliversPairs, NEW s \in Sensors, AddStored(s)
  PROVE  DeliversPairs'
<1>1. PICK c : c = call[s].capture
  OBVIOUS
<1>2. UNCHANGED <<sync_captures, synchronized_images_only, depth_delay_off_color_usec>>
  BY DEF AddStored, config
<1>3. StoredInSlot(s, c) \/ StoredForOldest(s, c) \/ StoredInQueue(s, c)
  BY <1>1, StoreCases DEF AddStored
<1>4. s # "sync" /\ q \in [Queues -> [on : BOOLEAN, items : Seq(Captures)]] /\ s \in Queues /\ "sync" \in Queues
  BY DEF SyncInv, SyncTypes, Sensors, Queues
<1>5. CASE StoredInSlot(s, c) \/ StoredInQueue(s, c)
  <2>1. q'["sync"] = q["sync"]
    BY <1>4, <1>5 DEF StoredInSlot, StoredInQueue
  <2> QED
    BY <1>2, <2>1, DeliverableShrinks
<1>6. CASE StoredForOldest(s, c)
  <2>1. PICK d : d = slot[s]
    OBVIOUS
  <2>2. d \in Captures /\ d.merged = None
    BY <1>6, <2>1 DEF StoredForOldest, SyncInv, SyncTypes, Contents
  <2>3. q'["sync"] = SyncAfterDrop(d)
    BY <1>4, <1>6, <2>1 DEF StoredForOldest
  <2>4. CASE synchronized_images_only
    BY <1>2, <2>3, <2>4, DeliverableShrinks DEF SyncAfterDrop
  <2>5. CASE ~synchronized_images_only
    <3>1. Deliverable(d)
      BY <2>2, <2>5 DEF Deliverable
    <3>2. q'["sync"] = Pushed("sync", d)
      BY <2>3, <2>5 DEF SyncAfterDrop
    <3> QED
      BY <1>2, <2>2, <3>1, <3>2, PushedForUser
  <2> QED
    BY <2>4, <2>5
<1> QED
  BY <1>3, <1>5, <1>6

LEMMA PassedForUser ==
  ASSUME SyncInv, DeliversPairs, NEW s \in Sensors, AddPassed(s)
  PROVE  DeliversPairs'
<1>1. PICK c : c = call[s].capture
  OBVIOUS
<1>2. /\ call[s].at = "lock"
      /\ UNCHANGED <<sync_captures, synchronized_images_only, depth_delay_off_color_usec>>
      /\ \/ ~sync_captures /\ q' = [q EXCEPT !["sync"] = Pushed("sync", c)]
         \/ q' = q
  BY <1>1 DEF AddPassed, config
<1>3. c \in Captures /\ c.merged = None
  BY <1>1, <1>2, Brought
<1>4. CASE q' = q
  BY <1>2, <1>4, DeliverableShrinks
<1>5. CASE ~sync_captures /\ q' = [q EXCEPT !["sync"] = Pushed("sync", c)]
  <2>1. Deliverable(c)
    BY <1>3, <1>5 DEF Deliverable
  <2>2. q'["sync"] = Pushed("sync", c)
    BY <1>5 DEF SyncInv, SyncTypes, Queues
  <2> QED
    BY <1>2, <1>3, <2>1, <2>2, PushedForUser
<1> QED
  BY <1>2, <1>4, <1>5

LEMMA DroppedForUser ==
  ASSUME SyncInv, DeliversPairs, NEW s \in Sensors, MatchDrops(s)
  PROVE  DeliversPairs'
<1>1. PICK which : which = Judgement(slot["color"].ts, slot["depth"].ts)
  OBVIOUS
<1>2. PICK c : c = slot[which]
  OBVIOUS
<1>3. /\ BothPending /\ which # "merge"
      /\ q' = [q EXCEPT !["sync"] = SyncAfterDrop(c)]
      /\ UNCHANGED <<sync_captures, synchronized_images_only, depth_delay_off_color_usec>>
  BY <1>1, <1>2 DEF MatchDrops, config
<1>4. which \in Sensors
  BY <1>1, <1>3, JudgementType
<1>5. c \in Captures /\ c.merged = None
  BY <1>2, <1>3, <1>4, Pending
<1>6. q'["sync"] = SyncAfterDrop(c)
  BY <1>3 DEF SyncInv, SyncTypes, Queues
<1>7. CASE synchronized_images_only
  BY <1>3, <1>6, <1>7, DeliverableShrinks DEF SyncAfterDrop
<1>8. CASE ~synchronized_images_only
  <2>1. Deliverable(c)
    BY <1>5, <1>8 DEF Deliverable
  <2>2. q'["sync"] = Pushed("sync", c)
    BY <1>6, <1>8 DEF SyncAfterDrop
  <2> QED
    BY <1>3, <1>5, <2>1, <2>2, PushedForUser
<1> QED
  BY <1>7, <1>8

LEMMA MergedForUser ==
  ASSUME SyncInv, DeliversPairs, NEW s \in Sensors, MatchMerges(s)
  PROVE  DeliversPairs'
<1>1. PICK c : c = merge_captures(slot["depth"], slot["color"])
  OBVIOUS
<1>2. /\ BothPending
      /\ Judgement(slot["color"].ts, slot["depth"].ts) = "merge"
      /\ q' = [q EXCEPT !["sync"] = Pushed("sync", c)]
      /\ UNCHANGED <<sync_captures, synchronized_images_only, depth_delay_off_color_usec>>
  BY <1>1 DEF MatchMerges, config
<1>3. /\ c \in Captures /\ c.ts = slot["depth"].ts /\ c.merged = slot["color"].ts /\ c.merged # None
  BY <1>1, <1>2, MergeFacts
<1>4. slot["color"].ts \in Nat /\ slot["depth"].ts \in Nat
  <2>1. slot["color"].ts \in 0 .. MaxTs /\ slot["depth"].ts \in 0 .. MaxTs
    BY <1>2, Pending DEF Sensors
  <2> QED
    BY <2>1, SyncAssumption
<1>5. PICK tc, td : tc = slot["color"].ts /\ td = slot["depth"].ts
  OBVIOUS
<1>6. LET off == td - tc - depth_delay_off_color_usec
          late == IF depth_delay_off_color_usec < 0 THEN -off ELSE off
      IN  late \in -fps_1_quarter_period .. fps_period
  <2>1. tc \in Nat /\ td \in Nat /\ depth_delay_off_color_usec \in Int /\ Judgement(tc, td) = "merge"
    BY <1>2, <1>4, <1>5 DEF SyncInv, SyncTypes
  <2> QED
    BY <2>1, MergeInWindow
<1>7. c.ts = td /\ c.merged = tc
  BY <1>3, <1>5
<1>8. Deliverable(c)
  BY <1>3, <1>6, <1>7 DEF Deliverable
<1>9. q'["sync"] = Pushed("sync", c)
  BY <1>2 DEF SyncInv, SyncTypes, Queues
<1> QED
  BY <1>2, <1>3, <1>8, <1>9, PushedForUser

LEMMA OthersForUser ==
  ASSUME SyncInv, DeliversPairs,
         \/ \E s \in Sensors : AddCapture(s) \/ AddFailed(s) \/ MatchEnds(s) \/ Refill(s) \/ StopQueue(s)
         \/ GetCapture \/ CaptureSyncStop \/ ControlSteps \/ UNCHANGED vars
  PROVE  DeliversPairs'
<1>0. SyncTypes /\ Protocol /\ Contents /\ "sync" \in Queues
  BY DEF SyncInv, Queues
<1>1. UNCHANGED <<sync_captures, synchronized_images_only, depth_delay_off_color_usec>>
  BY DEF AddCapture, AddFailed, MatchEnds, Refill, StopQueue, GetCapture, CaptureSyncStop, ControlSteps,
         StartQueue, DisableQueue, StopReturns, config, vars
<1>2. CASE q'["sync"].items = q["sync"].items
  BY <1>1, <1>2, DeliverableShrinks
<1>3. CASE q'["sync"].items = <<>>
  <2>1. \A k \in DOMAIN q'["sync"].items : FALSE
    BY <1>3
  <2> QED
    BY <1>1, <2>1, DeliverableShrinks
<1>4. ASSUME NEW s \in Sensors, AddCapture(s) \/ AddFailed(s) \/ MatchEnds(s)
      PROVE  q'["sync"].items = q["sync"].items
  BY <1>4 DEF AddCapture, AddFailed, MatchEnds
<1>5. ASSUME NEW s \in Sensors, Refill(s)
      PROVE  q'["sync"].items = q["sync"].items
  <2>1. PICK which, rest : which = Head(call[s].todo) /\ rest = Tail(call[s].todo)
    OBVIOUS
  <2>2. Refills(s, which, rest)
    BY <1>5, <2>1, RefillFacts
  <2>3. call[s].todo \in ToRefill
    BY <2>2 DEF Refills
  <2>4. which \in Sensors
    BY <2>1, <2>3, RefillNames
  <2>5. q'["sync"] = q["sync"]
    BY <1>0, <2>2, <2>4, RefillContents DEF Sensors
  <2> QED
    BY <2>5
<1>6. ASSUME NEW n, q' = [q EXCEPT ![n] = Disabled]
      PROVE  q'["sync"].items = q["sync"].items \/ q'["sync"].items = <<>>
  <2>1. CASE n \in Queues
    <3>1. ~q'[n].on /\ q'[n].items = <<>> /\ \A m \in Queues : m # n => q'[m] = q[m]
      BY <1>0, <1>6, <2>1, QueueOff
    <3> QED
      BY <1>0, <3>1
  <2>2. CASE n \notin Queues
    BY <1>0, <1>6, <2>2 DEF SyncTypes
  <2> QED
    BY <2>1, <2>2
<1>7. ASSUME NEW s \in Sensors, StopQueue(s)
      PROVE  q'["sync"].items = q["sync"].items \/ q'["sync"].items = <<>>
  BY <1>6, <1>7 DEF StopQueue
<1>8. ASSUME DisableQueue
      PROVE  q'["sync"].items = q["sync"].items \/ q'["sync"].items = <<>>
  BY <1>6, <1>8 DEF DisableQueue
<1>9. ASSUME StartQueue
      PROVE  q'["sync"].items = q["sync"].items
  <2>1. PICK n : q' = [q EXCEPT ![n].on = TRUE]
    BY <1>9 DEF StartQueue
  <2>2. q \in [Queues -> [on : BOOLEAN, items : Seq(Captures)]]
    BY <1>0 DEF SyncTypes
  <2> QED
    BY <1>0, <2>1, <2>2
<1>10. ASSUME CaptureSyncStop \/ StopReturns \/ UNCHANGED vars
       PROVE  q'["sync"].items = q["sync"].items
  BY <1>10 DEF CaptureSyncStop, StopReturns, vars
<1>11. CASE GetCapture
  <2>1. \A k \in DOMAIN q'["sync"].items :
          k + 1 \in DOMAIN q["sync"].items /\ q'["sync"].items[k] = q["sync"].items[k + 1]
    BY <1>11, QueueAfterGet
  <2> QED
    BY <1>1, <2>1, DeliverableShrinks
<1> QED
  BY <1>2, <1>3, <1>4, <1>5, <1>7, <1>8, <1>9, <1>10, <1>11 DEF ControlSteps

LEMMA StartForUser ==
  ASSUME SyncInv, CaptureSyncStart \/ StartRefused
  PROVE  DeliversPairs'
<1>1. control.at = "idle" /\ ~running /\ q' = q
  BY DEF CaptureSyncStart, StartRefused
<1>2. q'["sync"].items = <<>>
  BY <1>1 DEF SyncInv, Stranded, Queues
<1>3. \A k \in DOMAIN q'["sync"].items : FALSE
  BY <1>2
<1>4. (\A k \in DOMAIN q["sync"].items : Deliverable(q["sync"].items[k]))'
  BY <1>3
<1> QED
  BY <1>4, DeliverableAll, PTL

(* What the user gets is what the configuration promises: in a pair the    *)
(* second image is at most a quarter period early and a period late, for   *)
(* any rate and delay, and with synchronized_images_only he gets pairs     *)
(* only (the match loop, replace_sample and drop_sample).                  *)
THEOREM PairsAreDelivered == Spec => []DeliversPairs
<1>1. Init => DeliversPairs
  <2> SUFFICES ASSUME Init PROVE DeliversPairs
    OBVIOUS
  <2>1. q["sync"].items = <<>>
    BY DEF Init, Disabled, Queues
  <2>2. \A k \in DOMAIN q["sync"].items : FALSE
    BY <2>1
  <2> QED
    BY <2>2, DeliverableAll
<1>2. SyncInv /\ DeliversPairs /\ [Next]_vars => DeliversPairs'
  <2> SUFFICES ASSUME SyncInv, DeliversPairs, [Next]_vars PROVE DeliversPairs'
    OBVIOUS
  <2>1. ASSUME NEW s \in Sensors, AddSteps(s) PROVE DeliversPairs'
    BY <2>1, PassedForUser, StoredForUser, DroppedForUser, MergedForUser, OthersForUser DEF AddSteps
  <2>2. CASE CaptureSyncStart \/ StartRefused
    BY <2>2, StartForUser
  <2> QED
    BY <2>1, <2>2, OthersForUser DEF Next
<1> QED
  BY <1>1, <1>2, SyncInvariant, PTL DEF Spec

-----------------------------------------------------------------------------
(* The order of the images of one sensor, from the thread that brings one  *)
(* to the user.                                                            *)

(* A time before the slot, the queue and the capture that is brought, and  *)
(* not after the sensor's clock.                                           *)
IsBefore(t, sl, items, in, ck) ==
  /\ sl # None => t < sl.ts
  /\ \A k \in DOMAIN items : t < items[k].ts
  /\ in # None => t < in.ts
  /\ t <= ck

(* The images of sensor x are in order: the last one the user got, those   *)
(* that wait for him, the one in the slot, those in the sensor's queue and *)
(* the one a thread is about to store; ck is the sensor's clock.           *)
InLine(x, last, wait, sl, items, in, ck) ==
  /\ IsBefore(last, sl, items, in, ck)
  /\ \A k \in DOMAIN wait : Carries(wait[k], x) =>
       /\ last < TakenAt(wait[k], x)
       /\ \A l \in DOMAIN wait : k < l /\ Carries(wait[l], x) => TakenAt(wait[k], x) < TakenAt(wait[l], x)
       /\ IsBefore(TakenAt(wait[k], x), sl, items, in, ck)
  /\ sl # None => IsBefore(sl.ts, None, items, in, ck)
  /\ \A k \in DOMAIN items :
       /\ \A l \in DOMAIN items : k < l => items[k].ts < items[l].ts
       /\ in # None => items[k].ts < in.ts
       /\ items[k].ts <= ck
  /\ in # None => in.ts = Unclean \/ in.ts <= ck

(* Their types, so that the lemmas can name them.                          *)
LineTypes(last, wait, sl, items, in, ck) ==
  /\ last \in Int /\ ck \in Int
  /\ wait \in Seq(Captures) /\ items \in Seq(Captures)
  /\ sl \in Captures \cup {None} /\ in \in Captures \cup {None}

LEMMA CaptureTimes ==
  ASSUME NEW c \in Captures
  PROVE  /\ c.ts \in Int /\ c # None
         /\ \A x : Carries(c, x) => TakenAt(c, x) \in Int
<1>1. c.ts \in 0 .. MaxTs \cup {Unclean} /\ c.merged \in 0 .. MaxTs \cup {None}
  BY DEF Captures
<1>2. c.ts \in Int /\ (c.merged # None => c.merged \in Int)
  BY <1>1, UncleanIsLater, SyncAssumption
<1>3. c # None
  BY SyncAssumption
<1> QED
  BY <1>2, <1>3 DEF Carries, TakenAt

(* The oldest captures that wait, or all of them, go.                      *)
LEMMA LineWaitShift ==
  ASSUME NEW x, NEW last, NEW wait, NEW sl, NEW items, NEW in, NEW ck,
         LineTypes(last, wait, sl, items, in, ck), InLine(x, last, wait, sl, items, in, ck),
         NEW new \in Seq(Captures), NEW d \in Nat,
         \A k \in DOMAIN new : k + d \in DOMAIN wait /\ new[k] = wait[k + d]
  PROVE  InLine(x, last, new, sl, items, in, ck)
<1>1. \A k \in DOMAIN new : k \in Int
  OBVIOUS
<1>2. ASSUME NEW k \in DOMAIN new, Carries(new[k], x)
      PROVE  /\ last < TakenAt(new[k], x)
             /\ \A l \in DOMAIN new : k < l /\ Carries(new[l], x) => TakenAt(new[k], x) < TakenAt(new[l], x)
             /\ IsBefore(TakenAt(new[k], x), sl, items, in, ck)
  <2>1. k + d \in DOMAIN wait /\ new[k] = wait[k + d] /\ Carries(wait[k + d], x)
    BY <1>2
  <2>2. ASSUME NEW l \in DOMAIN new, k < l, Carries(new[l], x)
        PROVE  TakenAt(new[k], x) < TakenAt(new[l], x)
    <3>1. l + d \in DOMAIN wait /\ new[l] = wait[l + d] /\ k + d < l + d
      BY <1>1, <2>2
    <3> QED
      BY <2>1, <2>2, <3>1 DEF InLine
  <2>3. last < TakenAt(new[k], x) /\ IsBefore(TakenAt(new[k], x), sl, items, in, ck)
    BY <2>1 DEF InLine
  <2> QED
    BY <2>2, <2>3
<1> QED
  BY <1>2 DEF InLine

(* The slot is given up.                                                   *)
LEMMA LineSlotGone ==
  ASSUME NEW x, NEW last, NEW wait, NEW sl, NEW items, NEW in, NEW ck,
         InLine(x, last, wait, sl, items, in, ck)
  PROVE  InLine(x, last, wait, None, items, in, ck)
<1>1. \A t : IsBefore(t, sl, items, in, ck) => IsBefore(t, None, items, in, ck)
  BY DEF IsBefore
<1> QED
  BY <1>1 DEF InLine

(* The sensor's queue is stopped.                                          *)
LEMMA LineQueueGone ==
  ASSUME NEW x, NEW last, NEW wait, NEW sl, NEW items, NEW in, NEW ck,
         InLine(x, last, wait, sl, items, in, ck)
  PROVE  InLine(x, last, wait, sl, <<>>, in, ck)
<1>1. \A k \in DOMAIN <<>> : FALSE
  OBVIOUS
<1>2. \A t, y : IsBefore(t, y, items, in, ck) => IsBefore(t, y, <<>>, in, ck)
  BY <1>1 DEF IsBefore
<1> QED
  BY <1>1, <1>2 DEF InLine

(* The capture that is brought is not for the synchronizer.                *)
LEMMA LineNotStored ==
  ASSUME NEW x, NEW last, NEW wait, NEW sl, NEW items, NEW in, NEW ck,
         InLine(x, last, wait, sl, items, in, ck)
  PROVE  InLine(x, last, wait, sl, items, None, ck)
<1>1. \A t, y : IsBefore(t, y, items, in, ck) => IsBefore(t, y, items, None, ck)
  BY DEF IsBefore
<1> QED
  BY <1>1 DEF InLine

(* A capture goes to the user: it carries no image of the sensor, or one   *)
(* that is after all that waits and before all that is behind.             *)
LEMMA LineAppend ==
  ASSUME NEW x, NEW last, NEW wait, NEW sl, NEW items, NEW in, NEW ck,
         LineTypes(last, wait, sl, items, in, ck), InLine(x, last, wait, sl, items, in, ck),
         NEW c \in Captures,
         Carries(c, x) =>
           /\ last < TakenAt(c, x)
           /\ \A k \in DOMAIN wait : Carries(wait[k], x) => TakenAt(wait[k], x) < TakenAt(c, x)
           /\ IsBefore(TakenAt(c, x), sl, items, in, ck)
  PROVE  InLine(x, last, Append(wait, c), sl, items, in, ck)
<1>1. PICK new : new = Append(wait, c)
  OBVIOUS
<1>2. PICK n : n = Len(wait)
  OBVIOUS
<1>3. wait \in Seq(Captures) /\ n \in Nat /\ DOMAIN wait = 1 .. n
  BY <1>2 DEF LineTypes
<1>4. /\ new \in Seq(Captures) /\ DOMAIN new = 1 .. n + 1 /\ new[n + 1] = c
      /\ \A k \in DOMAIN wait : new[k] = wait[k]
  BY <1>1, <1>2, <1>3, AppendFacts
<1>5. ASSUME NEW k \in DOMAIN new, Carries(new[k], x)
      PROVE  /\ last < TakenAt(new[k], x)
             /\ \A l \in DOMAIN new : k < l /\ Carries(new[l], x) => TakenAt(new[k], x) < TakenAt(new[l], x)
             /\ IsBefore(TakenAt(new[k], x), sl, items, in, ck)
  <2>1. CASE k = n + 1
    <3>1. \A l \in DOMAIN new : ~(k < l)
      BY <1>3, <1>4, <2>1
    <3> QED
      BY <1>4, <1>5, <2>1, <3>1
  <2>2. CASE k # n + 1
    <3>1. k \in DOMAIN wait /\ new[k] = wait[k] /\ Carries(wait[k], x)
      BY <1>3, <1>4, <1>5, <2>2
    <3>2. ASSUME NEW l \in DOMAIN new, k < l, Carries(new[l], x)
          PROVE  TakenAt(new[k], x) < TakenAt(new[l], x)
      <4>1. CASE l = n + 1
        BY <1>4, <3>1, <3>2, <4>1
      <4>2. CASE l # n + 1
        <5>1. l \in DOMAIN wait /\ new[l] = wait[l]
          BY <1>3, <1>4, <4>2
        <5> QED
          BY <3>1, <3>2, <5>1 DEF InLine
      <4> QED
        BY <4>1, <4>2
    <3> QED
      BY <3>1, <3>2 DEF InLine
  <2> QED
    BY <2>1, <2>2
<1> QED
  BY <1>1, <1>5 DEF InLine

(* The capture in the slot goes to the user, alone or in a pair.           *)
LEMMA LineSlotSent ==
  ASSUME NEW x, NEW last, NEW wait, NEW sl, NEW items, NEW in, NEW ck,
         LineTypes(last, wait, sl, items, in, ck), InLine(x, last, wait, sl, items, in, ck),
         NEW c \in Captures, sl # None, Carries(c, x) => TakenAt(c, x) = sl.ts
  PROVE  InLine(x, last, Append(wait, c), None, items, in, ck)
<1>1. InLine(x, last, wait, None, items, in, ck)
  BY LineSlotGone
<1>2. LineTypes(last, wait, None, items, in, ck)
  BY DEF LineTypes
<1>3. PICK t : t = sl.ts
  OBVIOUS
<1>4. /\ last < t
      /\ \A k \in DOMAIN wait : Carries(wait[k], x) => TakenAt(wait[k], x) < t
      /\ IsBefore(t, None, items, in, ck)
  BY <1>3 DEF InLine, IsBefore
<1>5. Carries(c, x) =>
           /\ last < TakenAt(c, x)
           /\ \A k \in DOMAIN wait : Carries(wait[k], x) => TakenAt(wait[k], x) < TakenAt(c, x)
           /\ IsBefore(TakenAt(c, x), None, items, in, ck)
  BY <1>3, <1>4
<1> QED
  BY <1>1, <1>2, <1>5, LineAppend

(* A capture of the other sensor goes to the user.                         *)
LEMMA LineOtherSent ==
  ASSUME NEW x, NEW last, NEW wait, NEW sl, NEW items, NEW in, NEW ck,
         LineTypes(last, wait, sl, items, in, ck), InLine(x, last, wait, sl, items, in, ck),
         NEW c \in Captures, ~Carries(c, x)
  PROVE  InLine(x, last, Append(wait, c), sl, items, in, ck)
BY LineAppend

(* The capture that is brought goes straight to the user.                  *)
LEMMA LinePassed ==
  ASSUME NEW x, NEW last, NEW wait, NEW in, NEW ck,
         LineTypes(last, wait, None, <<>>, in, ck), InLine(x, last, wait, None, <<>>, in, ck),
         in # None, in.ts # Unclean, Carries(in, x) => TakenAt(in, x) = in.ts
  PROVE  InLine(x, last, Append(wait, in), None, <<>>, None, ck)
<1>1. InLine(x, last, wait, None, <<>>, None, ck)
  BY LineNotStored
<1>2. LineTypes(last, wait, None, <<>>, None, ck) /\ in \in Captures
  BY DEF LineTypes
<1>3. PICK t : t = in.ts
  OBVIOUS
<1>4. /\ last < t
      /\ \A k \in DOMAIN wait : Carries(wait[k], x) => TakenAt(wait[k], x) < t
      /\ IsBefore(t, None, <<>>, None, ck)
  BY <1>3 DEF InLine, IsBefore
<1>5. Carries(in, x) =>
           /\ last < TakenAt(in, x)
           /\ \A k \in DOMAIN wait : Carries(wait[k], x) => TakenAt(wait[k], x) < TakenAt(in, x)
           /\ IsBefore(TakenAt(in, x), None, <<>>, None, ck)
  BY <1>3, <1>4
<1> QED
  BY <1>1, <1>2, <1>5, LineAppend

(* The oldest of the queue takes the empty slot.                           *)
LEMMA LineRefilled ==
  ASSUME NEW x, NEW last, NEW wait, NEW items, NEW in, NEW ck,
         LineTypes(last, wait, None, items, in, ck), InLine(x, last, wait, None, items, in, ck),
         items # <<>>
  PROVE  InLine(x, last, wait, Head(items), Tail(items), in, ck)
<1>1. PICK h, t : h = Head(items) /\ t = Tail(items)
  OBVIOUS
<1>2. /\ h \in Captures /\ h = items[1] /\ 1 \in DOMAIN items
      /\ \A k \in DOMAIN t : k + 1 \in DOMAIN items /\ t[k] = items[k + 1] /\ k \in Int /\ k >= 1
  BY <1>1, TailFacts DEF LineTypes
<1>3. h.ts = items[1].ts
  BY <1>2
<1>4. \A y : IsBefore(y, None, items, in, ck) => IsBefore(y, h, t, in, ck)
  BY <1>2, <1>3 DEF IsBefore
<1>5. IsBefore(h.ts, None, t, in, ck)
  <2>1. \A k \in DOMAIN t : h.ts < t[k].ts
    BY <1>2, <1>3 DEF InLine
  <2> QED
    BY <1>2, <2>1 DEF InLine, IsBefore
<1>6. \A k \in DOMAIN t :
       /\ \A l \in DOMAIN t : k < l => t[k].ts < t[l].ts
       /\ in # None => t[k].ts < in.ts
       /\ t[k].ts <= ck
  BY <1>2 DEF InLine
<1> QED
  BY <1>1, <1>4, <1>5, <1>6 DEF InLine

(* The capture that is brought is stored: in the empty slot,               *)
LEMMA LineStoredInSlot ==
  ASSUME NEW x, NEW last, NEW wait, NEW in, NEW ck,
         InLine(x, last, wait, None, <<>>, in, ck), in # None, in.ts # Unclean
  PROVE  InLine(x, last, wait, in, <<>>, None, ck)
<1>1. \A k \in DOMAIN <<>> : FALSE
  OBVIOUS
<1>2. \A t : IsBefore(t, None, <<>>, in, ck) => IsBefore(t, in, <<>>, None, ck)
  BY DEF IsBefore
<1>3. IsBefore(in.ts, None, <<>>, None, ck)
  BY <1>1 DEF InLine, IsBefore
<1> QED
  BY <1>1, <1>2, <1>3 DEF InLine

(* or at the end of the queue.                                             *)
LEMMA LineStoredInQueue ==
  ASSUME NEW x, NEW last, NEW wait, NEW sl, NEW items, NEW in, NEW ck,
         LineTypes(last, wait, sl, items, in, ck), InLine(x, last, wait, sl, items, in, ck),
         in # None, in.ts # Unclean
  PROVE  InLine(x, last, wait, sl, Append(items, in), None, ck)
<1>1. PICK new, n : new = Append(items, in) /\ n = Len(items)
  OBVIOUS
<1>2. items \in Seq(Captures) /\ n \in Nat /\ DOMAIN items = 1 .. n /\ in \in Captures
  BY <1>1 DEF LineTypes
<1>3. /\ DOMAIN new = 1 .. n + 1 /\ new[n + 1] = in
      /\ \A k \in DOMAIN items : new[k] = items[k]
  BY <1>1, <1>2, AppendFacts
<1>4. \A k \in DOMAIN new : k = n + 1 \/ k \in DOMAIN items
  BY <1>2, <1>3
<1>5. \A t, y : IsBefore(t, y, items, in, ck) => IsBefore(t, y, new, None, ck)
  BY <1>3, <1>4 DEF IsBefore
<1>6. ASSUME NEW k \in DOMAIN new
      PROVE  /\ \A l \in DOMAIN new : k < l => new[k].ts < new[l].ts
             /\ new[k].ts <= ck
  <2>1. CASE k = n + 1
    <3>1. \A l \in DOMAIN new : ~(k < l)
      BY <1>2, <1>3, <2>1
    <3> QED
      BY <1>3, <2>1, <3>1 DEF InLine
  <2>2. CASE k \in DOMAIN items
    BY <1>3, <1>4, <2>2 DEF InLine
  <2> QED
    BY <1>4, <2>1, <2>2
<1> QED
  BY <1>1, <1>5, <1>6 DEF InLine

(* A thread brings a new capture.                                          *)
LEMMA LineBrought ==
  ASSUME NEW x, NEW last, NEW wait, NEW sl, NEW items, NEW ck,
         LineTypes(last, wait, sl, items, None, ck), InLine(x, last, wait, sl, items, None, ck),
         NEW in \in Captures, NEW now \in Int, ck < in.ts, ck <= now, in.ts = Unclean \/ in.ts <= now
  PROVE  InLine(x, last, wait, sl, items, in, now)
<1>1. ck \in Int /\ in.ts \in Int /\ last \in Int
  BY CaptureTimes DEF LineTypes
<1>2. ASSUME NEW t \in Int, NEW y, IsBefore(t, y, items, None, ck)
      PROVE  IsBefore(t, y, items, in, now)
  BY <1>1, <1>2 DEF IsBefore
<1>3. sl # None => sl.ts \in Int
  BY CaptureTimes DEF LineTypes
<1>4. \A k \in DOMAIN wait : Carries(wait[k], x) => TakenAt(wait[k], x) \in Int
  BY CaptureTimes DEF LineTypes
<1>5. \A k \in DOMAIN items : items[k].ts \in Int
  BY CaptureTimes DEF LineTypes
<1> QED
  BY <1>1, <1>2, <1>3, <1>4, <1>5 DEF InLine

(* The user takes the oldest capture that waits.                           *)
LEMMA LineTaken ==
  ASSUME NEW x, NEW last, NEW wait, NEW sl, NEW items, NEW in, NEW ck,
         LineTypes(last, wait, sl, items, in, ck), InLine(x, last, wait, sl, items, in, ck),
         wait # <<>>
  PROVE  InLine(x, IF Carries(Head(wait), x) THEN TakenAt(Head(wait), x) ELSE last,
                Tail(wait), sl, items, in, ck)
<1>1. PICK h, t : h = Head(wait) /\ t = Tail(wait)
  OBVIOUS
<1>2. /\ t \in Seq(Captures) /\ h = wait[1] /\ 1 \in DOMAIN wait
      /\ \A k \in DOMAIN t : k + 1 \in DOMAIN wait /\ t[k] = wait[k + 1] /\ k \in Int /\ k >= 1
  BY <1>1, TailFacts DEF LineTypes
<1>3. InLine(x, last, t, sl, items, in, ck)
  BY <1>2, LineWaitShift
<1>4. CASE ~Carries(h, x)
  BY <1>1, <1>3, <1>4
<1>5. CASE Carries(h, x)
  <2>1. \A k \in DOMAIN t : Carries(t[k], x) => TakenAt(h, x) < TakenAt(t[k], x)
    <3> SUFFICES ASSUME NEW k \in DOMAIN t, Carries(t[k], x) PROVE TakenAt(h, x) < TakenAt(t[k], x)
      OBVIOUS
    <3>1. k + 1 \in DOMAIN wait /\ t[k] = wait[k + 1] /\ 1 < k + 1
      BY <1>2
    <3> QED
      BY <1>2, <1>5, <3>1 DEF InLine
  <2>2. IsBefore(TakenAt(h, x), sl, items, in, ck)
    BY <1>2, <1>5 DEF InLine
  <2>3. InLine(x, TakenAt(h, x), t, sl, items, in, ck)
    BY <1>3, <2>1, <2>2 DEF InLine
  <2> QED
    BY <1>1, <1>5, <2>3
<1> QED
  BY <1>4, <1>5

(* A queue after a push, or none: the oldest may be gone, the new one may  *)
(* be at the end.                                                          *)
PushedOnto(wait, c, p) ==
  \E w \in Seq(Captures), d \in Nat :
    /\ \A k \in DOMAIN w : k + d \in DOMAIN wait /\ w[k] = wait[k + d]
    /\ p = Append(w, c) \/ p = w

LEMMA PushedOntoSame ==
  ASSUME NEW wait \in Seq(Captures), NEW c
  PROVE  PushedOnto(wait, c, wait)
<1>1. \A k \in DOMAIN wait : k + 0 \in DOMAIN wait /\ wait[k] = wait[k + 0]
  OBVIOUS
<1> QED
  BY <1>1 DEF PushedOnto

LEMMA PushIsOnto ==
  ASSUME SyncTypes, Contents, NEW n \in Queues, NEW c \in Captures
  PROVE  PushedOnto(q[n].items, c, Pushed(n, c).items)
<1>1. q[n].items \in Seq(Captures) /\ Len(q[n].items) \in Nat
  BY QueueTypes
<1>2. CASE ~q[n].on
  BY <1>1, <1>2, PushedFacts, PushedOntoSame
<1>3. CASE q[n].on
  <2>1. PICK d \in {0, 1} :
          /\ d <= Len(q[n].items)
          /\ Pushed(n, c).items = Append(IF d = 1 THEN Tail(q[n].items) ELSE q[n].items, c)
    BY <1>3, PushedFacts
  <2>2. CASE d = 0
    <3>1. \A k \in DOMAIN q[n].items : k + 0 \in DOMAIN q[n].items /\ q[n].items[k] = q[n].items[k + 0]
      BY <1>1
    <3>2. Pushed(n, c).items = Append(q[n].items, c)
      BY <2>1, <2>2
    <3> QED
      BY <1>1, <3>1, <3>2 DEF PushedOnto
  <2>3. CASE d = 1
    <3>1. q[n].items # <<>>
      BY <1>1, <2>1, <2>3
    <3>2. PICK w : w = Tail(q[n].items)
      OBVIOUS
    <3>3. w \in Seq(Captures) /\ \A k \in DOMAIN w : k + 1 \in DOMAIN q[n].items /\ w[k] = q[n].items[k + 1]
      BY <1>1, <3>1, <3>2, TailFacts
    <3>4. Pushed(n, c).items = Append(w, c)
      BY <2>1, <2>3, <3>2
    <3>5. 1 \in Nat
      OBVIOUS
    <3> QED
      BY <3>3, <3>4, <3>5 DEF PushedOnto
  <2> QED
    BY <2>2, <2>3
<1> QED
  BY <1>2, <1>3

LEMMA DropIsOnto ==
  ASSUME SyncTypes, Contents, NEW c \in Captures
  PROVE  PushedOnto(q["sync"].items, c, SyncAfterDrop(c).items)
<1>1. "sync" \in Queues
  BY DEF Queues
<1>2. CASE synchronized_images_only
  BY <1>1, <1>2, QueueTypes, PushedOntoSame DEF SyncAfterDrop
<1>3. CASE ~synchronized_images_only
  BY <1>1, <1>3, PushIsOnto DEF SyncAfterDrop
<1> QED
  BY <1>2, <1>3

LEMMA LineSlotPushed ==
  ASSUME NEW x, NEW last, NEW wait, NEW sl, NEW items, NEW in, NEW ck,
         LineTypes(last, wait, sl, items, in, ck), InLine(x, last, wait, sl, items, in, ck),
         NEW c \in Captures, sl # None, Carries(c, x) => TakenAt(c, x) = sl.ts,
         NEW p, PushedOnto(wait, c, p)
  PROVE  InLine(x, last, p, None, items, in, ck)
<1>1. PICK w \in Seq(Captures), d \in Nat :
        /\ \A k \in DOMAIN w : k + d \in DOMAIN wait /\ w[k] = wait[k + d]
        /\ p = Append(w, c) \/ p = w
  BY DEF PushedOnto
<1>2. InLine(x, last, w, sl, items, in, ck)
  BY <1>1, LineWaitShift
<1>3. LineTypes(last, w, sl, items, in, ck)
  BY DEF LineTypes
<1>4. InLine(x, last, Append(w, c), None, items, in, ck)
  BY <1>2, <1>3, LineSlotSent
<1>5. InLine(x, last, w, None, items, in, ck)
  BY <1>2, LineSlotGone
<1> QED
  BY <1>1, <1>4, <1>5

LEMMA LineOtherPushed ==
  ASSUME NEW x, NEW last, NEW wait, NEW sl, NEW items, NEW in, NEW ck,
         LineTypes(last, wait, sl, items, in, ck), InLine(x, last, wait, sl, items, in, ck),
         NEW c \in Captures, ~Carries(c, x),
         NEW p, PushedOnto(wait, c, p)
  PROVE  InLine(x, last, p, sl, items, in, ck)
<1>1. PICK w \in Seq(Captures), d \in Nat :
        /\ \A k \in DOMAIN w : k + d \in DOMAIN wait /\ w[k] = wait[k + d]
        /\ p = Append(w, c) \/ p = w
  BY DEF PushedOnto
<1>2. InLine(x, last, w, sl, items, in, ck)
  BY <1>1, LineWaitShift
<1>3. LineTypes(last, w, sl, items, in, ck)
  BY DEF LineTypes
<1>4. InLine(x, last, Append(w, c), sl, items, in, ck)
  BY <1>2, <1>3, LineOtherSent
<1> QED
  BY <1>1, <1>2, <1>4

LEMMA LinePassedPushed ==
  ASSUME NEW x, NEW last, NEW wait, NEW in, NEW ck,
         LineTypes(last, wait, None, <<>>, in, ck), InLine(x, last, wait, None, <<>>, in, ck),
         in # None, in.ts # Unclean, Carries(in, x) => TakenAt(in, x) = in.ts,
         NEW p, PushedOnto(wait, in, p)
  PROVE  InLine(x, last, p, None, <<>>, None, ck)
<1>1. PICK w \in Seq(Captures), d \in Nat :
        /\ \A k \in DOMAIN w : k + d \in DOMAIN wait /\ w[k] = wait[k + d]
        /\ p = Append(w, in) \/ p = w
  BY DEF PushedOnto
<1>2. InLine(x, last, w, None, <<>>, in, ck)
  BY <1>1, LineWaitShift
<1>3. LineTypes(last, w, None, <<>>, in, ck)
  BY DEF LineTypes
<1>4. InLine(x, last, Append(w, in), None, <<>>, None, ck)
  BY <1>2, <1>3, LinePassed
<1>5. InLine(x, last, w, None, <<>>, None, ck)
  BY <1>2, LineNotStored
<1> QED
  BY <1>1, <1>4, <1>5

-----------------------------------------------------------------------------
(* The images of every sensor stay in line.                                *)

Brings(x) == IF call[x].at = "lock" THEN call[x].capture ELSE None

Line(x) == InLine(x, seen[x], q["sync"].items, slot[x], q[x].items, Brings(x), clock[x])

OrderInv == \A x \in Sensors : Line(x)

LEMMA LineTyped ==
  ASSUME SyncInv, NEW x \in Sensors
  PROVE  LineTypes(seen[x], q["sync"].items, slot[x], q[x].items, Brings(x), clock[x])
<1>1. SyncTypes /\ "sync" \in Queues /\ x \in Queues
  BY DEF SyncInv, Queues
<1>2. q["sync"].items \in Seq(Captures) /\ q[x].items \in Seq(Captures)
  BY <1>1, QueueTypes
<1>3. seen[x] \in Int /\ clock[x] \in Int
  BY <1>1, SyncAssumption DEF SyncTypes
<1>4. slot[x] \in Captures \cup {None} /\ call[x].capture \in Captures \cup {None}
  BY <1>1 DEF SyncTypes
<1> QED
  BY <1>2, <1>3, <1>4 DEF LineTypes, Brings

(* Nothing of the sensor changes, except that captures of it may be gone.  *)
LEMMA LineKept ==
  ASSUME SyncInv, NEW x \in Sensors, Line(x),
         seen'[x] = seen[x], clock'[x] = clock[x],
         q'["sync"].items = q["sync"].items \/ q'["sync"].items = <<>>,
         q'[x].items = q[x].items \/ q'[x].items = <<>>,
         slot'[x] = slot[x] \/ slot'[x] = None,
         Brings(x)' = Brings(x) \/ Brings(x)' = None
  PROVE  Line(x)'
<1>1. PICK last, wait, sl, items, in, ck :
        /\ last = seen[x] /\ wait = q["sync"].items /\ sl = slot[x] /\ items = q[x].items
        /\ in = Brings(x) /\ ck = clock[x]
  OBVIOUS
<1>2. InLine(x, last, wait, sl, items, in, ck) /\ LineTypes(last, wait, sl, items, in, ck)
  BY <1>1, LineTyped DEF Line
<1>3. PICK wait1, sl1, items1, in1 :
        /\ wait1 = q'["sync"].items /\ sl1 = slot'[x] /\ items1 = q'[x].items /\ in1 = Brings(x)'
  OBVIOUS
<1>4. InLine(x, last, wait1, sl, items, in, ck)
  <2>1. CASE wait1 = wait
    BY <1>2, <2>1
  <2>2. CASE wait1 = <<>>
    <3>1. <<>> \in Seq(Captures) /\ 0 \in Nat /\ \A k \in DOMAIN <<>> : k + 0 \in DOMAIN wait /\ <<>>[k] = wait[k + 0]
      OBVIOUS
    <3> QED
      BY <1>2, <2>2, <3>1, LineWaitShift
  <2> QED
    BY <1>1, <1>3, <2>1, <2>2
<1>5. InLine(x, last, wait1, sl1, items, in, ck)
  BY <1>1, <1>3, <1>4, LineSlotGone
<1>6. InLine(x, last, wait1, sl1, items1, in, ck)
  BY <1>1, <1>3, <1>5, LineQueueGone
<1>7. InLine(x, last, wait1, sl1, items1, in1, ck)
  BY <1>1, <1>3, <1>6, LineNotStored
<1> QED
  BY <1>1, <1>3, <1>7 DEF Line

LEMMA BringsKept ==
  ASSUME NEW s \in Sensors, NEW x \in Sensors,
         \A u \in Sensors : u # s => call'[u] = call[u],
         x # s \/ call'[x].at # "lock"
  PROVE  Brings(x)' = Brings(x) \/ Brings(x)' = None
<1>1. CASE call'[x].at # "lock"
  BY <1>1 DEF Brings
<1>2. CASE x # s
  BY <1>2 DEF Brings
<1> QED
  BY <1>1, <1>2

LEMMA AddCaptureLine ==
  ASSUME SyncInv, OrderInv, NEW s \in Sensors, AddCapture(s)
  PROVE  OrderInv'
<1>0. SyncTypes
  BY DEF SyncInv
<1>1. PICK ts \in 0 .. MaxTs \cup {Unclean} :
           /\ call' = [call EXCEPT ![s] = Bringing(Capture(s, ts))]
           /\ ts = Unclean => clock' = clock
           /\ ts # Unclean => ts \in 0 .. MaxTs /\ ts > clock[s] /\ clock' = [clock EXCEPT ![s] = ts]
  BY <1>0, NewCapture
<1>2. /\ call[s].at = "idle"
      /\ UNCHANGED <<q, slot, seen>>
  BY DEF AddCapture
<1>3. PICK c : c = Capture(s, ts)
  OBVIOUS
<1>4. c \in Captures /\ c.ts = ts
  BY <1>3, CaptureType
<1>5. /\ call'[s].at = "lock" /\ call'[s].capture = c
      /\ \A u \in Sensors : u # s => call'[u] = call[u]
  BY <1>0, <1>1, <1>3, <1>4, BringingFacts DEF SyncTypes
<1>6. clock \in [Sensors -> -1 .. MaxTs]
  BY <1>0 DEF SyncTypes
<1>7. /\ clock'[s] \in Int /\ clock[s] < c.ts /\ clock[s] <= clock'[s]
      /\ c.ts = Unclean \/ c.ts <= clock'[s]
      /\ \A u \in Sensors : u # s => clock'[u] = clock[u]
  <2>1. clock[s] \in Int /\ clock[s] <= MaxTs /\ MaxTs \in Int
    BY <1>6, SyncAssumption
  <2>2. CASE ts = Unclean
    BY <1>1, <1>4, <2>1, <2>2, UncleanIsLater
  <2>3. CASE ts # Unclean
    <3>1. clock'[s] = ts /\ \A u \in Sensors : u # s => clock'[u] = clock[u]
      BY <1>1, <1>6, <2>3
    <3>2. ts \in Int /\ ts > clock[s]
      BY <1>1, <2>3, SyncAssumption
    <3> QED
      BY <1>4, <2>1, <3>1, <3>2
  <2> QED
    BY <2>2, <2>3
<1> SUFFICES ASSUME NEW x \in Sensors PROVE Line(x)'
  BY DEF OrderInv
<1>8. Line(x)
  BY DEF OrderInv
<1>9. CASE x = s
  <2>1. PICK last, wait, sl, items, ck, now :
          /\ last = seen[x] /\ wait = q["sync"].items /\ sl = slot[x] /\ items = q[x].items
          /\ ck = clock[x] /\ now = clock'[x]
    OBVIOUS
  <2>2. Brings(x) = None /\ Brings(x)' = c
    BY <1>2, <1>5, <1>9 DEF Brings
  <2>3. InLine(x, last, wait, sl, items, None, ck) /\ LineTypes(last, wait, sl, items, None, ck)
    BY <1>8, <2>1, <2>2, LineTyped DEF Line
  <2>4. InLine(x, last, wait, sl, items, c, now)
    BY <1>4, <1>7, <1>9, <2>1, <2>3, LineBrought
  <2> QED
    BY <1>2, <2>1, <2>2, <2>4 DEF Line
<1>10. CASE x # s
  BY <1>2, <1>5, <1>7, <1>8, <1>10, BringsKept, LineKept
<1> QED
  BY <1>9, <1>10

(* A step that sends nothing to the user and stores nothing.               *)
LEMMA QuietLine ==
  ASSUME SyncInv, OrderInv, NEW s \in Sensors,
         \A u \in Sensors : u # s => call'[u] = call[u],
         call'[s].at # "lock" \/ call' = call,
         seen' = seen, clock' = clock,
         \A n \in Queues : q'[n].items = q[n].items \/ q'[n].items = <<>>,
         \A x \in Sensors : slot'[x] = slot[x] \/ slot'[x] = None
  PROVE  OrderInv'
<1> SUFFICES ASSUME NEW x \in Sensors PROVE Line(x)'
  BY DEF OrderInv
<1>1. Line(x) /\ x \in Queues /\ "sync" \in Queues
  BY DEF OrderInv, Queues
<1>2. Brings(x)' = Brings(x) \/ Brings(x)' = None
  <2>1. CASE call' = call
    BY <2>1 DEF Brings
  <2>2. CASE call'[s].at # "lock"
    BY <2>2, BringsKept
  <2> QED
    BY <2>1, <2>2
<1> QED
  BY <1>1, <1>2, LineKept

LEMMA AddPassedLine ==
  ASSUME SyncInv, OrderInv, NEW s \in Sensors, AddPassed(s)
  PROVE  OrderInv'
<1>0. SyncTypes /\ Contents /\ Stranded /\ "sync" \in Queues
  BY DEF SyncInv, Queues
<1>1. PICK c : c = call[s].capture
  OBVIOUS
<1>2. /\ call[s].at = "lock"
      /\ call' = [call EXCEPT ![s] = Idle]
      /\ \/ ~sync_captures /\ q' = [q EXCEPT !["sync"] = Pushed("sync", c)]
         \/ q' = q
      /\ UNCHANGED <<slot, clock, seen>>
  BY <1>1 DEF AddPassed, Returns
<1>3. /\ c \in Captures /\ c # None /\ c.sensor = s /\ c.merged = None
      /\ c.ts = Unclean => sync_captures
  BY <1>1, <1>2, Brought
<1>4. call'[s].at = "idle" /\ \A u \in Sensors : u # s => call'[u] = call[u]
  BY <1>0, <1>2, IdleFacts DEF SyncTypes
<1>5. CASE q' = q
  BY <1>2, <1>4, <1>5, QuietLine
<1>6. CASE ~sync_captures /\ q' = [q EXCEPT !["sync"] = Pushed("sync", c)]
  <2>1. q'["sync"] = Pushed("sync", c) /\ \A y \in Sensors : q'[y] = q[y]
    BY <1>0, <1>6 DEF SyncTypes, Queues, Sensors
  <2>2. PushedOnto(q["sync"].items, c, q'["sync"].items)
    BY <1>0, <1>3, <2>1, PushIsOnto
  <2> SUFFICES ASSUME NEW x \in Sensors PROVE Line(x)'
    BY DEF OrderInv
  <2>3. Line(x) /\ slot[x] = None /\ q[x].items = <<>>
    BY <1>0, <1>6 DEF OrderInv, Stranded
  <2>4. PICK last, wait, in, ck, p :
          /\ last = seen[x] /\ wait = q["sync"].items /\ in = Brings(x) /\ ck = clock[x]
          /\ p = q'["sync"].items
    OBVIOUS
  <2>5. InLine(x, last, wait, None, <<>>, in, ck) /\ LineTypes(last, wait, None, <<>>, in, ck)
    BY <2>3, <2>4, LineTyped DEF Line
  <2>6. slot'[x] = None /\ q'[x].items = <<>> /\ seen'[x] = last /\ clock'[x] = ck
    BY <1>2, <2>1, <2>3, <2>4
  <2>7. CASE x = s
    <3>1. in = c /\ Brings(x)' = None
      BY <1>1, <1>2, <1>4, <2>4, <2>7 DEF Brings
    <3>2. Carries(c, x) => TakenAt(c, x) = c.ts
      BY <1>3 DEF Carries, TakenAt
    <3>3. InLine(x, last, p, None, <<>>, None, ck)
      BY <1>3, <1>6, <2>2, <2>4, <2>5, <3>1, <3>2, LinePassedPushed
    <3> QED
      BY <2>4, <2>6, <3>1, <3>3 DEF Line
  <2>8. CASE x # s
    <3>1. Brings(x)' = in
      BY <1>4, <2>4, <2>8 DEF Brings
    <3>2. ~Carries(c, x)
      BY <1>3, <2>8 DEF Carries
    <3>3. InLine(x, last, p, None, <<>>, in, ck)
      BY <1>3, <2>2, <2>4, <2>5, <3>2, LineOtherPushed
    <3> QED
      BY <2>4, <2>6, <3>1, <3>3 DEF Line
  <2> QED
    BY <2>7, <2>8
<1> QED
  BY <1>2, <1>5, <1>6

LEMMA AddStoredLine ==
  ASSUME SyncInv, OrderInv, NEW s \in Sensors, AddStored(s)
  PROVE  OrderInv'
<1>0. SyncTypes /\ Protocol /\ Contents /\ Stranded /\ "sync" \in Queues /\ s \in Queues /\ s # "sync"
  BY DEF SyncInv, Queues, Sensors
<1>1. PICK c : c = call[s].capture
  OBVIOUS
<1>2. /\ call[s].at = "lock" /\ lock = None
      /\ c \in Captures /\ c # None /\ c.sensor = s /\ c.merged = None /\ c.ts # Unclean
      /\ call' = [call EXCEPT ![s].at = "match"]
      /\ UNCHANGED <<clock, seen>>
  BY <1>1, AddStoredFacts
<1>3. StoredInSlot(s, c) \/ StoredForOldest(s, c) \/ StoredInQueue(s, c)
  BY <1>1, StoreCases DEF AddStored
<1>4. call'[s].at = "match" /\ \A u \in Sensors : u # s => call'[u] = call[u]
  <2>1. call[s] \in CallRecord /\ call \in [Sensors -> CallRecord]
    BY <1>0, CallTypes
  <2> QED
    BY <1>2, <2>1 DEF CallRecord
<1>5. /\ q \in [Queues -> [on : BOOLEAN, items : Seq(Captures)]]
      /\ slot \in [Sensors -> Captures \cup {None}]
      /\ \A y \in Sensors : y \in Queues /\ y # "sync"
  BY <1>0 DEF SyncTypes, Queues, Sensors
<1>6. Brings(s) = c /\ Brings(s)' = None /\ \A u \in Sensors : u # s => Brings(u)' = Brings(u)
  BY <1>1, <1>2, <1>4 DEF Brings
<1> SUFFICES ASSUME NEW x \in Sensors PROVE Line(x)'
  BY DEF OrderInv
<1>7. PICK last, wait, sl, items, in, ck, p :
          /\ last = seen[x] /\ wait = q["sync"].items /\ sl = slot[x] /\ items = q[x].items
          /\ in = Brings(x) /\ ck = clock[x] /\ p = q'["sync"].items
  OBVIOUS
<1>8. InLine(x, last, wait, sl, items, in, ck) /\ LineTypes(last, wait, sl, items, in, ck)
  BY <1>7, LineTyped DEF Line, OrderInv
<1>9. seen'[x] = last /\ clock'[x] = ck
  BY <1>2, <1>7
<1>10. CASE StoredInSlot(s, c)
  <2>1. slot[s] = None /\ q' = q /\ slot'[s] = c /\ \A y \in Sensors : y # s => slot'[y] = slot[y]
    BY <1>5, <1>10 DEF StoredInSlot
  <2>2. q[s].items = <<>>
    <3>1. None \notin Sensors
      BY SyncAssumption
    <3>2. ~Refilling(s)
      BY <1>0, <1>2, <3>1 DEF Protocol, Refilling
    <3> QED
      BY <1>0, <2>1, <3>2 DEF Stranded
  <2>3. CASE x = s
    <3>1. InLine(x, last, wait, c, <<>>, None, ck)
      <4>1. sl = None /\ items = <<>> /\ in = c
        BY <1>6, <1>7, <2>1, <2>2, <2>3
      <4> QED
        BY <1>2, <1>8, <4>1, LineStoredInSlot
    <3>2. slot'[x] = c /\ q'[x].items = <<>> /\ Brings(x)' = None /\ q'["sync"].items = wait
      BY <1>6, <1>7, <2>1, <2>2, <2>3
    <3> QED
      BY <1>9, <3>1, <3>2 DEF Line
  <2>4. CASE x # s
    BY <1>6, <1>7, <1>8, <1>9, <2>1, <2>4 DEF Line
  <2> QED
    BY <2>3, <2>4
<1>11. CASE StoredInQueue(s, c)
  <2>1. /\ ~(q[s].on /\ Full(s)) /\ slot' = slot /\ q'[s] = Pushed(s, c)
        /\ \A n \in Queues : n # s => q'[n] = q[n]
    BY <1>0, <1>5, <1>11 DEF StoredInQueue
  <2>2. CASE x = s
    <3>0. in = c /\ Brings(x)' = None /\ slot'[x] = sl /\ q'["sync"].items = wait
      BY <1>0, <1>6, <1>7, <2>1, <2>2
    <3>1. CASE ~q[s].on
      <4>1. q'[x].items = items
        BY <1>0, <1>2, <1>7, <2>1, <2>2, <3>1, PushedFacts
      <4>2. InLine(x, last, wait, sl, items, None, ck)
        BY <1>8, LineNotStored
      <4> QED
        BY <1>9, <3>0, <4>1, <4>2 DEF Line
    <3>2. CASE q[s].on /\ ~Full(s)
      <4>1. q'[x].items = Append(items, c)
        <5>1. PICK d \in {0, 1} :
              /\ (d = 1) <=> Full(s)
              /\ Pushed(s, c).items = Append(IF d = 1 THEN Tail(q[s].items) ELSE q[s].items, c)
          BY <1>0, <1>2, <3>2, PushedFacts
        <5> QED
          BY <1>7, <2>1, <2>2, <3>2, <5>1
      <4>2. InLine(x, last, wait, sl, Append(items, c), None, ck)
        BY <1>2, <1>8, <3>0, LineStoredInQueue
      <4> QED
        BY <1>9, <3>0, <4>1, <4>2 DEF Line
    <3> QED
      BY <2>1, <3>1, <3>2
  <2>3. CASE x # s
    <3>1. q'[x] = q[x] /\ q'["sync"] = q["sync"]
      BY <1>0, <1>5, <2>1, <2>3
    <3> QED
      BY <1>6, <1>7, <1>8, <1>9, <2>1, <2>3, <3>1 DEF Line
  <2> QED
    BY <2>2, <2>3
<1>12. CASE StoredForOldest(s, c)
  <2>1. /\ slot[s] # None /\ q[s].on /\ Full(s)
        /\ slot' = [slot EXCEPT ![s] = Head(q[s].items)]
        /\ q' = [q EXCEPT ![s] = Pushed(s, c), !["sync"] = SyncAfterDrop(slot[s])]
    BY <1>12 DEF StoredForOldest
  <2>2. PICK d : d = slot[s]
    OBVIOUS
  <2>3. d \in Captures /\ d.sensor = s /\ d.merged = None
    BY <1>0, <1>5, <2>1, <2>2 DEF Contents
  <2>4. /\ q'["sync"] = SyncAfterDrop(d) /\ q'[s] = Pushed(s, c)
        /\ \A y \in Sensors : y # s => q'[y] = q[y] /\ slot'[y] = slot[y]
        /\ slot'[s] = Head(q[s].items)
    BY <1>0, <1>5, <2>1, <2>2
  <2>5. PushedOnto(wait, d, p)
    BY <1>0, <1>7, <2>3, <2>4, DropIsOnto
  <2>6. CASE x = s
    <3>0. in = c /\ Brings(x)' = None /\ sl = d
      BY <1>6, <1>7, <2>2, <2>6
    <3>1. InLine(x, last, p, None, items, c, ck)
      <4>1. Carries(d, x) => TakenAt(d, x) = sl.ts
        BY <2>3, <3>0 DEF Carries, TakenAt
      <4> QED
        BY <1>8, <2>1, <2>2, <2>3, <2>5, <3>0, <4>1, LineSlotPushed
    <3>2. items # <<>> /\ items \in Seq(Captures)
      <4>1. Len(items) \in Nat \ {0}
        BY <1>7, <2>1, <2>6, CapacityType DEF Full
      <4> QED
        BY <1>8, <4>1 DEF LineTypes
    <3>3. p \in Seq(Captures)
      <4>1. SyncAfterDrop(d) = q["sync"] \/ SyncAfterDrop(d) = Pushed("sync", d)
        BY DEF SyncAfterDrop
      <4> QED
        BY <1>0, <1>7, <2>3, <2>4, <4>1, PushedFacts, QueueTypes
    <3>4. LineTypes(last, p, None, items, c, ck)
      BY <1>8, <3>0, <3>3 DEF LineTypes
    <3>5. PICK h, t : h = Head(items) /\ t = Tail(items)
      OBVIOUS
    <3>6. InLine(x, last, p, h, t, c, ck)
      BY <3>1, <3>2, <3>4, <3>5, LineRefilled
    <3>7. h \in Captures /\ t \in Seq(Captures)
      BY <3>2, <3>5, TailFacts
    <3>8. LineTypes(last, p, h, t, c, ck)
      BY <3>4, <3>7 DEF LineTypes
    <3>9. InLine(x, last, p, h, Append(t, c), None, ck)
      BY <1>2, <3>6, <3>8, LineStoredInQueue
    <3>10. q'[x].items = Append(t, c)
      <4>1. PICK e \in {0, 1} :
              /\ (e = 1) <=> Full(s)
              /\ Pushed(s, c).items = Append(IF e = 1 THEN Tail(q[s].items) ELSE q[s].items, c)
        BY <1>0, <1>2, <2>1, PushedFacts
      <4> QED
        BY <1>7, <2>1, <2>4, <2>6, <3>5, <4>1, ZenonT(40)
    <3>11. slot'[x] = h
      BY <1>7, <2>4, <2>6, <3>5
    <3> QED
      BY <1>7, <1>9, <3>0, <3>9, <3>10, <3>11 DEF Line
  <2>7. CASE x # s
    <3>1. ~Carries(d, x)
      BY <2>3, <2>7 DEF Carries
    <3>2. InLine(x, last, p, sl, items, in, ck)
      BY <1>8, <2>3, <2>5, <3>1, LineOtherPushed
    <3> QED
      BY <1>6, <1>7, <1>9, <2>4, <2>7, <3>2 DEF Line
  <2> QED
    BY <2>6, <2>7
<1> QED
  BY <1>3, <1>10, <1>11, <1>12

LEMMA MatchDropsLine ==
  ASSUME SyncInv, OrderInv, NEW s \in Sensors, MatchDrops(s)
  PROVE  OrderInv'
<1>0. SyncTypes /\ Contents
  BY DEF SyncInv
<1>1. PICK which : which = Judgement(slot["color"].ts, slot["depth"].ts)
  OBVIOUS
<1>2. PICK c : c = slot[which]
  OBVIOUS
<1>3. /\ call[s].at = "match" /\ BothPending /\ which # "merge"
      /\ q' = [q EXCEPT !["sync"] = SyncAfterDrop(c)]
      /\ slot' = [slot EXCEPT ![which] = None]
      /\ call' = [call EXCEPT ![s].at = "refill", ![s].todo = <<which>>]
      /\ UNCHANGED <<clock, seen>>
  BY <1>1, <1>2 DEF MatchDrops
<1>4. which \in Sensors
  BY <1>1, <1>3, JudgementType
<1>5. c \in Captures /\ c # None /\ c.sensor = which /\ c.merged = None
  BY <1>2, <1>3, <1>4, Pending
<1>6. \A u \in Sensors : Brings(u)' = Brings(u)
  <2>1. call \in [Sensors -> CallRecord] /\ call[s] \in CallRecord
    BY <1>0, CallTypes
  <2>2. call'[s].at = "refill" /\ \A u \in Sensors : u # s => call'[u] = call[u]
    BY <1>3, <2>1 DEF CallRecord
  <2>3. call[s].at = "match"
    BY <1>3
  <2> QED
    BY <2>2, <2>3 DEF Brings
<1>7. /\ q'["sync"] = SyncAfterDrop(c) /\ \A y \in Sensors : q'[y] = q[y]
      /\ slot'[which] = None /\ \A y \in Sensors : y # which => slot'[y] = slot[y]
  BY <1>0, <1>3, <1>4 DEF SyncTypes, Queues, Sensors
<1>8. PushedOnto(q["sync"].items, c, q'["sync"].items)
  BY <1>0, <1>5, <1>7, DropIsOnto
<1> SUFFICES ASSUME NEW x \in Sensors PROVE Line(x)'
  BY DEF OrderInv
<1>9. PICK last, wait, sl, items, in, ck, p :
          /\ last = seen[x] /\ wait = q["sync"].items /\ sl = slot[x] /\ items = q[x].items
          /\ in = Brings(x) /\ ck = clock[x] /\ p = q'["sync"].items
  OBVIOUS
<1>10. InLine(x, last, wait, sl, items, in, ck) /\ LineTypes(last, wait, sl, items, in, ck)
  BY <1>9, LineTyped DEF Line, OrderInv
<1>11. seen'[x] = last /\ clock'[x] = ck /\ q'[x].items = items /\ Brings(x)' = in
  BY <1>3, <1>6, <1>7, <1>9
<1>12. CASE x = which
  <2>1. sl = c
    BY <1>2, <1>9, <1>12
  <2>2. Carries(c, x) => TakenAt(c, x) = sl.ts
    BY <1>5, <2>1 DEF Carries, TakenAt
  <2>3. InLine(x, last, p, None, items, in, ck)
    BY <1>5, <1>8, <1>9, <1>10, <2>1, <2>2, LineSlotPushed
  <2> QED
    BY <1>7, <1>9, <1>11, <1>12, <2>3 DEF Line
<1>13. CASE x # which
  <2>1. ~Carries(c, x)
    BY <1>5, <1>13 DEF Carries
  <2>2. InLine(x, last, p, sl, items, in, ck)
    BY <1>5, <1>8, <1>9, <1>10, <2>1, LineOtherPushed
  <2> QED
    BY <1>7, <1>9, <1>11, <1>13, <2>2 DEF Line
<1> QED
  BY <1>12, <1>13

LEMMA MatchMergesLine ==
  ASSUME SyncInv, OrderInv, NEW s \in Sensors, MatchMerges(s)
  PROVE  OrderInv'
<1>0. SyncTypes /\ Contents /\ "sync" \in Queues
  BY DEF SyncInv, Queues
<1>1. PICK c : c = merge_captures(slot["depth"], slot["color"])
  OBVIOUS
<1>2. /\ call[s].at = "match" /\ BothPending
      /\ q' = [q EXCEPT !["sync"] = Pushed("sync", c)]
      /\ slot' = [y \in Sensors |-> None]
      /\ call' = [call EXCEPT ![s].at = "refill", ![s].todo = <<"color", "depth">>]
      /\ UNCHANGED <<clock, seen>>
  BY <1>1 DEF MatchMerges
<1>3. /\ c \in Captures /\ c.sensor = "depth" /\ c.ts = slot["depth"].ts
      /\ c.merged = slot["color"].ts /\ c.merged # None
  BY <1>1, <1>2, MergeFacts
<1>4. \A u \in Sensors : Brings(u)' = Brings(u)
  <2>1. call \in [Sensors -> CallRecord] /\ call[s] \in CallRecord
    BY <1>0, CallTypes
  <2>2. call'[s].at = "refill" /\ \A u \in Sensors : u # s => call'[u] = call[u]
    BY <1>2, <2>1 DEF CallRecord
  <2>3. call[s].at = "match"
    BY <1>2
  <2> QED
    BY <2>2, <2>3 DEF Brings
<1>5. q'["sync"] = Pushed("sync", c) /\ \A y \in Sensors : q'[y] = q[y]
  BY <1>0, <1>2 DEF SyncTypes, Queues, Sensors
<1>6. PushedOnto(q["sync"].items, c, q'["sync"].items)
  BY <1>0, <1>3, <1>5, PushIsOnto
<1> SUFFICES ASSUME NEW x \in Sensors PROVE Line(x)'
  BY DEF OrderInv
<1>7. PICK last, wait, sl, items, in, ck, p :
          /\ last = seen[x] /\ wait = q["sync"].items /\ sl = slot[x] /\ items = q[x].items
          /\ in = Brings(x) /\ ck = clock[x] /\ p = q'["sync"].items
  OBVIOUS
<1>8. InLine(x, last, wait, sl, items, in, ck) /\ LineTypes(last, wait, sl, items, in, ck)
  BY <1>7, LineTyped DEF Line, OrderInv
<1>9. seen'[x] = last /\ clock'[x] = ck /\ q'[x].items = items /\ Brings(x)' = in /\ slot'[x] = None
  BY <1>2, <1>4, <1>5, <1>7
<1>10. sl # None
  BY <1>2, <1>7, Pending
<1>11. TakenAt(c, x) = sl.ts
  BY <1>3, <1>7 DEF TakenAt, Sensors
<1>12. InLine(x, last, p, None, items, in, ck)
  BY <1>3, <1>6, <1>7, <1>8, <1>10, <1>11, LineSlotPushed
<1> QED
  BY <1>7, <1>9, <1>12 DEF Line

LEMMA RefillLine ==
  ASSUME SyncInv, OrderInv, NEW s \in Sensors, Refill(s)
  PROVE  OrderInv'
<1>0. SyncTypes /\ Stranded
  BY DEF SyncInv
<1>1. PICK which, rest : which = Head(call[s].todo) /\ rest = Tail(call[s].todo)
  OBVIOUS
<1>2. Refills(s, which, rest) /\ UNCHANGED <<clock, seen>>
  BY <1>1, RefillFacts
<1>3. /\ call[s].at = "refill" /\ call[s].todo \in ToRefill
      /\ call'[s].at # "lock"
      /\ \A u \in Sensors : u # s => call'[u] = call[u]
  BY <1>2 DEF Refills
<1>4. which \in Sensors /\ slot[which] = None
  <2>1. PICK names : names = call[s].todo
    OBVIOUS
  <2>2. which \in Sensors /\ \E k \in DOMAIN names : names[k] = which
    BY <1>1, <1>3, <2>1, RefillNames, ZenonT(40)
  <2>3. Refilling(which)
    BY <1>3, <2>1, <2>2 DEF Refilling
  <2> QED
    BY <1>0, <2>2, <2>3 DEF Stranded
<1>5. \A u \in Sensors : Brings(u)' = Brings(u)
  BY <1>3 DEF Brings
<1>6. /\ q \in [Queues -> [on : BOOLEAN, items : Seq(Captures)]]
      /\ slot \in [Sensors -> Captures \cup {None}]
      /\ \A y \in Sensors : y \in Queues /\ y # "sync"
      /\ "sync" \in Queues
  BY <1>0 DEF SyncTypes, Queues, Sensors
<1>7. CASE /\ slot' = [slot EXCEPT ![which] = None]
           /\ q' = q
  BY <1>2, <1>3, <1>4, <1>6, <1>7, QuietLine
<1>8. CASE /\ q[which].on /\ q[which].items # <<>>
           /\ slot' = [slot EXCEPT ![which] = Head(q[which].items)]
           /\ q' = [q EXCEPT ![which].items = Tail(@)]
  <2>1. /\ q'[which].items = Tail(q[which].items) /\ slot'[which] = Head(q[which].items)
        /\ \A n \in Queues : n # which => q'[n] = q[n]
        /\ \A y \in Sensors : y # which => slot'[y] = slot[y]
    BY <1>4, <1>6, <1>8
  <2> SUFFICES ASSUME NEW x \in Sensors PROVE Line(x)'
    BY DEF OrderInv
  <2>2. PICK last, wait, sl, items, in, ck :
          /\ last = seen[x] /\ wait = q["sync"].items /\ sl = slot[x] /\ items = q[x].items
          /\ in = Brings(x) /\ ck = clock[x]
    OBVIOUS
  <2>3. InLine(x, last, wait, sl, items, in, ck) /\ LineTypes(last, wait, sl, items, in, ck)
    BY <2>2, LineTyped DEF Line, OrderInv
  <2>4. seen'[x] = last /\ clock'[x] = ck /\ Brings(x)' = in /\ q'["sync"].items = wait
    BY <1>2, <1>4, <1>5, <1>6, <2>1, <2>2
  <2>5. CASE x = which
    <3>1. sl = None /\ items # <<>>
      BY <1>4, <1>8, <2>2, <2>5
    <3>2. InLine(x, last, wait, Head(items), Tail(items), in, ck)
      BY <2>3, <3>1, LineRefilled
    <3> QED
      BY <2>1, <2>2, <2>4, <2>5, <3>2 DEF Line
  <2>6. CASE x # which
    BY <1>6, <2>1, <2>2, <2>3, <2>4, <2>6 DEF Line
  <2> QED
    BY <2>5, <2>6
<1> QED
  BY <1>2, <1>7, <1>8 DEF Refills

LEMMA GetCaptureLine ==
  ASSUME SyncInv, OrderInv, GetCapture
  PROVE  OrderInv'
<1>1. UNCHANGED <<slot, call, clock>>
  BY DEF GetCapture
<1>2. /\ \A y \in Sensors : q'[y] = q[y]
      /\ q["sync"].items # <<>> /\ q'["sync"].items = Tail(q["sync"].items)
  BY QueueAfterGet DEF Sensors
<1> SUFFICES ASSUME NEW x \in Sensors PROVE Line(x)'
  BY DEF OrderInv
<1>3. PICK last, wait, sl, items, in, ck :
          /\ last = seen[x] /\ wait = q["sync"].items /\ sl = slot[x] /\ items = q[x].items
          /\ in = Brings(x) /\ ck = clock[x]
  OBVIOUS
<1>4. InLine(x, last, wait, sl, items, in, ck) /\ LineTypes(last, wait, sl, items, in, ck)
  BY <1>3, LineTyped DEF Line, OrderInv
<1>5. seen'[x] = IF Carries(Head(wait), x) THEN TakenAt(Head(wait), x) ELSE last
  BY <1>3, SeenAfterGet
<1>6. InLine(x, seen'[x], Tail(wait), sl, items, in, ck)
  BY <1>2, <1>3, <1>4, <1>5, LineTaken
<1>7. Brings(x)' = in
  BY <1>1, <1>3 DEF Brings
<1> QED
  BY <1>1, <1>2, <1>3, <1>6, <1>7 DEF Line

(* Nothing is on its way.                                                  *)
LEMMA LineEmpty ==
  ASSUME NEW x
  PROVE  InLine(x, -1, <<>>, None, <<>>, None, -1)
<1>1. \A k \in DOMAIN <<>> : FALSE
  OBVIOUS
<1>2. IsBefore(-1, None, <<>>, None, -1)
  BY <1>1 DEF IsBefore
<1> QED
  BY <1>1, <1>2 DEF InLine

LEMMA CaptureSyncStartLine ==
  ASSUME SyncInv, CaptureSyncStart
  PROVE  OrderInv'
<1>1. /\ control.at = "idle" /\ ~running /\ \A s \in Sensors : call[s].at = "idle"
      /\ clock' = [s \in Sensors |-> -1]
      /\ seen' = [s \in Sensors |-> -1]
      /\ UNCHANGED <<q, slot, call>>
  BY DEF CaptureSyncStart
<1>2. /\ \A n \in Queues : q[n].items = <<>>
      /\ \A s \in Sensors : slot[s] = None
  BY <1>1 DEF SyncInv, Stranded
<1> SUFFICES ASSUME NEW x \in Sensors PROVE Line(x)'
  BY DEF OrderInv
<1>3. Brings(x)' = None
  BY <1>1 DEF Brings
<1>4. q'["sync"].items = <<>> /\ q'[x].items = <<>> /\ slot'[x] = None /\ seen'[x] = -1 /\ clock'[x] = -1
  BY <1>1, <1>2 DEF Queues
<1> QED
  BY <1>3, <1>4, LineEmpty DEF Line

LEMMA OrderInit == Init => OrderInv
<1> SUFFICES ASSUME Init, NEW x \in Sensors PROVE Line(x)
  BY DEF OrderInv
<1>1. Disabled.items = <<>> /\ Idle.at = "idle"
  BY IdleFacts DEF Disabled
<1>2. q["sync"] = Disabled /\ q[x] = Disabled /\ slot[x] = None /\ seen[x] = -1 /\ clock[x] = -1 /\ call[x] = Idle
  BY DEF Init, Queues
<1>3. Brings(x) = None
  BY <1>1, <1>2 DEF Brings
<1> HIDE DEF Disabled, Idle
<1> QED
  BY <1>1, <1>2, <1>3, LineEmpty DEF Line

(* The steps that only take captures away, or none.                        *)
LEMMA OtherLines ==
  ASSUME SyncInv, OrderInv,
         \/ \E s \in Sensors : AddFailed(s) \/ MatchEnds(s) \/ StopQueue(s)
         \/ StartRefused \/ CaptureSyncStop \/ ControlSteps \/ UNCHANGED vars
  PROVE  OrderInv'
<1>0. SyncTypes /\ Protocol /\ Contents
  BY DEF SyncInv
<1>1. UNCHANGED <<clock, seen>>
  BY DEF AddFailed, MatchEnds, StopQueue, StartRefused, CaptureSyncStop, ControlSteps,
         StartQueue, DisableQueue, StopReturns, vars
<1>2. ASSUME NEW n, q' = [q EXCEPT ![n] = Disabled]
      PROVE  \A m \in Queues : q'[m].items = q[m].items \/ q'[m].items = <<>>
  <2>1. CASE n \in Queues
    BY <1>0, <1>2, <2>1, QueueOff
  <2>2. CASE n \notin Queues
    BY <1>0, <1>2, <2>2 DEF SyncTypes
  <2> QED
    BY <2>1, <2>2
<1>3. ASSUME NEW s \in Sensors, AddFailed(s)
      PROVE  OrderInv'
  <2>1. call' = [call EXCEPT ![s] = Failing] /\ q' = q /\ slot' = slot
    BY <1>3 DEF AddFailed, Failing
  <2>2. call'[s].at = "failing" /\ \A u \in Sensors : u # s => call'[u] = call[u]
    BY <1>0, <2>1, FailingFacts DEF SyncTypes
  <2> QED
    BY <1>1, <2>1, <2>2, QuietLine
<1>4. ASSUME NEW s \in Sensors, MatchEnds(s)
      PROVE  OrderInv'
  <2>1. call' = [call EXCEPT ![s] = Idle] /\ q' = q /\ slot' = slot
    BY <1>4 DEF MatchEnds, Returns
  <2>2. call'[s].at = "idle" /\ \A u \in Sensors : u # s => call'[u] = call[u]
    BY <1>0, <2>1, IdleFacts DEF SyncTypes
  <2> QED
    BY <1>1, <2>1, <2>2, QuietLine
<1>5. ASSUME NEW s \in Sensors, StopQueue(s)
      PROVE  OrderInv'
  <2>1. PICK rest : rest = Tail(call[s].todo)
    OBVIOUS
  <2>2. /\ call[s].at = "failing" /\ slot' = slot
        /\ call' = [call EXCEPT ![s] = IF rest = <<>> THEN Idle ELSE [call[s] EXCEPT !.todo = rest]]
    BY <1>0, <1>5, <2>1 DEF StopQueue, SyncTypes
  <2>3. \A m \in Queues : q'[m].items = q[m].items \/ q'[m].items = <<>>
    BY <1>2, <1>5 DEF StopQueue
  <2>4. call[s] \in CallRecord /\ call \in [Sensors -> CallRecord]
    BY <1>0, CallTypes
  <2>5. call'[s].at \in {"idle", "failing"} /\ \A u \in Sensors : u # s => call'[u] = call[u]
    <3>1. CASE rest = <<>>
      <4>1. call' = [call EXCEPT ![s] = Idle]
        BY <2>2, <3>1
      <4> QED
        BY <2>4, <4>1, IdleFacts
    <3>2. CASE rest # <<>>
      <4>1. PICK r : r = [call[s] EXCEPT !.todo = rest]
        OBVIOUS
      <4>2. r.at = "failing"
        BY <2>2, <2>4, <4>1 DEF CallRecord
      <4>3. call' = [call EXCEPT ![s] = r]
        BY <2>2, <3>2, <4>1
      <4> QED
        BY <2>4, <4>2, <4>3
    <3> QED
      BY <3>1, <3>2
  <2> QED
    BY <1>1, <2>2, <2>3, <2>5, QuietLine
<1>6. "color" \in Sensors
  BY DEF Sensors
<1>7. CASE StartRefused \/ CaptureSyncStop \/ UNCHANGED vars
  <2>1. q' = q /\ slot' = slot /\ call' = call
    BY <1>7 DEF StartRefused, CaptureSyncStop, vars
  <2> QED
    BY <1>1, <1>6, <2>1, QuietLine
<1>8. CASE StartQueue
  <2>1. PICK n : q' = [q EXCEPT ![n].on = TRUE] /\ slot' = slot /\ call' = call
    BY <1>8 DEF StartQueue
  <2>2. q \in [Queues -> [on : BOOLEAN, items : Seq(Captures)]]
    BY <1>0 DEF SyncTypes
  <2>3. \A m \in Queues : q'[m].items = q[m].items
    BY <2>1, <2>2
  <2> QED
    BY <1>1, <1>6, <2>1, <2>3, QuietLine
<1>9. CASE DisableQueue
  <2>1. slot' = slot /\ call' = call
    BY <1>9 DEF DisableQueue
  <2>2. \A m \in Queues : q'[m].items = q[m].items \/ q'[m].items = <<>>
    BY <1>2, <1>9 DEF DisableQueue
  <2> QED
    BY <1>1, <1>6, <2>1, <2>2, QuietLine
<1>10. CASE StopReturns
  <2>1. q' = q /\ call' = call /\ \A x \in Sensors : slot'[x] = None
    BY <1>10 DEF StopReturns, StopEnds
  <2> QED
    BY <1>1, <1>6, <2>1, QuietLine
<1> QED
  BY <1>3, <1>4, <1>5, <1>7, <1>8, <1>9, <1>10 DEF ControlSteps

LEMMA OrderInvariant == Spec => []OrderInv
<1>1. Init => OrderInv
  BY OrderInit
<1>2. SyncInv /\ OrderInv /\ [Next]_vars => OrderInv'
  <2> SUFFICES ASSUME SyncInv, OrderInv, [Next]_vars PROVE OrderInv'
    OBVIOUS
  <2>1. ASSUME NEW s \in Sensors, AddCapture(s) \/ AddFailed(s) \/ AddSteps(s) PROVE OrderInv'
    BY <2>1, AddCaptureLine, AddPassedLine, AddStoredLine, MatchDropsLine, MatchMergesLine, RefillLine,
       OtherLines DEF AddSteps
  <2> QED
    BY <2>1, GetCaptureLine, CaptureSyncStartLine, OtherLines DEF Next
<1> QED
  BY <1>1, <1>2, SyncInvariant, PTL DEF Spec

(* One sequence after another.                                             *)
LEMMA ConcatFacts ==
  ASSUME NEW a \in Seq(Captures), NEW o \in Seq(Captures)
  PROVE  /\ a \o o \in Seq(Captures) /\ Len(a \o o) = Len(a) + Len(o)
         /\ \A k \in 1 .. Len(a) : (a \o o)[k] = a[k]
         /\ \A k \in Len(a) + 1 .. Len(a) + Len(o) : (a \o o)[k] = o[k - Len(a)]
OBVIOUS

(* Where the elements of a route come from.                                *)
LEMMA RouteIndex ==
  ASSUME SyncInv, NEW s \in Sensors, NEW i \in DOMAIN Route(s)
  PROVE  LET n == Len(q["sync"].items)
             m == IF slot[s] = None THEN n ELSE n + 1
         IN  /\ i \in Nat
             /\ \/ i \in DOMAIN q["sync"].items /\ i <= n /\ Route(s)[i] = q["sync"].items[i]
                \/ slot[s] # None /\ i = n + 1 /\ Route(s)[i] = slot[s]
                \/ i > m /\ i - m \in DOMAIN q[s].items /\ Route(s)[i] = q[s].items[i - m]
<1>1. PICK a, b, sl : a = q["sync"].items /\ b = q[s].items /\ sl = slot[s]
  OBVIOUS
<1>2. a \in Seq(Captures) /\ b \in Seq(Captures) /\ sl \in Captures \cup {None}
  <2>1. LineTypes(seen[s], q["sync"].items, slot[s], q[s].items, Brings(s), clock[s])
    BY LineTyped
  <2> QED
    BY <1>1, <2>1 DEF LineTypes
<1>3. CASE sl = None
  <2>1. Route(s) = a \o <<>> \o b
    BY <1>1, <1>3 DEF Route
  <2>2. a \o <<>> = a
    BY <1>2
  <2>3. Route(s) = a \o b
    BY <2>1, <2>2
  <2>4. i \in 1 .. Len(a) + Len(b) /\ Len(a) \in Nat /\ Len(b) \in Nat
    BY <1>2, <2>3
  <2>5. CASE i <= Len(a)
    BY <1>1, <1>2, <1>3, <2>3, <2>4, <2>5
  <2>6. CASE i > Len(a)
    <3>1. i - Len(a) \in 1 .. Len(b) /\ Route(s)[i] = b[i - Len(a)]
      BY <1>2, <2>3, <2>4, <2>6
    <3> QED
      BY <1>1, <1>2, <1>3, <2>4, <2>6, <3>1
  <2> QED
    BY <2>4, <2>5, <2>6
<1>4. CASE sl # None
  <2>1. Route(s) = a \o <<sl>> \o b
    BY <1>1, <1>4 DEF Route
  <2>2. PICK c : c = a \o <<sl>>
    OBVIOUS
  <2>3. /\ c \in Seq(Captures) /\ Len(c) = Len(a) + 1 /\ c[Len(a) + 1] = sl
        /\ \A k \in 1 .. Len(a) : c[k] = a[k]
    <3>1. <<sl>> \in Seq(Captures) /\ Len(<<sl>>) = 1 /\ <<sl>>[1] = sl
      BY <1>2, <1>4
    <3>2. PICK o : o = <<sl>>
      OBVIOUS
    <3>3. o \in Seq(Captures) /\ Len(o) = 1 /\ o[1] = sl /\ c = a \o o
      BY <2>2, <3>1, <3>2
    <3>4. c \in Seq(Captures) /\ Len(c) = Len(a) + 1
      BY <1>2, <3>3, ConcatFacts
    <3>5. \A k \in 1 .. Len(a) : c[k] = a[k]
      BY <1>2, <3>3
    <3>6. c[Len(a) + 1] = o[1]
      <4>1. PICK k : k = Len(a) + 1
        OBVIOUS
      <4>2. k \in Len(a) + 1 .. Len(a) + Len(o) /\ k - Len(a) = 1 /\ k \in Int /\ Len(a) \in Nat
        BY <1>2, <3>3, <4>1
      <4>3. c[k] = o[k - Len(a)]
        BY <1>2, <3>3, <4>2, ConcatFacts
      <4> QED
        BY <4>1, <4>2, <4>3
    <3> QED
      BY <3>3, <3>4, <3>5, <3>6
  <2>4. Route(s) = c \o b
    BY <2>1, <2>2
  <2>5. i \in 1 .. Len(c) + Len(b) /\ Len(a) \in Nat /\ Len(b) \in Nat
    BY <1>2, <2>3, <2>4
  <2>6. CASE i <= Len(a)
    <3>1. Route(s)[i] = c[i] /\ c[i] = a[i] /\ i \in DOMAIN a
      BY <1>2, <2>3, <2>4, <2>5, <2>6
    <3> QED
      BY <1>1, <2>5, <2>6, <3>1
  <2>7. CASE i = Len(a) + 1
    <3>1. Route(s)[i] = c[i]
      BY <1>2, <2>3, <2>4, <2>5, <2>7
    <3> QED
      BY <1>1, <1>4, <2>3, <2>5, <2>7, <3>1
  <2>8. CASE i > Len(a) + 1
    <3>1. i - Len(c) \in 1 .. Len(b) /\ Route(s)[i] = b[i - Len(c)]
      BY <1>2, <2>3, <2>4, <2>5, <2>8
    <3> QED
      BY <1>1, <1>2, <1>4, <2>3, <2>5, <2>8, <3>1
  <2> QED
    BY <2>5, <2>6, <2>7, <2>8
<1> QED
  BY <1>3, <1>4

(* Each sensor's images reach the user in the order they were taken, none  *)
(* twice, whatever is dropped, merged or passed through on the way (the    *)
(* slots and queues of add_capture, replace_sample and drop_sample).       *)
THEOREM ImagesArriveInOrder == Spec => []ArrivalOrderKept
<1>1. SyncInv /\ OrderInv => ArrivalOrderKept
  <2> SUFFICES ASSUME SyncInv, OrderInv, NEW s \in Sensors, NEW i \in DOMAIN Route(s), Carries(Route(s)[i], s)
               PROVE  /\ seen[s] < TakenAt(Route(s)[i], s)
                      /\ \A j \in DOMAIN Route(s) : i < j /\ Carries(Route(s)[j], s) =>
                           TakenAt(Route(s)[i], s) < TakenAt(Route(s)[j], s)
    BY DEF ArrivalOrderKept
  <2>1. PICK n, m, route : n = Len(q["sync"].items) /\ m = (IF slot[s] = None THEN n ELSE n + 1) /\ route = Route(s)
    OBVIOUS
  <2>2. PICK last, wait, sl, items, in, ck :
          /\ last = seen[s] /\ wait = q["sync"].items /\ sl = slot[s] /\ items = q[s].items
          /\ in = Brings(s) /\ ck = clock[s]
    OBVIOUS
  <2>3. InLine(s, last, wait, sl, items, in, ck) /\ n \in Nat /\ m \in Nat /\ m >= n
    <3>1. n \in Nat
      BY <2>1, QueueTypes DEF SyncInv, Queues
    <3> QED
      BY <2>1, <2>2, <3>1 DEF OrderInv, Line
  <2>4. ASSUME NEW k \in DOMAIN route
        PROVE  /\ k \in Nat
               /\ \/ k \in DOMAIN wait /\ k <= n /\ route[k] = wait[k]
                  \/ sl # None /\ k = n + 1 /\ route[k] = sl
                  \/ k > m /\ k - m \in DOMAIN items /\ route[k] = items[k - m]
    BY <2>1, <2>2, <2>4, RouteIndex
  <2>5. /\ sl # None => sl.sensor = s /\ TakenAt(sl, s) = sl.ts
        /\ \A k \in DOMAIN items : TakenAt(items[k], s) = items[k].ts
    BY <2>2 DEF SyncInv, Contents, TakenAt
  <2>6. seen[s] < TakenAt(Route(s)[i], s)
    <3>1. last < TakenAt(route[i], s)
      <4>1. CASE i \in DOMAIN wait /\ route[i] = wait[i]
        BY <2>1, <2>3, <4>1 DEF InLine
      <4>2. CASE sl # None /\ route[i] = sl
        BY <2>3, <2>5, <4>2 DEF InLine, IsBefore
      <4>3. CASE i - m \in DOMAIN items /\ route[i] = items[i - m]
        BY <2>3, <2>5, <4>3 DEF InLine, IsBefore
      <4> QED
        BY <2>1, <2>4, <4>1, <4>2, <4>3
    <3> QED
      BY <2>1, <2>2, <3>1
  <2>7. ASSUME NEW j \in DOMAIN Route(s), i < j, Carries(Route(s)[j], s)
        PROVE  TakenAt(Route(s)[i], s) < TakenAt(Route(s)[j], s)
    <3>0. i \in Nat /\ j \in Nat /\ j \in DOMAIN route /\ Carries(route[j], s) /\ Carries(route[i], s)
      BY <2>1, <2>4, <2>7
    <3>1. CASE i \in DOMAIN wait /\ route[i] = wait[i]
      <4>1. IsBefore(TakenAt(wait[i], s), sl, items, in, ck)
        BY <2>3, <3>0, <3>1 DEF InLine
      <4>2. CASE j \in DOMAIN wait /\ route[j] = wait[j]
        <5>1. TakenAt(wait[i], s) < TakenAt(wait[j], s)
          BY <2>3, <2>7, <3>0, <3>1, <4>2 DEF InLine
        <5> QED
          BY <2>1, <3>1, <4>2, <5>1
      <4>3. CASE sl # None /\ route[j] = sl
        BY <2>1, <2>5, <3>1, <4>1, <4>3 DEF IsBefore
      <4>4. CASE j - m \in DOMAIN items /\ route[j] = items[j - m]
        BY <2>1, <2>5, <3>1, <4>1, <4>4 DEF IsBefore
      <4> QED
        BY <2>4, <3>0, <4>2, <4>3, <4>4
    <3>2. CASE sl # None /\ i = n + 1 /\ route[i] = sl
      <4>1. IsBefore(sl.ts, None, items, in, ck)
        BY <2>3, <3>2 DEF InLine
      <4>2. j - m \in DOMAIN items /\ route[j] = items[j - m]
        BY <2>3, <2>4, <2>7, <3>0, <3>2
      <4> QED
        BY <2>1, <2>5, <3>2, <4>1, <4>2 DEF IsBefore
    <3>3. CASE i > m /\ i - m \in DOMAIN items /\ route[i] = items[i - m]
      <4>1. j > m /\ j > n + 1
        BY <2>1, <2>3, <2>7, <3>0, <3>3
      <4>2. j - m \in DOMAIN items /\ route[j] = items[j - m] /\ i - m < j - m
        BY <2>3, <2>4, <2>7, <3>0, <4>1
      <4>3. items[i - m].ts < items[j - m].ts
        BY <2>3, <3>3, <4>2 DEF InLine
      <4> QED
        BY <2>1, <2>5, <3>3, <4>2, <4>3
    <3> QED
      BY <2>1, <2>4, <3>1, <3>2, <3>3
  <2> QED
    BY <2>6, <2>7
<1> QED
  BY <1>1, SyncInvariant, OrderInvariant, PTL

-----------------------------------------------------------------------------
(* The references of a capture                                             *)

(* How often a holder of one capture, and a sequence, holds capture i.     *)
Holds(c, i) == IF c # None /\ Id(c) = i THEN 1 ELSE 0
Places(items, i) == {k \in DOMAIN items : Id(items[k]) = i}
Count(items, i) == Cardinality(Places(items, i))

LEMMA HoldsType == ASSUME NEW c, NEW i PROVE Holds(c, i) \in Int /\ Holds(None, i) = 0
BY DEF Holds

LEMMA IdType == ASSUME NEW c \in Captures PROVE Id(c) \in Ids /\ c # None
BY SyncAssumption DEF Captures, Id, Ids

LEMMA PlacesFinite ==
  ASSUME NEW items \in Seq(Captures), NEW i
  PROVE  IsFiniteSet(Places(items, i)) /\ Places(items, i) \subseteq 1 .. Len(items)
<1>1. DOMAIN items = 1 .. Len(items) /\ 1 \in Int /\ Len(items) \in Int
  OBVIOUS
<1>2. IsFiniteSet(1 .. Len(items))
  BY <1>1, FS_Interval
<1>3. Places(items, i) \subseteq 1 .. Len(items)
  BY <1>1 DEF Places
<1> QED
  BY <1>2, <1>3, FS_Subset

LEMMA CountType ==
  ASSUME NEW items \in Seq(Captures), NEW i
  PROVE  Count(items, i) \in Int
BY PlacesFinite, FS_CardinalityType DEF Count

LEMMA CountEmpty == ASSUME NEW i PROVE Count(<<>>, i) = 0
<1>1. Places(<<>>, i) = {}
  BY DEF Places
<1> QED
  BY <1>1, FS_EmptySet DEF Count

LEMMA CountAppend ==
  ASSUME NEW items \in Seq(Captures), NEW c \in Captures, NEW i
  PROVE  Count(Append(items, c), i) = Count(items, i) + Holds(c, i)
<1>1. PICK o, m : o = Append(items, c) /\ m = Len(items) + 1
  OBVIOUS
<1>2. /\ o \in Seq(Captures) /\ m \in Int /\ DOMAIN o = 1 .. m /\ o[m] = c
      /\ DOMAIN items = 1 .. m - 1 /\ \A k \in 1 .. m - 1 : o[k] = items[k]
  BY <1>1, AppendFacts
<1>3. m \notin Places(items, i) /\ IsFiniteSet(Places(items, i)) /\ Count(items, i) \in Int
  <2>1. m \notin 1 .. m - 1
    BY <1>2
  <2>2. m \notin Places(items, i)
    BY <1>2, <2>1 DEF Places
  <2> QED
    BY <2>2, PlacesFinite, CountType
<1>4. CASE Id(c) = i
  <2>1. Places(o, i) = Places(items, i) \cup {m}
    <3>1. \A k : k \in 1 .. m <=> k \in 1 .. m - 1 \/ k = m
      <4>1. 1 <= m
        BY <1>1
      <4> QED
        BY <1>2, <4>1
    <3> QED
      BY <1>2, <1>4, <3>1 DEF Places
  <2>2. Cardinality(Places(o, i)) = Cardinality(Places(items, i)) + 1
    BY <1>3, <2>1, FS_AddElement
  <2> QED
    BY <1>1, <1>4, <2>2, IdType DEF Count, Holds
<1>5. CASE Id(c) # i
  <2>1. Places(o, i) = Places(items, i)
    <3>1. \A k : k \in 1 .. m <=> k \in 1 .. m - 1 \/ k = m
      <4>1. 1 <= m
        BY <1>1
      <4> QED
        BY <1>2, <4>1
    <3> QED
      BY <1>2, <1>5, <3>1 DEF Places
  <2>2. Holds(c, i) = 0
    BY <1>5 DEF Holds
  <2> QED
    BY <1>1, <1>3, <2>1, <2>2 DEF Count
<1> QED
  BY <1>4, <1>5

(* Taking the oldest capture out shifts the places of the others.          *)
LEMMA CountTail ==
  ASSUME NEW items \in Seq(Captures), items # <<>>, NEW i
  PROVE  Count(Tail(items), i) = Count(items, i) - Holds(Head(items), i)
<1>1. PICK t, h, later : t = Tail(items) /\ h = Head(items) /\ later = Places(items, i) \ {1}
  OBVIOUS
<1>2. /\ t \in Seq(Captures) /\ Len(t) = Len(items) - 1 /\ h = items[1] /\ h \in Captures
      /\ 1 \in DOMAIN items /\ \A k \in DOMAIN t : t[k] = items[k + 1]
  BY <1>1, TailFacts
<1>3. DOMAIN t = 1 .. Len(items) - 1 /\ DOMAIN items = 1 .. Len(items) /\ Len(items) \in Nat
  BY <1>2
<1>4. IsFiniteSet(later) /\ Cardinality(later) = IF Id(h) = i THEN Count(items, i) - 1 ELSE Count(items, i)
  <2>1. IsFiniteSet(Places(items, i))
    BY PlacesFinite
  <2>2. 1 \in Places(items, i) <=> Id(h) = i
    BY <1>2 DEF Places
  <2> QED
    BY <1>1, <2>1, <2>2, FS_RemoveElement DEF Count
<1>5. ExistsBijection(later, Places(t, i))
  <2> DEFINE f == [k \in later |-> k - 1]
  <2>1. \A k \in later : k \in Int /\ k - 1 \in Places(t, i)
    <3> SUFFICES ASSUME NEW k \in later PROVE k \in Int /\ k - 1 \in Places(t, i)
      OBVIOUS
    <3>1. k \in 1 .. Len(items) /\ k # 1 /\ Id(items[k]) = i
      BY <1>1, <1>3 DEF Places
    <3>2. k - 1 \in 1 .. Len(items) - 1 /\ (k - 1) + 1 = k
      BY <1>3, <3>1
    <3> QED
      BY <1>2, <1>3, <3>1, <3>2 DEF Places
  <2>2. \A j \in Places(t, i) : \E k \in later : k - 1 = j
    <3> SUFFICES ASSUME NEW j \in Places(t, i) PROVE \E k \in later : k - 1 = j
      OBVIOUS
    <3>1. j \in 1 .. Len(items) - 1 /\ Id(t[j]) = i
      BY <1>3 DEF Places
    <3>2. j + 1 \in 1 .. Len(items) /\ j + 1 # 1 /\ (j + 1) - 1 = j
      BY <1>3, <3>1
    <3>3. j + 1 \in later
      BY <1>1, <1>2, <1>3, <3>1, <3>2 DEF Places
    <3> QED
      BY <3>2, <3>3
  <2>3. f \in [later -> Places(t, i)] /\ \A k \in later : f[k] = k - 1
    BY <2>1
  <2>4. \A k, l \in later : f[k] = f[l] => k = l
    BY <2>1, <2>3
  <2>5. \A j \in Places(t, i) : \E k \in later : f[k] = j
    BY <2>2, <2>3
  <2> HIDE DEF f
  <2>6. f \in Bijection(later, Places(t, i))
    BY <2>3, <2>4, <2>5 DEF Bijection, Injection, Surjection, IsInjective
  <2> QED
    BY <2>6 DEF ExistsBijection
<1>6. Cardinality(Places(t, i)) = Cardinality(later)
  BY <1>4, <1>5, FS_Bijection
<1>7. h # None /\ Count(items, i) \in Int
  BY <1>2, IdType, CountType
<1> QED
  BY <1>1, <1>4, <1>6, <1>7 DEF Count, Holds


LEMMA IncDec ==
  ASSUME NEW r \in [Ids -> Int], NEW c \in Captures
  PROVE  /\ Inc(r, c) \in [Ids -> Int] /\ \A i \in Ids : Inc(r, c)[i] = r[i] + Holds(c, i)
         /\ Dec(r, c) \in [Ids -> Int] /\ \A i \in Ids : Dec(r, c)[i] = r[i] - Holds(c, i)
<1>1. PICK j : j = Id(c) /\ j \in Ids /\ c # None
  BY IdType
<1>2. Inc(r, c) = [r EXCEPT ![j] = r[j] + 1] /\ Dec(r, c) = [r EXCEPT ![j] = r[j] - 1]
  BY <1>1 DEF Inc, Dec
<1>3. \A i \in Ids : Holds(c, i) = IF i = j THEN 1 ELSE 0
  BY <1>1 DEF Holds
<1> QED
  BY <1>1, <1>2, <1>3

(* queue_push takes a reference of what it stores and gives back that of   *)
(* what it drops.                                                          *)
LEMMA PushRefsFacts ==
  ASSUME SyncTypes, Contents, NEW n \in Queues, NEW c \in Captures, NEW r \in [Ids -> Int]
  PROVE  /\ PushRefs(r, n, c) \in [Ids -> Int]
         /\ \A i \in Ids : PushRefs(r, n, c)[i] = r[i] + Count(Pushed(n, c).items, i) - Count(q[n].items, i)
<1>1. q[n].items \in Seq(Captures) /\ q[n] \in [on : BOOLEAN, items : Seq(Captures)]
  BY QueueTypes
<1>2. \A i \in Ids : Count(q[n].items, i) \in Int /\ Holds(c, i) \in Int
  BY <1>1, CountType, HoldsType
<1>3. CASE ~q[n].on
  BY <1>2, <1>3 DEF PushRefs, Pushed
<1>4. CASE q[n].on /\ ~Full(n)
  <2>1. PushRefs(r, n, c) = Inc(r, c) /\ Pushed(n, c).items = Append(q[n].items, c)
    BY <1>1, <1>4 DEF PushRefs, Pushed
  <2>2. \A i \in Ids : Count(Pushed(n, c).items, i) = Count(q[n].items, i) + Holds(c, i)
    BY <1>1, <2>1, CountAppend
  <2>3. Inc(r, c) \in [Ids -> Int] /\ \A i \in Ids : Inc(r, c)[i] = r[i] + Holds(c, i)
    BY IncDec
  <2> QED
    BY <1>2, <2>1, <2>2, <2>3
<1>5. CASE q[n].on /\ Full(n)
  <2>1. q[n].items # <<>>
    BY <1>1, <1>5, CapacityType DEF Full
  <2>2. PICK h, t, d : h = Head(q[n].items) /\ t = Tail(q[n].items) /\ d = Dec(r, h)
    OBVIOUS
  <2>3. h \in Captures /\ t \in Seq(Captures)
    BY <1>1, <2>1, <2>2, TailFacts
  <2>4. PushRefs(r, n, c) = Inc(d, c) /\ Pushed(n, c).items = Append(t, c)
    BY <1>1, <1>5, <2>2 DEF PushRefs, Pushed
  <2>5. \A i \in Ids : Count(t, i) = Count(q[n].items, i) - Holds(h, i)
    BY <1>1, <2>1, <2>2, CountTail
  <2>6. \A i \in Ids : Count(Append(t, c), i) = Count(t, i) + Holds(c, i)
    BY <2>3, CountAppend
  <2>7. d \in [Ids -> Int] /\ \A i \in Ids : d[i] = r[i] - Holds(h, i)
    BY <2>2, <2>3, IncDec
  <2>8. Inc(d, c) \in [Ids -> Int] /\ \A i \in Ids : Inc(d, c)[i] = d[i] + Holds(c, i)
    BY <2>7, IncDec
  <2>9. \A i \in Ids : Holds(h, i) \in Int
    BY HoldsType
  <2> QED
    BY <1>2, <2>4, <2>5, <2>6, <2>7, <2>8, <2>9
<1> QED
  BY <1>3, <1>4, <1>5

LEMMA DropRefsFacts ==
  ASSUME SyncTypes, Contents, NEW c \in Captures, NEW r \in [Ids -> Int]
  PROVE  /\ RefsAfterDrop(r, c) \in [Ids -> Int]
         /\ SyncAfterDrop(c).items \in Seq(Captures)
         /\ \A i \in Ids : RefsAfterDrop(r, c)[i]
                           = r[i] + Count(SyncAfterDrop(c).items, i) - Count(q["sync"].items, i) - Holds(c, i)
<1>1. "sync" \in Queues
  BY DEF Queues
<1>2. q["sync"].items \in Seq(Captures) /\ Pushed("sync", c).items \in Seq(Captures)
  BY <1>1, QueueTypes, PushedFacts
<1>3. \A i \in Ids : /\ Count(q["sync"].items, i) \in Int /\ Holds(c, i) \in Int
                     /\ Count(Pushed("sync", c).items, i) \in Int
  BY <1>2, CountType, HoldsType
<1>4. CASE synchronized_images_only
  <2>1. RefsAfterDrop(r, c) = Dec(r, c) /\ SyncAfterDrop(c).items = q["sync"].items
    BY <1>4 DEF RefsAfterDrop, SyncAfterDrop
  <2>2. Dec(r, c) \in [Ids -> Int] /\ \A i \in Ids : Dec(r, c)[i] = r[i] - Holds(c, i)
    BY IncDec
  <2> QED
    BY <1>2, <1>3, <2>1, <2>2
<1>5. CASE ~synchronized_images_only
  <2>1. PICK p : p = PushRefs(r, "sync", c)
    OBVIOUS
  <2>2. RefsAfterDrop(r, c) = Dec(p, c) /\ SyncAfterDrop(c).items = Pushed("sync", c).items
    BY <1>5, <2>1 DEF RefsAfterDrop, SyncAfterDrop
  <2>3. /\ p \in [Ids -> Int]
        /\ \A i \in Ids : p[i] = r[i] + Count(Pushed("sync", c).items, i) - Count(q["sync"].items, i)
    BY <1>1, <2>1, PushRefsFacts
  <2>4. Dec(p, c) \in [Ids -> Int] /\ \A i \in Ids : Dec(p, c)[i] = p[i] - Holds(c, i)
    BY <2>3, IncDec
  <2> QED
    BY <1>2, <1>3, <2>2, <2>3, <2>4
<1> QED
  BY <1>4, <1>5

LEMMA DropAllFacts ==
  ASSUME NEW r \in [Ids -> Int], NEW items \in Seq(Captures)
  PROVE  /\ DropAll(r, items) \in [Ids -> Int]
         /\ \A i \in Ids : DropAll(r, items)[i] = r[i] - Count(items, i)
<1>1. DropAll(r, items) = [i \in Ids |-> r[i] - Count(items, i)]
  BY DEF DropAll, Count, Places
<1>2. \A i \in Ids : Count(items, i) \in Int
  BY CountType
<1> QED
  BY <1>1, <1>2

-----------------------------------------------------------------------------
(* What holds capture i: each sensor's thread, slot and queue, and the     *)
(* user's queue.                                                           *)
HeldBy(s, i) == Holds(call[s].capture, i) + Holds(slot[s], i) + Count(q[s].items, i)
Holders(i) == HeldBy("color", i) + HeldBy("depth", i) + Count(q["sync"].items, i)

RefInv == refs \in [Ids -> Int] /\ \A i \in Ids : refs[i] = Holders(i)

LEMMA HeldTypes ==
  ASSUME SyncTypes, NEW i
  PROVE  /\ \A s \in Sensors : HeldBy(s, i) \in Int /\ Count(q[s].items, i) \in Int
         /\ Count(q["sync"].items, i) \in Int
<1>1. \A n \in Queues : q[n].items \in Seq(Captures)
  BY QueueTypes
<1>2. \A n \in Queues : Count(q[n].items, i) \in Int
  BY <1>1, CountType
<1>3. \A s \in Sensors : Holds(call[s].capture, i) \in Int /\ Holds(slot[s], i) \in Int
  BY HoldsType
<1>4. \A s \in Sensors : s \in Queues /\ "sync" \in Queues
  BY DEF Queues
<1> QED
  BY <1>2, <1>3, <1>4 DEF HeldBy, Queues

(* A step in which one sensor's thread, slot and queue and the user's      *)
(* queue change, and the references with them.                             *)
Balanced(s) ==
  /\ \A u \in Sensors : u # s =>
       call'[u].capture = call[u].capture /\ slot'[u] = slot[u] /\ q'[u].items = q[u].items
  /\ refs' \in [Ids -> Int]
  /\ \A i \in Ids : refs'[i] = refs[i] + HeldBy(s, i)' - HeldBy(s, i)
                               + Count(q'["sync"].items, i) - Count(q["sync"].items, i)

LEMMA BalancedStep ==
  ASSUME SyncInv, SyncInv', RefInv, NEW s \in Sensors, Balanced(s)
  PROVE  RefInv'
<1> SUFFICES ASSUME NEW i \in Ids PROVE refs'[i] = Holders(i)'
  BY DEF RefInv, Balanced
<1>1. SyncTypes /\ SyncTypes'
  BY DEF SyncInv
<1>2. /\ \A u \in Sensors : HeldBy(u, i) \in Int
      /\ Count(q["sync"].items, i) \in Int
  BY <1>1, HeldTypes
<1>3. /\ \A u \in Sensors : HeldBy(u, i)' \in Int
      /\ Count(q'["sync"].items, i) \in Int
  <2>1. q' \in [Queues -> [on : BOOLEAN, items : Seq(Captures)]]
    BY <1>1 DEF SyncTypes
  <2>2. \A n \in Queues : q'[n].items \in Seq(Captures)
    BY <2>1
  <2>3. \A n \in Queues : Count(q'[n].items, i) \in Int
    BY <2>2, CountType
  <2>4. \A u \in Sensors : Holds(call'[u].capture, i) \in Int /\ Holds(slot'[u], i) \in Int
    BY HoldsType
  <2>5. \A u \in Sensors : HeldBy(u, i)' \in Int
    BY <2>3, <2>4 DEF HeldBy, Queues
  <2> QED
    BY <2>3, <2>5 DEF Queues
<1>4. \A u \in Sensors : u # s => HeldBy(u, i)' = HeldBy(u, i)
  BY DEF Balanced, HeldBy
<1>5. refs[i] = HeldBy("color", i) + HeldBy("depth", i) + Count(q["sync"].items, i)
  BY DEF RefInv, Holders
<1>6. Holders(i)' = HeldBy("color", i)' + HeldBy("depth", i)' + Count(q'["sync"].items, i)
  BY DEF Holders
<1>7. /\ refs'[i] = refs[i] + HeldBy(s, i)' - HeldBy(s, i)
                    + Count(q'["sync"].items, i) - Count(q["sync"].items, i)
      /\ refs[i] \in Int
  BY DEF Balanced, RefInv
<1>8. CASE s = "color"
  BY <1>2, <1>3, <1>4, <1>5, <1>6, <1>7, <1>8 DEF Sensors
<1>9. CASE s = "depth"
  BY <1>2, <1>3, <1>4, <1>5, <1>6, <1>7, <1>9 DEF Sensors
<1> QED
  BY <1>8, <1>9 DEF Sensors


(* A step that leaves the slots and queues alone, and the calls as far as  *)
(* their captures are concerned.                                           *)
LEMMA QuietRefs ==
  ASSUME RefInv, UNCHANGED <<refs, slot>>,
         \A n \in Queues : q'[n].items = q[n].items,
         \A u \in Sensors : call'[u].capture = call[u].capture
  PROVE  RefInv'
<1>1. \A u \in Sensors : u \in Queues /\ "sync" \in Queues
  BY DEF Queues
<1>2. \A i, u : u \in Sensors => HeldBy(u, i)' = HeldBy(u, i)
  BY <1>1 DEF HeldBy
<1>3. \A i : Holders(i)' = Holders(i)
  BY <1>1, <1>2 DEF Holders, Sensors
<1> QED
  BY <1>3 DEF RefInv

(* A thread whose call ends, or begins, without a queue.                   *)
LEMMA ReturnsFacts ==
  ASSUME SyncTypes, NEW s \in Sensors, NEW r, Returns(s, r)
  PROVE  /\ call'[s].capture = None
         /\ \A u \in Sensors : u # s => call'[u] = call[u]
         /\ refs' = Dec(r, call[s].capture)
BY CallTypes, IdleFacts DEF Returns

LEMMA MatchEndsRefs ==
  ASSUME SyncInv, SyncInv', RefInv, NEW s \in Sensors, MatchEnds(s)
  PROVE  RefInv'
<1>0. SyncTypes
  BY DEF SyncInv
<1>1. Returns(s, refs) /\ UNCHANGED <<q, slot>> /\ call[s].at = "match"
  BY DEF MatchEnds
<1>2. PICK c : c = call[s].capture
  OBVIOUS
<1>3. c \in Captures
  BY <1>1, <1>2, Brought
<1>4. /\ call'[s].capture = None /\ refs' = Dec(refs, c)
      /\ \A u \in Sensors : u # s => call'[u] = call[u]
  BY <1>0, <1>1, <1>2, ReturnsFacts
<1>5. refs' \in [Ids -> Int] /\ \A i \in Ids : refs'[i] = refs[i] - Holds(c, i) /\ refs[i] \in Int
  BY <1>3, <1>4, IncDec DEF RefInv
<1>6. \A i \in Ids : refs'[i] = refs[i] + HeldBy(s, i)' - HeldBy(s, i)
                                + Count(q'["sync"].items, i) - Count(q["sync"].items, i)
  <2> SUFFICES ASSUME NEW i \in Ids
               PROVE  refs'[i] = refs[i] + HeldBy(s, i)' - HeldBy(s, i)
                                 + Count(q'["sync"].items, i) - Count(q["sync"].items, i)
    OBVIOUS
  <2>1. HeldBy(s, i) = Holds(c, i) + Holds(slot[s], i) + Count(q[s].items, i)
    BY <1>2 DEF HeldBy
  <2>2. HeldBy(s, i)' = Holds(None, i) + Holds(slot[s], i) + Count(q[s].items, i)
    BY <1>1, <1>4 DEF HeldBy
  <2>3. /\ Holds(None, i) = 0 /\ Holds(c, i) \in Int /\ Holds(slot[s], i) \in Int
        /\ Count(q[s].items, i) \in Int /\ Count(q["sync"].items, i) \in Int
    BY <1>0, HoldsType, HeldTypes
  <2>4. Count(q'["sync"].items, i) = Count(q["sync"].items, i)
    BY <1>1
  <2> QED
    BY <1>5, <2>1, <2>2, <2>3, <2>4
<1>7. Balanced(s)
  BY <1>1, <1>4, <1>5, <1>6 DEF Balanced
<1> QED
  BY <1>7, BalancedStep

LEMMA AddPassedRefs ==
  ASSUME SyncInv, SyncInv', RefInv, NEW s \in Sensors, AddPassed(s)
  PROVE  RefInv'
<1>0. SyncTypes /\ Contents /\ "sync" \in Queues /\ s \in Queues /\ s # "sync"
  BY DEF SyncInv, Queues, Sensors
<1>1. PICK c : c = call[s].capture
  OBVIOUS
<1>2. /\ UNCHANGED slot /\ call[s].at = "lock"
      /\ \/ q' = [q EXCEPT !["sync"] = Pushed("sync", c)] /\ Returns(s, PushRefs(refs, "sync", c))
         \/ q' = q /\ Returns(s, refs)
  BY <1>1 DEF AddPassed
<1>3. c \in Captures
  BY <1>1, <1>2, Brought
<1>4. PICK r : /\ Returns(s, r)
               /\ \/ r = PushRefs(refs, "sync", c) /\ q' = [q EXCEPT !["sync"] = Pushed("sync", c)]
                  \/ r = refs /\ q' = q
  <2>1. CASE q' = q /\ Returns(s, refs)
    BY <2>1
  <2>2. CASE q' = [q EXCEPT !["sync"] = Pushed("sync", c)] /\ Returns(s, PushRefs(refs, "sync", c))
    BY <2>2
  <2> QED
    BY <1>2, <2>1, <2>2
<1>5. /\ call'[s].capture = None /\ refs' = Dec(r, c)
      /\ \A u \in Sensors : u # s => call'[u] = call[u]
  BY <1>0, <1>1, <1>4, ReturnsFacts
<1>6. refs \in [Ids -> Int]
  BY DEF RefInv
<1>7. /\ r \in [Ids -> Int]
      /\ \A u \in Sensors : q'[u] = q[u]
      /\ \A i \in Ids : r[i] = refs[i] + Count(q'["sync"].items, i) - Count(q["sync"].items, i)
  <2>1. CASE r = refs /\ q' = q
    <3>1. \A i \in Ids : Count(q["sync"].items, i) \in Int
      BY <1>0, HeldTypes
    <3> QED
      BY <1>6, <2>1, <3>1
  <2>2. CASE r = PushRefs(refs, "sync", c) /\ q' = [q EXCEPT !["sync"] = Pushed("sync", c)]
    <3>1. q \in [Queues -> [on : BOOLEAN, items : Seq(Captures)]]
      BY <1>0 DEF SyncTypes
    <3>2. q'["sync"] = Pushed("sync", c) /\ \A u \in Sensors : q'[u] = q[u]
      BY <1>0, <2>2, <3>1 DEF Queues, Sensors
    <3> QED
      BY <1>0, <1>3, <1>6, <2>2, <3>2, PushRefsFacts
  <2> QED
    BY <1>4, <2>1, <2>2
<1>8. refs' \in [Ids -> Int] /\ \A i \in Ids : refs'[i] = r[i] - Holds(c, i)
  BY <1>3, <1>5, <1>7, IncDec
<1>9. \A i \in Ids : refs'[i] = refs[i] + HeldBy(s, i)' - HeldBy(s, i)
                                + Count(q'["sync"].items, i) - Count(q["sync"].items, i)
  <2> SUFFICES ASSUME NEW i \in Ids
               PROVE  refs'[i] = refs[i] + HeldBy(s, i)' - HeldBy(s, i)
                                 + Count(q'["sync"].items, i) - Count(q["sync"].items, i)
    OBVIOUS
  <2>1. HeldBy(s, i) = Holds(c, i) + Holds(slot[s], i) + Count(q[s].items, i)
    BY <1>1 DEF HeldBy
  <2>2. HeldBy(s, i)' = Holds(None, i) + Holds(slot[s], i) + Count(q[s].items, i)
    BY <1>2, <1>5, <1>7 DEF HeldBy
  <2>3. /\ Holds(None, i) = 0 /\ Holds(c, i) \in Int /\ Holds(slot[s], i) \in Int
        /\ Count(q[s].items, i) \in Int /\ Count(q["sync"].items, i) \in Int
    BY <1>0, HoldsType, HeldTypes
  <2>4. Count(q'["sync"].items, i) \in Int
    <3>1. q' \in [Queues -> [on : BOOLEAN, items : Seq(Captures)]]
      BY DEF SyncInv, SyncTypes
    <3>2. q'["sync"].items \in Seq(Captures)
      BY <1>0, <3>1
    <3> QED
      BY <3>2, CountType
  <2> QED
    BY <1>6, <1>7, <1>8, <2>1, <2>2, <2>3, <2>4
<1>10. Balanced(s)
  BY <1>2, <1>5, <1>7, <1>8, <1>9 DEF Balanced
<1> QED
  BY <1>10, BalancedStep

(* A queue is stopped and its captures are released.                       *)
LEMMA StoppedRefs ==
  ASSUME SyncInv, SyncInv', RefInv, NEW n \in Queues, q' = [q EXCEPT ![n] = Disabled],
         refs' = DropAll(refs, q[n].items), UNCHANGED slot,
         \A u \in Sensors : call'[u].capture = call[u].capture
  PROVE  RefInv'
<1>0. SyncTypes /\ Contents
  BY DEF SyncInv
<1>1. q'[n].items = <<>> /\ \A m \in Queues : m # n => q'[m] = q[m]
  BY <1>0, QueueOff
<1>2. q[n].items \in Seq(Captures) /\ refs \in [Ids -> Int]
  BY <1>0, QueueTypes DEF RefInv
<1>3. refs' \in [Ids -> Int] /\ \A i \in Ids : refs'[i] = refs[i] - Count(q[n].items, i)
  BY <1>2, DropAllFacts
<1>4. \A i \in Ids : Count(q'[n].items, i) = 0 /\ Count(q[n].items, i) \in Int
  BY <1>1, <1>2, CountEmpty, CountType
<1>5. CASE n = "sync"
  <2>1. \A u \in Sensors : q'[u] = q[u] /\ "color" \in Sensors
    BY <1>1, <1>5 DEF Queues, Sensors
  <2>2. \A i \in Ids : HeldBy("color", i)' = HeldBy("color", i) /\ HeldBy("color", i) \in Int
    <3>1. \A i \in Ids : HeldBy("color", i) \in Int
      BY <1>0, <2>1, HeldTypes DEF Sensors
    <3>2. call'["color"].capture = call["color"].capture /\ q'["color"] = q["color"]
      BY <2>1 DEF Sensors
    <3> QED
      BY <3>1, <3>2 DEF HeldBy
  <2>3. Balanced("color")
    BY <1>2, <1>3, <1>4, <1>5, <2>1, <2>2 DEF Balanced
  <2> QED
    BY <2>1, <2>3, BalancedStep DEF Sensors
<1>6. CASE n \in Sensors
  <2>1. q'["sync"] = q["sync"] /\ \A u \in Sensors : u # n => q'[u] = q[u]
    BY <1>1, <1>6 DEF Queues, Sensors
  <2>2. \A i \in Ids : refs'[i] = refs[i] + HeldBy(n, i)' - HeldBy(n, i)
                                  + Count(q'["sync"].items, i) - Count(q["sync"].items, i)
    <3> SUFFICES ASSUME NEW i \in Ids
                 PROVE  refs'[i] = refs[i] + HeldBy(n, i)' - HeldBy(n, i)
                                   + Count(q'["sync"].items, i) - Count(q["sync"].items, i)
      OBVIOUS
    <3>1. HeldBy(n, i) = Holds(call[n].capture, i) + Holds(slot[n], i) + Count(q[n].items, i)
      BY DEF HeldBy
    <3>2. HeldBy(n, i)' = Holds(call[n].capture, i) + Holds(slot[n], i) + 0
      BY <1>4, <1>6 DEF HeldBy
    <3>3. Holds(call[n].capture, i) \in Int /\ Holds(slot[n], i) \in Int /\ Count(q["sync"].items, i) \in Int
      BY <1>0, HoldsType, HeldTypes
    <3>4. refs'[i] = refs[i] - Count(q[n].items, i) /\ Count(q[n].items, i) \in Int /\ refs[i] \in Int
      BY <1>2, <1>3, <1>4
    <3> QED
      BY <2>1, <3>1, <3>2, <3>3, <3>4
  <2>3. Balanced(n)
    BY <1>3, <2>1, <2>2 DEF Balanced
  <2> QED
    BY <1>6, <2>3, BalancedStep
<1> QED
  BY <1>5, <1>6 DEF Queues

LEMMA StopQueueRefs ==
  ASSUME SyncInv, SyncInv', RefInv, NEW s \in Sensors, StopQueue(s)
  PROVE  RefInv'
<1>0. SyncTypes /\ Protocol
  BY DEF SyncInv
<1>1. PICK n, rest, names : names = call[s].todo /\ n = Head(names) /\ rest = Tail(names)
  OBVIOUS
<1>2. /\ call[s].at = "failing" /\ UNCHANGED slot
      /\ q' = [q EXCEPT ![n] = Disabled] /\ refs' = DropAll(refs, q[n].items)
      /\ call' = [call EXCEPT ![s] = IF rest = <<>> THEN Idle ELSE [call[s] EXCEPT !.todo = rest]]
  BY <1>0, <1>1 DEF StopQueue, SyncTypes
<1>3. names \in ToStop /\ call[s].capture = None
  BY <1>0, <1>1, <1>2 DEF Protocol
<1>4. n \in Queues
  BY <1>1, <1>3, StopNames
<1>5. call[s] \in CallRecord /\ call \in [Sensors -> CallRecord]
  BY <1>0, CallTypes
<1>6. \A u \in Sensors : call'[u].capture = call[u].capture
  <2>1. CASE rest = <<>>
    <3>1. call' = [call EXCEPT ![s] = Idle]
      BY <1>2, <2>1
    <3> QED
      BY <1>3, <1>5, <3>1, IdleFacts
  <2>2. CASE rest # <<>>
    <3>1. PICK r : r = [call[s] EXCEPT !.todo = rest]
      OBVIOUS
    <3>2. r.capture = None
      BY <1>3, <1>5, <3>1 DEF CallRecord
    <3>3. call' = [call EXCEPT ![s] = r]
      BY <1>2, <2>2, <3>1
    <3> QED
      BY <1>3, <1>5, <3>2, <3>3
  <2> QED
    BY <2>1, <2>2
<1> QED
  BY <1>2, <1>4, <1>6, StoppedRefs

LEMMA DisableQueueRefs ==
  ASSUME SyncInv, SyncInv', RefInv, DisableQueue
  PROVE  RefInv'
<1>1. PICK n, names : names = control.todo /\ n = Head(names)
  OBVIOUS
<1>2. /\ names # <<>> /\ q' = [q EXCEPT ![n] = Disabled] /\ refs' = DropAll(refs, q[n].items)
      /\ UNCHANGED slot /\ UNCHANGED call
  BY <1>1 DEF DisableQueue
<1>3. names \in ToSwitch
  BY <1>1, <1>2 DEF SyncInv, SyncTypes
<1>4. n \in Queues
  BY <1>1, <1>3, SwitchNames
<1> QED
  BY <1>2, <1>4, StoppedRefs


(* A new capture is not held by anybody yet: its timestamp is beyond the   *)
(* sensor's clock, or from before the reset, and such captures are not     *)
(* kept.                                                                   *)
LEMMA CountNone ==
  ASSUME NEW items \in Seq(Captures), NEW i, \A k \in DOMAIN items : Id(items[k]) # i
  PROVE  Count(items, i) = 0
<1>1. Places(items, i) = {}
  BY DEF Places
<1> QED
  BY <1>1, FS_EmptySet DEF Count

LEMMA NotYetHeld ==
  ASSUME SyncInv, OrderInv, NEW s \in Sensors, call[s].at = "idle",
         NEW ts \in 0 .. MaxTs \cup {Unclean}, ts # Unclean => ts > clock[s]
  PROVE  \A u \in Sensors : HeldBy(u, <<s, ts>>) = 0 /\ Count(q["sync"].items, <<s, ts>>) = 0
<1>0. SyncTypes /\ Protocol /\ Contents /\ "sync" \in Queues /\ clock[s] \in Int /\ ts \in Int
  BY UncleanIsLater, SyncAssumption DEF SyncInv, Queues, SyncTypes
<1>1. \A c : Id(c) = <<s, ts>> => c.sensor = s /\ c.ts = ts
  BY DEF Id
<1>2. InLine(s, seen[s], q["sync"].items, slot[s], q[s].items, Brings(s), clock[s])
  BY DEF OrderInv, Line
<1>3. \A n \in Queues : q[n].items \in Seq(Captures) /\ \A k \in DOMAIN q[n].items : q[n].items[k] \in Captures
  BY <1>0, QueueTypes
<1>4. \A k \in DOMAIN q["sync"].items : Id(q["sync"].items[k]) # <<s, ts>>
  <2> SUFFICES ASSUME NEW k \in DOMAIN q["sync"].items, Id(q["sync"].items[k]) = <<s, ts>>
               PROVE  FALSE
    OBVIOUS
  <2>1. PICK c : c = q["sync"].items[k]
    OBVIOUS
  <2>2. c.sensor = s /\ c.ts = ts /\ c.ts # Unclean
    BY <1>0, <1>1, <2>1 DEF Contents
  <2>3. Carries(c, s) /\ TakenAt(c, s) = ts
    BY <2>2 DEF Carries, TakenAt
  <2>4. IsBefore(ts, slot[s], q[s].items, Brings(s), clock[s])
    BY <1>2, <2>1, <2>3 DEF InLine
  <2>5. ts <= clock[s]
    BY <2>4 DEF IsBefore
  <2> QED
    BY <1>0, <2>2, <2>5
<1>5. \A u \in Sensors : \A k \in DOMAIN q[u].items : Id(q[u].items[k]) # <<s, ts>>
  <2> SUFFICES ASSUME NEW u \in Sensors, NEW k \in DOMAIN q[u].items, Id(q[u].items[k]) = <<s, ts>>
               PROVE  FALSE
    OBVIOUS
  <2>1. PICK c : c = q[u].items[k]
    OBVIOUS
  <2>2. c.sensor = s /\ c.ts = ts /\ c.ts # Unclean /\ c.sensor = u
    BY <1>0, <1>1, <2>1 DEF Contents
  <2>3. c.ts <= clock[s]
    BY <1>2, <2>1, <2>2 DEF InLine
  <2> QED
    BY <1>0, <2>2, <2>3
<1>6. \A u \in Sensors : Holds(slot[u], <<s, ts>>) = 0
  <2> SUFFICES ASSUME NEW u \in Sensors, slot[u] # None, Id(slot[u]) = <<s, ts>>
               PROVE  FALSE
    BY DEF Holds
  <2>1. slot[u].sensor = s /\ slot[u].ts = ts /\ slot[u].ts # Unclean /\ slot[u].sensor = u
    BY <1>0, <1>1 DEF Contents
  <2>2. slot[s].ts <= clock[s]
    BY <1>2, <2>1 DEF InLine, IsBefore
  <2> QED
    BY <1>0, <2>1, <2>2
<1>7. \A u \in Sensors : Holds(call[u].capture, <<s, ts>>) = 0
  <2> SUFFICES ASSUME NEW u \in Sensors, call[u].capture # None, Id(call[u].capture) = <<s, ts>>
               PROVE  FALSE
    BY DEF Holds
  <2>1. call[u].capture.sensor = s /\ call[u].capture.sensor = u
    BY <1>0, <1>1 DEF Contents
  <2> QED
    BY <1>0, <2>1 DEF Protocol
<1>8. \A n \in Queues : Count(q[n].items, <<s, ts>>) = 0
  <2>1. \A n \in Queues : \A k \in DOMAIN q[n].items : Id(q[n].items[k]) # <<s, ts>>
    BY <1>4, <1>5 DEF Queues
  <2> QED
    BY <1>3, <2>1, CountNone
<1> QED
  BY <1>0, <1>6, <1>7, <1>8 DEF HeldBy, Queues

LEMMA AddCaptureRefs ==
  ASSUME SyncInv, SyncInv', OrderInv, RefInv, NEW s \in Sensors, AddCapture(s)
  PROVE  RefInv'
<1>0. SyncTypes /\ s \in Queues /\ UNCHANGED <<q, slot>> /\ call[s].at = "idle"
  BY DEF SyncInv, Queues, AddCapture
<1>1. PICK ts \in 0 .. MaxTs \cup {Unclean} :
           /\ call' = [call EXCEPT ![s] = Bringing(Capture(s, ts))]
           /\ ts # Unclean => ts > clock[s]
           /\ refs' = [refs EXCEPT ![<<s, ts>>] = 1]
  BY <1>0, NewCapture
<1>2. PICK c, j : c = Capture(s, ts) /\ j = <<s, ts>>
  OBVIOUS
<1>3. c \in Captures /\ c # None /\ Id(c) = j /\ j \in Ids
  BY <1>2, CaptureType DEF Id, Ids
<1>4. call'[s].capture = c /\ \A u \in Sensors : u # s => call'[u] = call[u]
  <2>1. PICK b : b = Bringing(c)
    OBVIOUS
  <2>2. b.capture = c /\ call' = [call EXCEPT ![s] = b]
    BY <1>1, <1>2, <1>3, <2>1, BringingFacts
  <2> QED
    BY <1>0, <2>2, CallTypes
<1>5. HeldBy(s, j) = 0 /\ refs[j] = 0
  <2>1. \A u \in Sensors : HeldBy(u, j) = 0 /\ Count(q["sync"].items, j) = 0
    BY <1>0, <1>1, <1>2, NotYetHeld
  <2> QED
    BY <1>3, <2>1 DEF RefInv, Holders, Sensors
<1>6. refs \in [Ids -> Int]
  BY DEF RefInv
<1>7. refs' \in [Ids -> Int] /\ \A i \in Ids : refs'[i] = refs[i] + Holds(c, i)
  <2>1. \A i \in Ids : Holds(c, i) = IF i = j THEN 1 ELSE 0
    BY <1>3 DEF Holds
  <2>2. refs' = [refs EXCEPT ![j] = 1]
    BY <1>1, <1>2
  <2> QED
    BY <1>3, <1>5, <1>6, <2>1, <2>2
<1>8. call[s].capture = None
  BY <1>0 DEF SyncInv, Protocol
<1>9. \A i \in Ids : refs'[i] = refs[i] + HeldBy(s, i)' - HeldBy(s, i)
                                + Count(q'["sync"].items, i) - Count(q["sync"].items, i)
  <2> SUFFICES ASSUME NEW i \in Ids
               PROVE  refs'[i] = refs[i] + HeldBy(s, i)' - HeldBy(s, i)
                                 + Count(q'["sync"].items, i) - Count(q["sync"].items, i)
    OBVIOUS
  <2>1. HeldBy(s, i) = Holds(None, i) + Holds(slot[s], i) + Count(q[s].items, i)
    BY <1>8 DEF HeldBy
  <2>2. HeldBy(s, i)' = Holds(c, i) + Holds(slot[s], i) + Count(q[s].items, i)
    BY <1>0, <1>4 DEF HeldBy
  <2>3. /\ Holds(None, i) = 0 /\ Holds(c, i) \in Int /\ Holds(slot[s], i) \in Int
        /\ Count(q[s].items, i) \in Int /\ Count(q["sync"].items, i) \in Int
    BY <1>0, HoldsType, HeldTypes
  <2>4. Count(q'["sync"].items, i) = Count(q["sync"].items, i) /\ refs[i] \in Int
    BY <1>0, <1>6
  <2> QED
    BY <1>7, <2>1, <2>2, <2>3, <2>4
<1>10. Balanced(s)
  BY <1>0, <1>4, <1>7, <1>9 DEF Balanced
<1> QED
  BY <1>10, BalancedStep

(* A capture is stored; the call keeps its own reference until it returns. *)
LEMMA AddStoredRefs ==
  ASSUME SyncInv, SyncInv', RefInv, NEW s \in Sensors, AddStored(s)
  PROVE  RefInv'
<1>0. SyncTypes /\ Contents /\ "sync" \in Queues /\ s \in Queues /\ s # "sync"
  BY DEF SyncInv, Queues, Sensors
<1>1. PICK c : c = call[s].capture
  OBVIOUS
<1>2. c \in Captures /\ c # None /\ call' = [call EXCEPT ![s].at = "match"] /\ Store(s, c)
  <2>1. Store(s, c)
    BY <1>1 DEF AddStored
  <2> QED
    BY <1>1, <2>1, AddStoredFacts
<1>3. \A u \in Sensors : call'[u].capture = call[u].capture
  <2>1. call \in [Sensors -> CallRecord]
    BY <1>0, CallTypes
  <2> QED
    BY <1>2, <2>1 DEF CallRecord
<1>4. refs \in [Ids -> Int] /\ q \in [Queues -> [on : BOOLEAN, items : Seq(Captures)]]
      /\ slot \in [Sensors -> Captures \cup {None}]
  BY <1>0 DEF RefInv, SyncTypes
<1>5. /\ refs' \in [Ids -> Int]
      /\ \A u \in Sensors : u # s => slot'[u] = slot[u] /\ q'[u].items = q[u].items
      /\ \A i \in Ids : refs'[i] = refs[i] + Holds(slot'[s], i) - Holds(slot[s], i)
                                   + Count(q'[s].items, i) - Count(q[s].items, i)
                                   + Count(q'["sync"].items, i) - Count(q["sync"].items, i)
  <2>0. /\ \A i \in Ids : /\ Holds(c, i) \in Int /\ Holds(slot[s], i) \in Int /\ refs[i] \in Int
                          /\ Count(q["sync"].items, i) \in Int /\ Count(q[s].items, i) \in Int
    BY <1>0, <1>4, HoldsType, HeldTypes
  <2>1. CASE slot[s] = None
    <3>1. slot' = [slot EXCEPT ![s] = c] /\ refs' = Inc(refs, c) /\ q' = q
      BY <1>2, <2>1 DEF Store
    <3>2. refs' \in [Ids -> Int] /\ \A i \in Ids : refs'[i] = refs[i] + Holds(c, i)
      BY <1>2, <1>4, <3>1, IncDec
    <3>3. slot'[s] = c /\ \A u \in Sensors : u # s => slot'[u] = slot[u]
      BY <1>4, <3>1
    <3>4. \A i \in Ids : Holds(slot[s], i) = 0
      BY <2>1, HoldsType
    <3> QED
      BY <2>0, <3>1, <3>2, <3>3, <3>4
  <2>2. CASE slot[s] # None /\ q[s].on /\ Full(s)
    <3>1. PICK o, r, p : o = slot[s] /\ r = Inc(refs, c) /\ p = SyncAfterDrop(o)
      OBVIOUS
    <3>2. /\ slot' = [slot EXCEPT ![s] = Head(q[s].items)]
          /\ q' = [q EXCEPT ![s] = Pushed(s, c), !["sync"] = p]
          /\ refs' = RefsAfterDrop(r, o)
      BY <1>2, <2>2, <3>1 DEF Store, replace_sample
    <3>3. o \in Captures /\ q[s].items \in Seq(Captures) /\ q[s].items # <<>>
      <4>1. Len(q[s].items) = Capacity(s) /\ Capacity(s) \in Nat \ {0}
        BY <2>2, CapacityType DEF Full
      <4> QED
        BY <1>0, <1>4, <2>2, <3>1, <4>1, QueueTypes
    <3>4. PICK h, t : h = Head(q[s].items) /\ t = Tail(q[s].items)
      OBVIOUS
    <3>5. h \in Captures /\ t \in Seq(Captures)
      BY <3>3, <3>4, TailFacts
    <3>6. Pushed(s, c).items = Append(t, c)
      BY <1>0, <1>4, <2>2, <3>4 DEF Pushed
    <3>7. /\ slot'[s] = h /\ q'["sync"] = p /\ q'[s] = Pushed(s, c)
          /\ \A u \in Sensors : u # s => slot'[u] = slot[u] /\ q'[u] = q[u]
      BY <1>0, <1>4, <3>2, <3>4 DEF Queues, Sensors
    <3>8. r \in [Ids -> Int] /\ \A i \in Ids : r[i] = refs[i] + Holds(c, i)
      BY <1>2, <1>4, <3>1, IncDec
    <3>9. /\ refs' \in [Ids -> Int] /\ p.items \in Seq(Captures)
          /\ \A i \in Ids : refs'[i] = r[i] + Count(p.items, i) - Count(q["sync"].items, i) - Holds(o, i)
      BY <1>0, <3>1, <3>2, <3>3, <3>8, DropRefsFacts
    <3>10. \A i \in Ids : Count(Append(t, c), i) = Count(t, i) + Holds(c, i)
      BY <1>2, <3>5, CountAppend
    <3>11. \A i \in Ids : Count(t, i) = Count(q[s].items, i) - Holds(h, i)
      BY <3>3, <3>4, CountTail
    <3>12. \A i \in Ids : Holds(h, i) \in Int /\ Holds(o, i) \in Int /\ Count(p.items, i) \in Int
      BY <3>9, HoldsType, CountType
    <3>13. \A i \in Ids : refs'[i] = refs[i] + Holds(h, i) - Holds(o, i)
                                   + Count(Append(t, c), i) - Count(q[s].items, i)
                                   + Count(p.items, i) - Count(q["sync"].items, i)
      <4> SUFFICES ASSUME NEW i \in Ids
                   PROVE  refs'[i] = refs[i] + Holds(h, i) - Holds(o, i)
                                   + Count(Append(t, c), i) - Count(q[s].items, i)
                                   + Count(p.items, i) - Count(q["sync"].items, i)
        OBVIOUS
      <4>1. r[i] = refs[i] + Holds(c, i)
            /\ refs'[i] = r[i] + Count(p.items, i) - Count(q["sync"].items, i) - Holds(o, i)
        BY <3>8, <3>9
      <4>2. Count(Append(t, c), i) = (Count(q[s].items, i) - Holds(h, i)) + Holds(c, i)
        BY <3>10, <3>11
      <4>3. /\ Holds(h, i) \in Int /\ Holds(o, i) \in Int /\ Count(p.items, i) \in Int
            /\ Holds(c, i) \in Int /\ refs[i] \in Int
            /\ Count(q["sync"].items, i) \in Int /\ Count(q[s].items, i) \in Int
        BY <2>0, <3>12
      <4> QED
        BY <4>1, <4>2, <4>3
    <3> QED
      BY <3>1, <3>6, <3>7, <3>9, <3>13
  <2>3. CASE slot[s] # None /\ ~(q[s].on /\ Full(s))
    <3>1. q' = [q EXCEPT ![s] = Pushed(s, c)] /\ refs' = PushRefs(refs, s, c) /\ slot' = slot
      BY <1>2, <2>3 DEF Store
    <3>2. q'[s] = Pushed(s, c) /\ q'["sync"] = q["sync"] /\ \A u \in Sensors : u # s => q'[u] = q[u]
      BY <1>0, <1>4, <3>1 DEF Queues
    <3>3. /\ refs' \in [Ids -> Int]
          /\ \A i \in Ids : refs'[i] = refs[i] + Count(Pushed(s, c).items, i) - Count(q[s].items, i)
      BY <1>0, <1>2, <1>4, <3>1, PushRefsFacts
    <3>4. \A i \in Ids : Count(Pushed(s, c).items, i) \in Int
      BY <1>0, <1>2, PushedFacts, CountType
    <3> QED
      BY <2>0, <3>1, <3>2, <3>3, <3>4
  <2> QED
    BY <2>1, <2>2, <2>3
<1>6. \A i \in Ids : refs'[i] = refs[i] + HeldBy(s, i)' - HeldBy(s, i)
                                + Count(q'["sync"].items, i) - Count(q["sync"].items, i)
  <2> SUFFICES ASSUME NEW i \in Ids
               PROVE  refs'[i] = refs[i] + HeldBy(s, i)' - HeldBy(s, i)
                                 + Count(q'["sync"].items, i) - Count(q["sync"].items, i)
    OBVIOUS
  <2>1. HeldBy(s, i) = Holds(c, i) + Holds(slot[s], i) + Count(q[s].items, i)
    BY <1>1 DEF HeldBy
  <2>2. HeldBy(s, i)' = Holds(c, i) + Holds(slot'[s], i) + Count(q'[s].items, i)
    BY <1>1, <1>3 DEF HeldBy
  <2>3. /\ Holds(slot'[s], i) \in Int /\ Holds(c, i) \in Int /\ Holds(slot[s], i) \in Int
        /\ Count(q[s].items, i) \in Int /\ Count(q["sync"].items, i) \in Int
    BY <1>0, HoldsType, HeldTypes
  <2>4. Count(q'["sync"].items, i) \in Int /\ Count(q'[s].items, i) \in Int
    <3>1. q' \in [Queues -> [on : BOOLEAN, items : Seq(Captures)]]
      BY DEF SyncInv, SyncTypes
    <3>2. q'["sync"].items \in Seq(Captures) /\ q'[s].items \in Seq(Captures)
      BY <1>0, <3>1
    <3> QED
      BY <3>2, CountType
  <2>5. refs[i] \in Int /\ refs'[i] = refs[i] + Holds(slot'[s], i) - Holds(slot[s], i)
                                   + Count(q'[s].items, i) - Count(q[s].items, i)
                                   + Count(q'["sync"].items, i) - Count(q["sync"].items, i)
    BY <1>4, <1>5
  <2> QED
    BY <2>1, <2>2, <2>3, <2>4, <2>5
<1>7. Balanced(s)
  BY <1>3, <1>5, <1>6 DEF Balanced
<1> QED
  BY <1>7, BalancedStep


(* A capture without a partner leaves its slot.                            *)
LEMMA MatchDropsRefs ==
  ASSUME SyncInv, SyncInv', RefInv, NEW s \in Sensors, MatchDrops(s)
  PROVE  RefInv'
<1>0. SyncTypes /\ Contents /\ "sync" \in Queues
  BY DEF SyncInv, Queues
<1>1. PICK which : which = Judgement(slot["color"].ts, slot["depth"].ts)
  OBVIOUS
<1>2. PICK c, p : c = slot[which] /\ p = SyncAfterDrop(c)
  OBVIOUS
<1>3. /\ BothPending /\ which # "merge"
      /\ q' = [q EXCEPT !["sync"] = p] /\ refs' = RefsAfterDrop(refs, c)
      /\ slot' = [slot EXCEPT ![which] = None]
      /\ call' = [call EXCEPT ![s].at = "refill", ![s].todo = <<which>>]
  BY <1>1, <1>2 DEF MatchDrops
<1>4. which \in Sensors /\ which \in Queues /\ which # "sync"
  BY <1>1, <1>3, JudgementType DEF Queues, Sensors
<1>5. c \in Captures /\ c # None
  BY <1>2, <1>3, <1>4, Pending
<1>6. \A u \in Sensors : call'[u].capture = call[u].capture
  <2>1. call \in [Sensors -> CallRecord]
    BY <1>0, CallTypes
  <2> QED
    BY <1>3, <2>1 DEF CallRecord
<1>7. refs \in [Ids -> Int] /\ q \in [Queues -> [on : BOOLEAN, items : Seq(Captures)]]
      /\ slot \in [Sensors -> Captures \cup {None}]
  BY <1>0 DEF RefInv, SyncTypes
<1>8. /\ q'["sync"] = p /\ slot'[which] = None
      /\ \A u \in Sensors : q'[u] = q[u] /\ (u # which => slot'[u] = slot[u])
  BY <1>0, <1>3, <1>4, <1>7 DEF Queues, Sensors
<1>9. /\ refs' \in [Ids -> Int] /\ p.items \in Seq(Captures)
      /\ \A i \in Ids : refs'[i] = refs[i] + Count(p.items, i) - Count(q["sync"].items, i) - Holds(c, i)
  BY <1>0, <1>2, <1>3, <1>5, <1>7, DropRefsFacts
<1>10. \A i \in Ids : refs'[i] = refs[i] + HeldBy(which, i)' - HeldBy(which, i)
                                 + Count(q'["sync"].items, i) - Count(q["sync"].items, i)
  <2> SUFFICES ASSUME NEW i \in Ids
               PROVE  refs'[i] = refs[i] + HeldBy(which, i)' - HeldBy(which, i)
                                 + Count(q'["sync"].items, i) - Count(q["sync"].items, i)
    OBVIOUS
  <2>1. HeldBy(which, i) = Holds(call[which].capture, i) + Holds(c, i) + Count(q[which].items, i)
    BY <1>2 DEF HeldBy
  <2>2. HeldBy(which, i)' = Holds(call[which].capture, i) + Holds(None, i) + Count(q[which].items, i)
    BY <1>4, <1>6, <1>8 DEF HeldBy
  <2>3. /\ Holds(None, i) = 0 /\ Holds(c, i) \in Int /\ Holds(call[which].capture, i) \in Int
        /\ Count(q[which].items, i) \in Int /\ Count(q["sync"].items, i) \in Int
    BY <1>0, <1>4, HoldsType, HeldTypes
  <2>4. Count(p.items, i) \in Int /\ Count(q'["sync"].items, i) = Count(p.items, i) /\ refs[i] \in Int
    BY <1>7, <1>8, <1>9, CountType
  <2> QED
    BY <1>9, <2>1, <2>2, <2>3, <2>4
<1>11. Balanced(which)
  BY <1>6, <1>8, <1>9, <1>10 DEF Balanced
<1> QED
  BY <1>4, <1>11, BalancedStep

(* A merge: the pair counts for the depth capture, and both slots give     *)
(* their references back.                                                  *)
LEMMA MatchMergesRefs ==
  ASSUME SyncInv, SyncInv', RefInv, NEW s \in Sensors, MatchMerges(s)
  PROVE  RefInv'
<1>0. SyncTypes /\ Contents /\ "sync" \in Queues /\ "color" \in Sensors /\ "depth" \in Sensors
  BY DEF SyncInv, Queues, Sensors
<1>1. PICK color, depth, pair : /\ color = slot["color"] /\ depth = slot["depth"]
                                /\ pair = merge_captures(depth, color)
  OBVIOUS
<1>2. /\ BothPending /\ q' = [q EXCEPT !["sync"] = Pushed("sync", pair)]
      /\ refs' = Dec(Dec(PushRefs(refs, "sync", pair), color), depth)
      /\ slot' = [x \in Sensors |-> None]
      /\ call' = [call EXCEPT ![s].at = "refill", ![s].todo = <<"color", "depth">>]
  BY <1>1 DEF MatchMerges
<1>3. pair \in Captures /\ color \in Captures /\ depth \in Captures
  BY <1>0, <1>1, <1>2, MergeFacts, Pending
<1>4. \A u \in Sensors : call'[u].capture = call[u].capture
  <2>1. call \in [Sensors -> CallRecord]
    BY <1>0, CallTypes
  <2> QED
    BY <1>2, <2>1 DEF CallRecord
<1>5. refs \in [Ids -> Int] /\ q \in [Queues -> [on : BOOLEAN, items : Seq(Captures)]]
  BY <1>0 DEF RefInv, SyncTypes
<1>6. /\ q'["sync"] = Pushed("sync", pair)
      /\ \A u \in Sensors : q'[u] = q[u] /\ slot'[u] = None
  BY <1>0, <1>2, <1>5 DEF Queues, Sensors
<1>7. PICK r, r1 : r = PushRefs(refs, "sync", pair) /\ r1 = Dec(r, color)
  OBVIOUS
<1>8. /\ r \in [Ids -> Int]
      /\ \A i \in Ids : r[i] = refs[i] + Count(Pushed("sync", pair).items, i) - Count(q["sync"].items, i)
  BY <1>0, <1>3, <1>5, <1>7, PushRefsFacts
<1>9. r1 \in [Ids -> Int] /\ \A i \in Ids : r1[i] = r[i] - Holds(color, i)
  BY <1>3, <1>7, <1>8, IncDec
<1>10. refs' \in [Ids -> Int] /\ \A i \in Ids : refs'[i] = r1[i] - Holds(depth, i)
  <2>1. refs' = Dec(r1, depth)
    BY <1>2, <1>7
  <2> QED
    BY <1>3, <1>9, <2>1, IncDec
<1>11. ASSUME NEW i \in Ids
       PROVE  refs'[i] = Holders(i)'
  <2>1. /\ refs[i] = HeldBy("color", i) + HeldBy("depth", i) + Count(q["sync"].items, i)
        /\ HeldBy("color", i) = Holds(call["color"].capture, i) + Holds(color, i) + Count(q["color"].items, i)
        /\ HeldBy("depth", i) = Holds(call["depth"].capture, i) + Holds(depth, i) + Count(q["depth"].items, i)
    BY <1>1 DEF RefInv, Holders, HeldBy
  <2>2. /\ Holders(i)' = HeldBy("color", i)' + HeldBy("depth", i)' + Count(Pushed("sync", pair).items, i)
        /\ HeldBy("color", i)' = Holds(call["color"].capture, i) + Holds(None, i) + Count(q["color"].items, i)
        /\ HeldBy("depth", i)' = Holds(call["depth"].capture, i) + Holds(None, i) + Count(q["depth"].items, i)
    BY <1>0, <1>4, <1>6 DEF Holders, HeldBy
  <2>3. /\ Holds(None, i) = 0 /\ Holds(color, i) \in Int /\ Holds(depth, i) \in Int
        /\ Holds(call["color"].capture, i) \in Int /\ Holds(call["depth"].capture, i) \in Int
        /\ Count(q["color"].items, i) \in Int /\ Count(q["depth"].items, i) \in Int
        /\ Count(q["sync"].items, i) \in Int
    BY <1>0, HoldsType, HeldTypes
  <2>4. Count(Pushed("sync", pair).items, i) \in Int
    BY <1>0, <1>3, PushedFacts, CountType
  <2>5. refs'[i] = refs[i] + Count(Pushed("sync", pair).items, i) - Count(q["sync"].items, i)
                   - Holds(color, i) - Holds(depth, i)
    <3>1. /\ r[i] = refs[i] + Count(Pushed("sync", pair).items, i) - Count(q["sync"].items, i)
          /\ r1[i] = r[i] - Holds(color, i) /\ refs'[i] = r1[i] - Holds(depth, i) /\ refs[i] \in Int
      BY <1>5, <1>8, <1>9, <1>10
    <3> QED
      BY <2>3, <2>4, <3>1
  <2> QED
    BY <2>1, <2>2, <2>3, <2>4, <2>5
<1> QED
  BY <1>10, <1>11 DEF RefInv

(* The next capture goes from the queue to the slot with its reference.    *)
LEMMA RefillRefs ==
  ASSUME SyncInv, SyncInv', RefInv, NEW s \in Sensors, Refill(s)
  PROVE  RefInv'
<1>0. SyncTypes /\ Protocol /\ Contents /\ Stranded
  BY DEF SyncInv
<1>1. PICK which, rest : which = Head(call[s].todo) /\ rest = Tail(call[s].todo)
  OBVIOUS
<1>2. Refills(s, which, rest) /\ refs' = refs
  BY <1>1, RefillFacts DEF Refill
<1>3. which \in Sensors /\ which \in Queues /\ which # "sync" /\ slot[which] = None
  <2>1. call[s].at = "refill" /\ call[s].todo \in ToRefill
    BY <1>2 DEF Refills
  <2>2. PICK names : names = call[s].todo
    OBVIOUS
  <2>3. which \in Sensors /\ \E k \in DOMAIN names : names[k] = which
    BY <1>1, <2>1, <2>2, RefillNames
  <2>4. Refilling(which)
    BY <2>1, <2>2, <2>3 DEF Refilling
  <2> QED
    BY <1>0, <2>3, <2>4 DEF Stranded, Queues, Sensors
<1>4. \A u \in Sensors : call'[u].capture = call[u].capture
  BY <1>2 DEF Refills
<1>5. refs \in [Ids -> Int] /\ q \in [Queues -> [on : BOOLEAN, items : Seq(Captures)]]
      /\ slot \in [Sensors -> Captures \cup {None}]
  BY <1>0 DEF RefInv, SyncTypes
<1>6. CASE /\ q[which].items # <<>>
           /\ slot' = [slot EXCEPT ![which] = Head(q[which].items)]
           /\ q' = [q EXCEPT ![which].items = Tail(@)]
  <2>1. PICK h, t : h = Head(q[which].items) /\ t = Tail(q[which].items)
    OBVIOUS
  <2>2. q' = [q EXCEPT ![which].items = t] /\ slot' = [slot EXCEPT ![which] = h]
    BY <1>6, <2>1
  <2>3. /\ slot'[which] = h /\ q'[which].items = t /\ q'["sync"] = q["sync"]
        /\ \A u \in Sensors : u # which => slot'[u] = slot[u] /\ q'[u] = q[u]
    BY <1>3, <1>5, <2>2 DEF Queues
  <2>4. q[which].items \in Seq(Captures)
    BY <1>0, <1>3, QueueTypes
  <2>5. \A i \in Ids : refs'[i] = refs[i] + HeldBy(which, i)' - HeldBy(which, i)
                                  + Count(q'["sync"].items, i) - Count(q["sync"].items, i)
    <3> SUFFICES ASSUME NEW i \in Ids
                 PROVE  refs'[i] = refs[i] + HeldBy(which, i)' - HeldBy(which, i)
                                   + Count(q'["sync"].items, i) - Count(q["sync"].items, i)
      OBVIOUS
    <3>1. HeldBy(which, i) = Holds(call[which].capture, i) + Holds(None, i) + Count(q[which].items, i)
      BY <1>3 DEF HeldBy
    <3>2. HeldBy(which, i)' = Holds(call[which].capture, i) + Holds(h, i) + Count(t, i)
      BY <1>3, <1>4, <2>3 DEF HeldBy
    <3>3. /\ Holds(None, i) = 0 /\ Holds(h, i) \in Int /\ Holds(call[which].capture, i) \in Int
          /\ Count(q[which].items, i) \in Int /\ Count(q["sync"].items, i) \in Int
      BY <1>0, <1>3, HoldsType, HeldTypes
    <3>4. Count(t, i) = Count(q[which].items, i) - Holds(h, i)
      BY <1>6, <2>1, <2>4, CountTail
    <3>5. Count(q'["sync"].items, i) = Count(q["sync"].items, i) /\ refs[i] \in Int /\ refs'[i] = refs[i]
      BY <1>2, <1>5, <2>3
    <3> QED
      BY <3>1, <3>2, <3>3, <3>4, <3>5
  <2>6. Balanced(which)
    BY <1>2, <1>4, <1>5, <2>3, <2>5 DEF Balanced
  <2> QED
    BY <1>3, <2>6, BalancedStep
<1>7. CASE slot' = [slot EXCEPT ![which] = None] /\ q' = q
  <2>1. slot' = slot
    BY <1>3, <1>5, <1>7
  <2> QED
    BY <1>2, <1>4, <1>7, <2>1, QuietRefs
<1> QED
  BY <1>2, <1>6, <1>7 DEF Refills

LEMMA GetCaptureRefs ==
  ASSUME SyncInv, SyncInv', RefInv, GetCapture
  PROVE  RefInv'
<1>0. SyncTypes /\ "sync" \in Queues /\ "color" \in Sensors
  BY DEF SyncInv, Queues, Sensors
<1>1. PICK c, items : items = q["sync"].items /\ c = Head(items)
  OBVIOUS
<1>2. UNCHANGED <<slot, call>> /\ refs' = Dec(refs, c) /\ items # <<>>
  BY <1>1 DEF GetCapture
<1>3. q'["color"] = q["color"] /\ q'["depth"] = q["depth"] /\ q'["sync"].items = Tail(items)
  BY <1>1, QueueAfterGet
<1>4. items \in Seq(Captures) /\ c \in Captures
  BY <1>0, <1>1, <1>2, QueueTypes, TailFacts
<1>5. /\ refs' \in [Ids -> Int] /\ refs \in [Ids -> Int]
      /\ \A i \in Ids : refs'[i] = refs[i] - Holds(c, i)
  BY <1>2, <1>4, IncDec DEF RefInv
<1>6. \A i \in Ids : refs'[i] = refs[i] + HeldBy("color", i)' - HeldBy("color", i)
                                + Count(q'["sync"].items, i) - Count(q["sync"].items, i)
  <2> SUFFICES ASSUME NEW i \in Ids
               PROVE  refs'[i] = refs[i] + HeldBy("color", i)' - HeldBy("color", i)
                                 + Count(q'["sync"].items, i) - Count(q["sync"].items, i)
    OBVIOUS
  <2>1. HeldBy("color", i)' = HeldBy("color", i) /\ HeldBy("color", i) \in Int
    <3>1. HeldBy("color", i) \in Int
      BY <1>0, HeldTypes
    <3> QED
      BY <1>2, <1>3, <3>1 DEF HeldBy
  <2>2. Count(q'["sync"].items, i) = Count(q["sync"].items, i) - Holds(c, i)
    BY <1>1, <1>2, <1>3, <1>4, CountTail
  <2>3. Holds(c, i) \in Int /\ Count(q["sync"].items, i) \in Int /\ refs[i] \in Int
    BY <1>0, <1>5, HoldsType, HeldTypes
  <2> QED
    BY <1>5, <2>1, <2>2, <2>3
<1>7. Balanced("color")
  BY <1>2, <1>3, <1>5, <1>6 DEF Balanced, Sensors
<1> QED
  BY <1>0, <1>7, BalancedStep

(* The end of capturesync_stop: the captures in the slots differ, so each  *)
(* loses one reference.                                                    *)
LEMMA StopReturnsRefs ==
  ASSUME SyncInv, SyncInv', RefInv, StopReturns
  PROVE  RefInv'
<1>0. SyncTypes /\ Contents /\ "color" \in Sensors /\ "depth" \in Sensors
  BY DEF SyncInv, Sensors
<1>1. PICK held : held = {Id(slot[s]) : s \in {x \in Sensors : slot[x] # None}}
  OBVIOUS
<1>2. /\ slot' = [s \in Sensors |-> None] /\ UNCHANGED <<q, call>>
      /\ refs' = [i \in Ids |-> IF i \in held THEN refs[i] - 1 ELSE refs[i]]
  BY <1>1 DEF StopReturns, StopEnds
<1>3. refs \in [Ids -> Int]
  BY DEF RefInv
<1>4. refs' \in [Ids -> Int]
  BY <1>2, <1>3
<1>5. ASSUME NEW i \in Ids
      PROVE  refs'[i] = Holders(i)'
  <2>1. /\ refs[i] = HeldBy("color", i) + HeldBy("depth", i) + Count(q["sync"].items, i)
        /\ HeldBy("color", i) = Holds(call["color"].capture, i) + Holds(slot["color"], i) + Count(q["color"].items, i)
        /\ HeldBy("depth", i) = Holds(call["depth"].capture, i) + Holds(slot["depth"], i) + Count(q["depth"].items, i)
    BY DEF RefInv, Holders, HeldBy
  <2>2. /\ Holders(i)' = HeldBy("color", i)' + HeldBy("depth", i)' + Count(q["sync"].items, i)
        /\ HeldBy("color", i)' = Holds(call["color"].capture, i) + Holds(None, i) + Count(q["color"].items, i)
        /\ HeldBy("depth", i)' = Holds(call["depth"].capture, i) + Holds(None, i) + Count(q["depth"].items, i)
    BY <1>0, <1>2 DEF Holders, HeldBy
  <2>3. /\ Holds(None, i) = 0
        /\ Holds(call["color"].capture, i) \in Int /\ Holds(call["depth"].capture, i) \in Int
        /\ Count(q["color"].items, i) \in Int /\ Count(q["depth"].items, i) \in Int
        /\ Count(q["sync"].items, i) \in Int
    BY <1>0, HoldsType, HeldTypes
  <2>4. (IF i \in held THEN 1 ELSE 0) = Holds(slot["color"], i) + Holds(slot["depth"], i)
    <3>1. i \in held <=> \/ slot["color"] # None /\ Id(slot["color"]) = i
                         \/ slot["depth"] # None /\ Id(slot["depth"]) = i
      BY <1>1 DEF Sensors
    <3>2. ~(/\ slot["color"] # None /\ Id(slot["color"]) = i
            /\ slot["depth"] # None /\ Id(slot["depth"]) = i)
      <4>1. /\ slot["color"] # None => slot["color"].sensor = "color"
            /\ slot["depth"] # None => slot["depth"].sensor = "depth"
        BY <1>0 DEF Contents
      <4>2. \A a, b : Id(a) = i /\ Id(b) = i => a.sensor = b.sensor
        BY DEF Id
      <4>3. "color" # "depth"
        OBVIOUS
      <4> QED
        BY <4>1, <4>2, <4>3
    <3> QED
      BY <3>1, <3>2 DEF Holds
  <2>5. refs'[i] = refs[i] - (IF i \in held THEN 1 ELSE 0) /\ refs[i] \in Int
    BY <1>2, <1>3
  <2>6. Holds(slot["color"], i) \in Int /\ Holds(slot["depth"], i) \in Int
    BY HoldsType
  <2> QED
    BY <2>1, <2>2, <2>3, <2>4, <2>5, <2>6
<1> QED
  BY <1>4, <1>5 DEF RefInv


LEMMA RefInit == Init => RefInv
<1> SUFFICES ASSUME Init PROVE RefInv
  OBVIOUS
<1>1. /\ refs = [i \in Ids |-> 0]
      /\ \A n \in Queues : q[n].items = <<>>
      /\ \A s \in Sensors : slot[s] = None /\ call[s].capture = None
  BY IdleFacts DEF Init, Disabled
<1>2. \A i : Holds(None, i) = 0 /\ Count(<<>>, i) = 0
  BY HoldsType, CountEmpty
<1>3. \A i, s : s \in Sensors => HeldBy(s, i) = 0
  BY <1>1, <1>2 DEF HeldBy, Queues
<1>4. \A i : Holders(i) = 0
  BY <1>1, <1>2, <1>3 DEF Holders, Queues, Sensors
<1> QED
  BY <1>1, <1>4 DEF RefInv

LEMMA OtherRefs ==
  ASSUME SyncInv, RefInv,
         \/ \E s \in Sensors : AddFailed(s)
         \/ StartRefused \/ CaptureSyncStart \/ CaptureSyncStop \/ StartQueue \/ UNCHANGED vars
  PROVE  RefInv'
<1>1. ASSUME NEW s \in Sensors, AddFailed(s)
      PROVE  RefInv'
  <2>1. call' = [call EXCEPT ![s] = Failing] /\ UNCHANGED <<q, slot, refs>> /\ call[s].at = "idle"
    BY <1>1 DEF AddFailed, Failing
  <2>2. call[s].capture = None
    BY <2>1 DEF SyncInv, Protocol
  <2>3. \A u \in Sensors : call'[u].capture = call[u].capture
    BY <2>1, <2>2, FailingFacts DEF SyncInv, SyncTypes
  <2> QED
    BY <2>1, <2>3, QuietRefs
<1>2. CASE StartRefused \/ CaptureSyncStart \/ CaptureSyncStop \/ UNCHANGED vars
  <2>1. UNCHANGED <<q, slot, refs, call>>
    BY <1>2 DEF StartRefused, CaptureSyncStart, CaptureSyncStop, vars
  <2> QED
    BY <2>1, QuietRefs
<1>3. CASE StartQueue
  <2>1. PICK n : q' = [q EXCEPT ![n].on = TRUE] /\ UNCHANGED <<slot, refs, call>>
    BY <1>3 DEF StartQueue
  <2>2. q \in [Queues -> [on : BOOLEAN, items : Seq(Captures)]]
    BY DEF SyncInv, SyncTypes
  <2>3. \A m \in Queues : q'[m].items = q[m].items
    BY <2>1, <2>2
  <2> QED
    BY <2>1, <2>3, QuietRefs
<1> QED
  BY <1>1, <1>2, <1>3

LEMMA RefInvariant == Spec => []RefInv
<1>1. SyncInv /\ OrderInv /\ RefInv /\ SyncInv' /\ [Next]_vars => RefInv'
  <2> SUFFICES ASSUME SyncInv, OrderInv, RefInv, SyncInv', [Next]_vars PROVE RefInv'
    OBVIOUS
  <2>1. ASSUME NEW s \in Sensors, AddCapture(s) \/ AddFailed(s) \/ AddSteps(s) PROVE RefInv'
    BY <2>1, AddCaptureRefs, AddPassedRefs, AddStoredRefs, MatchEndsRefs, MatchDropsRefs, MatchMergesRefs,
       RefillRefs, StopQueueRefs, OtherRefs DEF AddSteps
  <2> QED
    BY <2>1, GetCaptureRefs, DisableQueueRefs, StopReturnsRefs, OtherRefs DEF Next, ControlSteps
<1> QED
  BY <1>1, RefInit, SyncInvariant, OrderInvariant, PTL DEF Spec

(* The places of a capture, over all queues.                               *)
LEMMA PlacesOfQueue ==
  ASSUME NEW items \in Seq(Captures), NEW n, NEW i
  PROVE  /\ IsFiniteSet({n} \X Places(items, i))
         /\ Cardinality({n} \X Places(items, i)) = Count(items, i)
<1>1. IsFiniteSet({n}) /\ Cardinality({n}) = 1
  BY FS_Singleton
<1>2. IsFiniteSet(Places(items, i)) /\ Count(items, i) \in Int
  BY PlacesFinite, CountType
<1>3. /\ IsFiniteSet({n} \X Places(items, i))
      /\ Cardinality({n} \X Places(items, i)) = 1 * Cardinality(Places(items, i))
  BY <1>1, <1>2, FS_Product
<1> QED
  BY <1>2, <1>3 DEF Count

LEMMA PlacesInAll ==
  ASSUME SyncInv, NEW i \in Ids
  PROVE  Cardinality({nk \in Queues \X (1 .. OwnDepth + SyncDepth) :
                        /\ nk[2] \in DOMAIN q[nk[1]].items
                        /\ Id(q[nk[1]].items[nk[2]]) = i})
         = Count(q["color"].items, i) + Count(q["depth"].items, i) + Count(q["sync"].items, i)
<1>0. SyncTypes /\ Contents /\ "sync" \in Queues /\ "color" \in Queues /\ "depth" \in Queues
  BY DEF SyncInv, Queues, Sensors
<1>1. \A n \in Queues : /\ q[n].items \in Seq(Captures) /\ Len(q[n].items) \in Nat
                        /\ DOMAIN q[n].items = 1 .. Len(q[n].items)
  BY <1>0, QueueTypes
<1>2. \A n \in Queues : DOMAIN q[n].items \subseteq 1 .. OwnDepth + SyncDepth
  <2> SUFFICES ASSUME NEW n \in Queues PROVE DOMAIN q[n].items \subseteq 1 .. OwnDepth + SyncDepth
    OBVIOUS
  <2>1. Len(q[n].items) <= Capacity(n) /\ OwnDepth \in Nat /\ SyncDepth \in Nat
    BY <1>0, SyncAssumption DEF Contents
  <2>2. Len(q[n].items) <= OwnDepth + SyncDepth
    BY <1>1, <2>1 DEF Capacity
  <2> QED
    BY <1>1, <2>1, <2>2
<1>3. PICK all, a, b, c : /\ all = {nk \in Queues \X (1 .. OwnDepth + SyncDepth) :
                                       /\ nk[2] \in DOMAIN q[nk[1]].items
                                       /\ Id(q[nk[1]].items[nk[2]]) = i}
                          /\ a = {"color"} \X Places(q["color"].items, i)
                          /\ b = {"depth"} \X Places(q["depth"].items, i)
                          /\ c = {"sync"} \X Places(q["sync"].items, i)
  OBVIOUS
<1>4. \A nk : nk \in all <=> \E n \in Queues : nk \in {n} \X Places(q[n].items, i)
  <2>1. ASSUME NEW nk \in all
        PROVE  \E n \in Queues : nk \in {n} \X Places(q[n].items, i)
    <3>1. nk = <<nk[1], nk[2]>> /\ nk[1] \in Queues /\ nk[2] \in Places(q[nk[1]].items, i)
      BY <1>3 DEF Places
    <3> QED
      BY <3>1
  <2>2. ASSUME NEW nk, NEW n \in Queues, nk \in {n} \X Places(q[n].items, i)
        PROVE  nk \in all
    <3>1. nk[1] = n /\ nk = <<n, nk[2]>> /\ nk[2] \in DOMAIN q[n].items /\ Id(q[n].items[nk[2]]) = i
      BY <2>2 DEF Places
    <3>2. nk \in Queues \X (1 .. OwnDepth + SyncDepth)
      BY <1>2, <3>1
    <3> QED
      BY <1>3, <3>1, <3>2
  <2> QED
    BY <2>1, <2>2
<1>5. all = (a \cup b) \cup c
  BY <1>3, <1>4 DEF Queues, Sensors
<1>6. (a \cap b) = {} /\ ((a \cup b) \cap c) = {}
  <2>1. \A nk : /\ nk \in a => nk[1] = "color"
                /\ nk \in b => nk[1] = "depth"
                /\ nk \in c => nk[1] = "sync"
    BY <1>3
  <2> QED
    BY <2>1
<1>7. /\ IsFiniteSet(a) /\ Cardinality(a) = Count(q["color"].items, i)
      /\ IsFiniteSet(b) /\ Cardinality(b) = Count(q["depth"].items, i)
      /\ IsFiniteSet(c) /\ Cardinality(c) = Count(q["sync"].items, i)
  BY <1>0, <1>1, <1>3, PlacesOfQueue
<1>8. Cardinality({}) = 0
  BY FS_EmptySet
<1>9. IsFiniteSet(a \cup b) /\ Cardinality(a \cup b) = Cardinality(a) + Cardinality(b) - 0
  BY <1>6, <1>7, <1>8, FS_Union
<1>10. Cardinality((a \cup b) \cup c) = Cardinality(a \cup b) + Cardinality(c) - 0
  BY <1>6, <1>7, <1>8, <1>9, FS_Union
<1>11. /\ Count(q["color"].items, i) \in Int /\ Count(q["depth"].items, i) \in Int
       /\ Count(q["sync"].items, i) \in Int
  BY <1>0, <1>1, CountType
<1>12. Cardinality(all) = Count(q["color"].items, i) + Count(q["depth"].items, i) + Count(q["sync"].items, i)
  BY <1>5, <1>7, <1>9, <1>10, <1>11
<1> QED
  BY <1>3, <1>12, Zenon

(* One of two sensors.                                                     *)
LEMMA SensorsHolding ==
  ASSUME NEW f, NEW i
  PROVE  Cardinality({s \in Sensors : f[s] # None /\ Id(f[s]) = i}) = Holds(f["color"], i) + Holds(f["depth"], i)
<1>1. PICK T : T = {s \in Sensors : f[s] # None /\ Id(f[s]) = i}
  OBVIOUS
<1>2. T \subseteq {"color", "depth"}
      /\ ("color" \in T <=> Holds(f["color"], i) = 1) /\ ("depth" \in T <=> Holds(f["depth"], i) = 1)
      /\ Holds(f["color"], i) \in {0, 1} /\ Holds(f["depth"], i) \in {0, 1}
  BY <1>1 DEF Sensors, Holds
<1>3. CASE "color" \notin T /\ "depth" \notin T
  <2>1. T = {} /\ Holds(f["color"], i) = 0 /\ Holds(f["depth"], i) = 0
    BY <1>2, <1>3
  <2> QED
    BY <1>1, <2>1, FS_EmptySet
<1>4. CASE "color" \in T /\ "depth" \notin T
  <2>1. T = {"color"} /\ Holds(f["color"], i) = 1 /\ Holds(f["depth"], i) = 0
    BY <1>2, <1>4
  <2>2. Cardinality(T) = 1
    BY <2>1, FS_Singleton
  <2> QED
    BY <1>1, <2>1, <2>2
<1>5. CASE "color" \notin T /\ "depth" \in T
  <2>1. T = {"depth"} /\ Holds(f["color"], i) = 0 /\ Holds(f["depth"], i) = 1
    BY <1>2, <1>5
  <2>2. Cardinality(T) = 1
    BY <2>1, FS_Singleton
  <2> QED
    BY <1>1, <2>1, <2>2
<1>6. CASE "color" \in T /\ "depth" \in T
  <2>1. T = {"color"} \cup {"depth"} /\ Holds(f["color"], i) = 1 /\ Holds(f["depth"], i) = 1
    BY <1>2, <1>6
  <2>2. IsFiniteSet({"color"}) /\ Cardinality({"color"}) = 1 /\ "depth" \notin {"color"}
    BY FS_Singleton
  <2>3. Cardinality(T) = 1 + 1
    BY <2>1, <2>2, FS_AddElement
  <2> QED
    BY <1>1, <2>1, <2>3
<1> QED
  BY <1>3, <1>4, <1>5, <1>6

(* The synchronizer neither loses nor invents a reference: the count of    *)
(* every capture is the number of threads that are adding it, slots and    *)
(* places in the three queues that hold it, through drops, merges, refills *)
(* and queues that a sensor's error stops in between.                      *)
THEOREM RefsAreHolders == Spec => []RefsMatchHolders
<1>1. ASSUME SyncInv, RefInv
      PROVE  RefsMatchHolders
  <2> SUFFICES ASSUME NEW i \in Ids
               PROVE  refs[i] =
                 Cardinality({s \in Sensors : call[s].capture # None /\ Id(call[s].capture) = i})
                 + Cardinality({s \in Sensors : slot[s] # None /\ Id(slot[s]) = i})
                 + Cardinality({nk \in Queues \X (1 .. OwnDepth + SyncDepth) :
                                  /\ nk[2] \in DOMAIN q[nk[1]].items
                                  /\ Id(q[nk[1]].items[nk[2]]) = i})
    BY DEF RefsMatchHolders
  <2>1. PICK f : f = [s \in Sensors |-> call[s].capture]
    OBVIOUS
  <2>2. {s \in Sensors : call[s].capture # None /\ Id(call[s].capture) = i}
        = {s \in Sensors : f[s] # None /\ Id(f[s]) = i}
    BY <2>1
  <2>3. Cardinality({s \in Sensors : call[s].capture # None /\ Id(call[s].capture) = i})
        = Holds(call["color"].capture, i) + Holds(call["depth"].capture, i)
    <3>1. f["color"] = call["color"].capture /\ f["depth"] = call["depth"].capture
      BY <2>1 DEF Sensors
    <3> QED
      BY <2>2, <3>1, SensorsHolding
  <2>4. Cardinality({s \in Sensors : slot[s] # None /\ Id(slot[s]) = i})
        = Holds(slot["color"], i) + Holds(slot["depth"], i)
    BY SensorsHolding
  <2>5. refs[i] = HeldBy("color", i) + HeldBy("depth", i) + Count(q["sync"].items, i)
    BY <1>1 DEF RefInv, Holders
  <2>6. /\ HeldBy("color", i) = Holds(call["color"].capture, i) + Holds(slot["color"], i) + Count(q["color"].items, i)
        /\ HeldBy("depth", i) = Holds(call["depth"].capture, i) + Holds(slot["depth"], i) + Count(q["depth"].items, i)
    BY DEF HeldBy
  <2>7. /\ Holds(call["color"].capture, i) \in Int /\ Holds(call["depth"].capture, i) \in Int
        /\ Holds(slot["color"], i) \in Int /\ Holds(slot["depth"], i) \in Int
    BY HoldsType
  <2>8. Count(q["color"].items, i) \in Int /\ Count(q["depth"].items, i) \in Int
        /\ Count(q["sync"].items, i) \in Int
    BY <1>1, HeldTypes DEF SyncInv, Sensors
  <2>9. Cardinality({nk \in Queues \X (1 .. OwnDepth + SyncDepth) :
                       /\ nk[2] \in DOMAIN q[nk[1]].items
                       /\ Id(q[nk[1]].items[nk[2]]) = i})
        = Count(q["color"].items, i) + Count(q["depth"].items, i) + Count(q["sync"].items, i)
    BY <1>1, PlacesInAll
  <2> QED
    BY <2>3, <2>4, <2>5, <2>6, <2>7, <2>8, <2>9
<1> QED
  BY <1>1, RefInvariant, SyncInvariant, PTL

=============================================================================
