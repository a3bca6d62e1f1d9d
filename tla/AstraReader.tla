---------------------------- MODULE AstraReader ----------------------------
(***************************************************************************)
(* The consuming side of the Astra headers and its composition with the    *)
(* stream of AstraStream: StreamReader and its listeners                   *)
(* (include/astra_core/StreamReader.hpp), the Frame objects that keep a    *)
(* reader's frame open (Frame.hpp), the DataStream that starts and stops   *)
(* the reader's connection (DataStream.hpp) and the frame views, of which  *)
(* HandFrame reads its points on first use (include/astra/streams).        *)
(*                                                                         *)
(* The application runs in one thread. Between two calls it is idle        *)
(* (turn = 0) or inside on_frame_ready of the listener at position turn,   *)
(* from where it may call everything again.                                *)
(***************************************************************************)
EXTENDS AstraStream, Sequences, SequencesExt

CONSTANTS
    Own,             \* the connection of the modelled reader
    Listeners,       \* the application's FrameListener objects
    FrameVars,       \* the application's Frame variables
    Refs,            \* FrameRef objects
    NULL,            \* no object
    MaxHandles,      \* bound: StreamReader objects
    MaxAdded,        \* bound: listeners added during one notification
    MaxListed        \* bound: length of the list of listeners

ASSUME OwnAssumption == Own \in Connections

ASSUME RefsAssumption == IsFiniteSet(Refs) /\ NULL \notin Refs

VARIABLES
    reader,          \* the members of ReaderRef
    handles,         \* StreamReader objects that share it
    turn,            \* position of the listener that runs, 0 = none
    ready,           \* the library has a frame to announce
    ref,             \* FrameRef |-> what it refers to
    slot,            \* Frame variable |-> its FrameRef, or NULL
    view,            \* a HandFrame, ImageFrame or BodyFrame of the application, or NULL
    crashed,         \* erase(end()) ended the process
    wanted,          \* listeners added and not removed since
    due,             \* wanted when the notification began
    calm             \* no call disturbed a deferred one

readerVars == <<reader, handles, turn, ready, ref, slot, view, crashed, wanted, due, calm>>

astraVars == <<streamVars, readerVars>>

ReaderRef == [listeners |-> <<>>, added |-> <<>>, removed |-> <<>>,
              isNotifying |-> FALSE, callbackRegistered |-> FALSE]

\* kind: "free", "null" (the open timed out), "open" (closed by ~FrameRef) or
\* "lent" (a notification's, closed by the library); there: the data the
\* pointer leads to still exists.
NoRef == [kind |-> "free", there |-> FALSE]

AstraInit ==
    /\ StreamInit
    /\ reader = ReaderRef /\ handles = 0 /\ turn = 0 /\ ready = FALSE
    /\ ref = [k \in Refs |-> NoRef]
    /\ slot = [f \in FrameVars |-> NULL]
    /\ view = NULL
    /\ crashed = FALSE /\ wanted = {} /\ due = {} /\ calm = TRUE

Idle == turn = 0
Valid == handles > 0 \/ ~Idle       \* StreamReader::is_valid, also of the argument

\* create_reader: connects the stream set first when need be.
create_reader ==
    /\ ~Valid /\ Idle
    /\ handles' = 1
    /\ reader' = ReaderRef
    /\ UNCHANGED <<streamVars, turn, ready, ref, slot, view, crashed, wanted, due, calm>>

StreamReaderCopied ==
    /\ Valid /\ handles < MaxHandles
    /\ handles' = handles + 1
    /\ UNCHANGED <<streamVars, reader, turn, ready, ref, slot, view, crashed, wanted, due, calm>>

-----------------------------------------------------------------------------
(* Listeners *)

Held(list, l) == \E i \in DOMAIN list : list[i] = l

ensure_callback_added(r) == [r EXCEPT !.callbackRegistered = TRUE]

\* Called when the list has become empty.
ensure_callback_removed(r) == [r EXCEPT !.callbackRegistered = @ /\ r.listeners # <<>>]

add_listener(l) ==
    /\ Valid
    /\ reader.isNotifying => Len(reader.added) < MaxAdded
    /\ reader' =
         LET r == ensure_callback_added(reader) IN
         CASE Held(r.listeners, l) -> r
           [] ~Held(r.listeners, l) /\ r.isNotifying -> [r EXCEPT !.added = Append(@, l)]
           [] OTHER -> [r EXCEPT !.listeners = Append(@, l)]
    /\ wanted' = wanted \cup {l}
    /\ calm' = (calm /\ ~reader.isNotifying /\ ~Held(reader.removed, l))
    /\ UNCHANGED <<streamVars, handles, turn, ready, ref, slot, view, crashed, due>>

Without(list, l) == RemoveFirst(list, l)

\* During a notification the list is kept and the removal is put off.
remove_listener(l) ==
    /\ Valid
    /\ reader' =
         IF ~Held(reader.listeners, l) THEN reader
         ELSE IF reader.isNotifying THEN [reader EXCEPT !.removed = Append(@, l)]
         ELSE ensure_callback_removed([reader EXCEPT !.listeners = Without(@, l)])
    /\ Len(reader'.removed) <= Cardinality(Listeners)
    /\ wanted' = wanted \ {l}
    /\ calm' = (calm /\ ~Held(reader.removed, l))
    /\ UNCHANGED <<streamVars, handles, turn, ready, ref, slot, view, crashed, due>>

\* The lists the removals put off can leave: every one erases the listener
\* it finds. erase(end()) of a listener that is not there any more is
\* undefined: the process ends, or the last element is gone.
Erased(list, l) == IF Held(list, l) THEN {Without(list, l)} ELSE {Front(list) : i \in DOMAIN list}

RemovalsForgotten == {reader.listeners}

\* Lists[i] after the first i removals.
Lists ==
    LET after[i \in 0 .. Len(reader.removed)] ==
            IF i = 0 THEN {reader.listeners}
            ELSE UNION {Erased(s, reader.removed[i]) : s \in after[i - 1]}
    IN  after

AfterRemovals == Lists[Len(reader.removed)]

Undefined ==
    \E i \in DOMAIN reader.removed :
        \E list \in Lists[i - 1] : ~Held(list, reader.removed[i])

\* std::move copies the references and leaves addedListeners_ as it is.
Listening(list) == list \o reader.added
AddedAfter == reader.added

\* The library opens the frame, notify_listeners settles what was put off
\* and calls the first listener.
notify_listeners(list, k) ==
    /\ Idle /\ ready /\ handles > 0 /\ reader.callbackRegistered
    /\ list \in AfterRemovals
    /\ ref[k].kind = "free"
    /\ ready' = FALSE
    /\ LET now == Listening(list) IN
       /\ Len(now) <= MaxListed
       /\ reader' = ensure_callback_removed(
                        [reader EXCEPT !.listeners = now, !.removed = <<>>, !.added = AddedAfter,
                                       !.isNotifying = now # <<>>])
       /\ turn' = IF now = <<>> THEN 0 ELSE 1
       /\ due' = IF now = <<>> THEN {} ELSE wanted
       /\ IF now = <<>> THEN UNCHANGED <<front, middle, locks, ref>>
          ELSE Lock /\ ref' = [ref EXCEPT ![k] = [kind |-> "lent", there |-> TRUE]]
    /\ UNCHANGED <<plugin, status, handles, slot, view, crashed, wanted, calm>>

NotifyCrashes ==
    /\ Idle /\ ready /\ handles > 0 /\ reader.callbackRegistered
    /\ Undefined
    /\ crashed' = TRUE
    /\ UNCHANGED <<streamVars, reader, handles, turn, ready, ref, slot, view, wanted, due, calm>>

\* ~ReaderRef: the callback is unregistered, the reader destroyed with its
\* connection; the frames it had open are gone.
FramesGone(refs) ==
    [k \in Refs |-> IF refs[k].kind \in {"open", "lent"} THEN [refs[k] EXCEPT !.there = FALSE]
                    ELSE refs[k]]

ReaderDestroyed(refs) ==
    /\ reader' = ReaderRef
    /\ ready' = FALSE
    /\ wanted' = {} /\ calm' = TRUE
    /\ Removed(Own)
    /\ ref' = FramesGone(refs)
    /\ locks' = 0
    /\ front' = middle
    /\ UNCHANGED middle

\* By the rule Array.hpp states, the application does not use a view after
\* the frame it looks into.
StillThere == view' = IF view # NULL /\ ~ref'[view.ref].there THEN NULL ELSE view

\* autoCloseFrame_ of a FrameRef.
ClosesEveryFrame(kind) == kind # "null"

autoCloseFrame(kind) == kind = "open"

\* The wrapper of the notification goes out of scope, copies of it keep the
\* FrameRef; then the library closes the frame it opened.
Lent(k) == ref[k].kind = "lent" /\ ref[k].there
Kept(k) == \E f \in FrameVars : slot[f] = k

LentEnds ==
    [k \in Refs |-> IF ~Lent(k) THEN ref[k]
                    ELSE IF Kept(k) THEN [ref[k] EXCEPT !.there = FALSE] ELSE NoRef]

ClosedWithWrapper ==
    IF autoCloseFrame("lent") /\ \E k \in Refs : Lent(k) /\ ~Kept(k) THEN 1 ELSE 0

ListenerReturns ==
    /\ ~Idle
    /\ IF turn < Len(reader.listeners)
       THEN /\ turn' = turn + 1
            /\ UNCHANGED <<streamVars, reader, ready, ref, wanted, due, calm>>
       ELSE /\ turn' = 0 /\ due' = {}
            /\ IF handles = 0 THEN ReaderDestroyed(LentEnds)
               ELSE /\ reader' = [reader EXCEPT !.isNotifying = FALSE]
                    /\ ref' = LentEnds
                    /\ Unlock(1 + ClosedWithWrapper)
                    /\ UNCHANGED <<plugin, status, ready, wanted, calm>>
    /\ StillThere
    /\ UNCHANGED <<handles, slot, crashed>>

StreamReaderDropped ==
    /\ handles > 0
    /\ handles' = handles - 1
    /\ IF handles = 1 /\ Idle THEN ReaderDestroyed(ref)
       ELSE UNCHANGED <<streamVars, reader, ready, ref, wanted, calm>>
    /\ StillThere
    /\ UNCHANGED <<turn, slot, crashed, due>>

-----------------------------------------------------------------------------
(* Frames *)

\* ~FrameRef runs when the last Frame that shares it goes; the wrapper of a
\* notification that is under way is one of them. A frame that went with its
\* reader or its bin cannot be closed any more.
LastHolder(f) == (\A g \in FrameVars \ {f} : slot[g] # slot[f]) /\ ~Lent(slot[f])

ClosesFrame(k) == autoCloseFrame(ref[k].kind) /\ ref[k].there

frame_dropped(f) ==
    /\ slot[f] # NULL
    /\ slot' = [slot EXCEPT ![f] = NULL]
    /\ IF LastHolder(f)
       THEN /\ ref' = [ref EXCEPT ![slot[f]] = NoRef]
            /\ IF ClosesFrame(slot[f]) THEN Unlock(1) ELSE UNCHANGED <<front, middle, locks>>
       ELSE UNCHANGED <<ref, front, middle, locks>>
    /\ StillThere
    /\ UNCHANGED <<plugin, status, reader, handles, turn, ready, crashed, wanted, due, calm>>

frame_copied(f, g) ==
    /\ slot[f] # NULL /\ slot[g] = NULL
    /\ slot' = [slot EXCEPT ![g] = slot[f]]
    /\ UNCHANGED <<streamVars, reader, handles, turn, ready, ref, view, crashed, wanted, due, calm>>

\* A listener keeps a copy of the frame it was given.
frame_kept(f) ==
    /\ ~Idle /\ slot[f] = NULL
    /\ \E k \in Refs : /\ ref[k].kind = "lent" /\ ref[k].there
                       /\ slot' = [slot EXCEPT ![f] = k]
    /\ UNCHANGED <<streamVars, reader, handles, turn, ready, ref, view, crashed, wanted, due, calm>>

get_latest_frame(f, k) ==
    /\ Valid /\ slot[f] = NULL /\ ref[k].kind = "free"
    /\ slot' = [slot EXCEPT ![f] = k]
    /\ \/ /\ Alive /\ status[Own] = "started" /\ front > 0
          /\ Lock
          /\ ref' = [ref EXCEPT ![k] = [kind |-> "open", there |-> TRUE]]
       \/ /\ ref' = [ref EXCEPT ![k] = [kind |-> "null", there |-> FALSE]]
          /\ UNCHANGED <<front, middle, locks>>
    /\ UNCHANGED <<plugin, status, reader, handles, turn, ready, view, crashed, wanted, due, calm>>

\* Frame::get<T> and T::acquire: a view on the frame, which takes its index
\* at once. HandFrame copies its points on first use, the others have the
\* pointer to the data at once and read through it every time. An ImageFrame of another pixel format,
\* and every view of a frame that is null, is invalid and throws when used.
Acquired(f, class) ==
    /\ view = NULL /\ slot[f] # NULL
    /\ ref[slot[f]].there
    /\ view' = [ref |-> slot[f], class |-> class, frameIndex |-> front,
                data |-> IF class = "copies" THEN 0 ELSE front]
    /\ UNCHANGED <<streamVars, reader, handles, turn, ready, ref, slot, crashed, wanted, due, calm>>

HandFrame_acquire(f) == Acquired(f, "copies")
ImageFrame_acquire(f) == Acquired(f, "points")
BodyFrame_acquire(f) == Acquired(f, "points")

ReadsFrame ==
    /\ ref[view.ref].there
    /\ view' = [view EXCEPT !.data = front]
    /\ UNCHANGED <<streamVars, reader, handles, turn, ready, ref, slot, crashed, wanted, due, calm>>

verify_handpoints == view # NULL /\ view.class = "copies" /\ view.data = 0 /\ ReadsFrame
ImageFrame_data == view # NULL /\ view.class = "points" /\ ReadsFrame
BodyFrame_bodies == view # NULL /\ view.class = "points" /\ ReadsFrame

view_dropped ==
    /\ view # NULL
    /\ view' = NULL
    /\ UNCHANGED <<streamVars, reader, handles, turn, ready, ref, slot, crashed, wanted, due, calm>>

-----------------------------------------------------------------------------
(* The stream's calls, seen from the reader *)

get_stream == Valid /\ connection_added(Own) /\ UNCHANGED readerVars
start == Valid /\ connection_started(Own) /\ UNCHANGED readerVars
stop == Valid /\ connection_stopped(Own) /\ UNCHANGED readerVars

OtherReader ==
    /\ \E c \in Connections \ {Own} :
           \/ connection_added(c) \/ connection_started(c)
           \/ connection_stopped(c) \/ connection_removed(c)
    /\ UNCHANGED readerVars

\* The plugin's calls come from astra_update, while the application is idle.
\* A finished frame is announced to a started reader; a bin that is gone
\* takes the frames readers have open with it.
PluginSteps ==
    /\ Idle
    /\ StreamNext
    /\ ready' = IF plugin' = Gone THEN FALSE
                ELSE ready \/ (middle' > middle /\ status[Own] = "started")
    /\ ref' = IF plugin'.bin # plugin.bin THEN FramesGone(ref) ELSE ref
    /\ StillThere
    /\ UNCHANGED <<reader, handles, turn, slot, crashed, wanted, due, calm>>

AstraNext ==
    /\ ~crashed
    /\ \/ create_reader \/ StreamReaderCopied \/ StreamReaderDropped
       \/ \E l \in Listeners : add_listener(l) \/ remove_listener(l)
       \/ \E list \in AfterRemovals, k \in Refs : notify_listeners(list, k)
       \/ NotifyCrashes \/ ListenerReturns
       \/ \E f \in FrameVars : frame_dropped(f) \/ frame_kept(f) \/ HandFrame_acquire(f)
                             \/ ImageFrame_acquire(f) \/ BodyFrame_acquire(f)
       \/ \E f, g \in FrameVars : frame_copied(f, g)
       \/ \E f \in FrameVars, k \in Refs : get_latest_frame(f, k)
       \/ verify_handpoints \/ ImageFrame_data \/ BodyFrame_bodies \/ view_dropped
       \/ get_stream \/ start \/ stop \/ OtherReader
       \/ PluginSteps

AstraSpec == AstraInit /\ [][AstraNext]_astraVars

-----------------------------------------------------------------------------
(* Every listener that was added and not removed hears every notification   *)
(* exactly once, and nobody else does: notify_listeners works on one list   *)
(* while on_frame_ready changes what the list should be. It holds as long   *)
(* as no listener is added from inside a notification and none whose        *)
(* removal was put off is added or removed again before the next one; what  *)
(* happens otherwise is RemovedHearsNothing.                                *)
HeardOnce ==
    calm =>
        /\ ~crashed
        /\ ~Idle => IsInjective(reader.listeners) /\ ToSet(reader.listeners) = due
        /\ wanted = ToSet(reader.listeners) \ ToSet(reader.removed)
        /\ wanted # {} => reader.callbackRegistered

(* "Unregisters the callback function" (StreamReader.hpp, remove_listener): *)
(* a listener that was removed before a frame is not called for it. A       *)
(* listener added inside a notification breaks it: it is not yet in the     *)
(* list remove_listener searches, and addedListeners_ is appended again for *)
(* every later frame.                                                       *)
RemovedHearsNothing == ~Idle => ToSet(reader.listeners) \subseteq due

(* A frame is open exactly as often as it was opened for a Frame object     *)
(* that still exists, whatever copies were made, kept by listeners and      *)
(* dropped in whatever order; and as long as one exists the frame in front  *)
(* stays, so that what HandFrame reads late has the index it read first.    *)
FrameStaysWhileHeld ==
    /\ locks = Cardinality({k \in Refs : ref[k].there})
    /\ view # NULL /\ ref[view.ref].there =>
           /\ front = view.frameIndex
           /\ view.data \in {0, view.frameIndex}

=============================================================================
