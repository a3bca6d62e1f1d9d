---------------------------- MODULE AstraStream ----------------------------
(***************************************************************************)
(* The producing side of the Astra headers: a plugin's single_bin_stream   *)
(* (include/astra_core/plugins/SingleBinStream.hpp), the stream it derives *)
(* from (PluginStream.hpp), which the library calls through the thunks of  *)
(* StreamCallbackListener.hpp, and the stream_bin it writes its frames to  *)
(* (StreamBin.hpp).                                                        *)
(*                                                                         *)
(* The library between a plugin and its readers is not in the repository;  *)
(* only what these headers rely on is modelled, and marked external in the *)
(* map: a connection is stopped before it is removed, starting it twice    *)
(* starts it once, a bin keeps the frame in front while a reader has it    *)
(* open and shows the newest one when the last reader closes it.           *)
(*                                                                         *)
(* Everything runs in the thread that calls astra_update: one action is    *)
(* one call, with every callback it makes.                                 *)
(***************************************************************************)
EXTENDS Integers, FiniteSets

CONSTANTS
    Connections,     \* connections of readers to the stream
    Sizes,           \* sizes of the additional buffer
    ExtraDataSize,   \* the size a stream is made with
    MaxFrames        \* bound: frame indices a stream writes

ASSUME SizesAssumption == ExtraDataSize \in Sizes

ASSUME ConnectionsAssumption == IsFiniteSet(Connections)

VARIABLES
    plugin,          \* the single_bin_stream object, or Gone
    status,          \* connection |-> "none", "added" or "started" (library)
    front,           \* index of the frame readers see, 0 before the first
    middle,          \* index of the newest finished frame
    locks            \* times the frame in front is open

streamVars == <<plugin, status, front, middle, locks>>

NoBin == 2

\* connections_, connectionStartedCount_ and the bin of the stream; the bin
\* every connection is linked to; what the derived class was last told.
Gone == [connections |-> {}, startedCount |-> 0, bin |-> NoBin, size |-> 0,
         locked |-> FALSE, back |-> 0, link |-> [c \in Connections |-> NoBin],
         toldConnected |-> FALSE, toldStarted |-> FALSE]

StreamInit ==
    /\ plugin = Gone
    /\ status = [c \in Connections |-> "none"]
    /\ front = 0 /\ middle = 0 /\ locks = 0

Alive == plugin # Gone

\* make_stream: the stream and its bin are created, then registered.
make_stream ==
    /\ ~Alive
    /\ plugin' = [Gone EXCEPT !.bin = 0, !.size = ExtraDataSize]
    /\ UNCHANGED <<status, front, middle, locks>>

has_connections(p) == \E c \in Connections : p.link[c] = p.bin

\* connectionStartedCount_ is unsigned.
has_started_connections(p) == p.startedCount # 0

\* The derived class is told when the answer differs from the one before.
TellConnected(p, q) ==
    IF has_connections(p) # has_connections(q)
    THEN [q EXCEPT !.toldConnected = has_connections(q)] ELSE q

TellStarted(p, q) ==
    IF has_started_connections(p) # has_started_connections(q)
    THEN [q EXCEPT !.toldStarted = has_started_connections(q)] ELSE q

on_connection_added(p, c) ==
    TellConnected(p, IF c \in p.connections THEN p
                     ELSE [p EXCEPT !.link[c] = p.bin, !.connections = @ \cup {c}])

on_connection_removed(p, c) ==
    TellConnected(p, IF c \notin p.connections THEN p
                     ELSE [p EXCEPT !.link[c] = NoBin, !.connections = @ \ {c}])

on_connection_started(p, c) ==
    TellStarted(p, IF c \in p.connections THEN [p EXCEPT !.startedCount = @ + 1] ELSE p)

on_connection_stopped(p, c) ==
    TellStarted(p, IF c \in p.connections THEN [p EXCEPT !.startedCount = @ - 1] ELSE p)

connection_added(c) ==
    /\ Alive /\ status[c] = "none"
    /\ plugin' = on_connection_added(plugin, c)
    /\ status' = [status EXCEPT ![c] = "added"]
    /\ UNCHANGED <<front, middle, locks>>

connection_started(c) ==
    /\ Alive /\ status[c] = "added"
    /\ plugin' = on_connection_started(plugin, c)
    /\ status' = [status EXCEPT ![c] = "started"]
    /\ UNCHANGED <<front, middle, locks>>

connection_stopped(c) ==
    /\ Alive /\ status[c] = "started"
    /\ plugin' = on_connection_stopped(plugin, c)
    /\ status' = [status EXCEPT ![c] = "added"]
    /\ UNCHANGED <<front, middle, locks>>

\* The library stops a started connection before it removes it.
Stopped(p, c) == IF status[c] = "started" THEN on_connection_stopped(p, c) ELSE p

Removed(c) ==
    IF Alive /\ status[c] # "none"
    THEN /\ plugin' = on_connection_removed(Stopped(plugin, c), c)
         /\ status' = [status EXCEPT ![c] = "none"]
    ELSE UNCHANGED <<plugin, status>>

connection_removed(c) ==
    /\ status[c] # "none"
    /\ Removed(c)
    /\ UNCHANGED <<front, middle, locks>>

\* A new bin takes over the connections of the old one, which is destroyed
\* with its buffers.
NotRelinked(p) == p.link

Relinked(p) == [c \in Connections |-> IF c \in p.connections THEN 1 - p.bin ELSE p.link[c]]

NewBuffers == front' = 0 /\ middle' = 0 /\ locks' = 0

set_additional_buffer_size(size) ==
    /\ Alive /\ size # plugin.size
    /\ plugin' = [plugin EXCEPT !.bin = 1 - @, !.size = size, !.locked = FALSE,
                                !.back = 0, !.link = Relinked(plugin)]
    /\ NewBuffers
    /\ UNCHANGED status

\* A second begin_write before end_write returns the same buffer, whose
\* frame index stays.
begin_write(index) ==
    /\ Alive /\ ~plugin.locked
    /\ plugin' = [plugin EXCEPT !.locked = TRUE, !.back = index]
    /\ UNCHANGED <<status, front, middle, locks>>

\* cycle: the finished frame is handed on; it comes to the front unless the
\* frame there is open.
Cycle(index) ==
    /\ middle' = index
    /\ front' = IF locks = 0 THEN index ELSE front

end_write ==
    /\ Alive /\ plugin.locked
    /\ plugin' = [plugin EXCEPT !.locked = FALSE, !.back = 0]
    /\ Cycle(plugin.back)
    /\ UNCHANGED <<status, locks>>

\* ~single_bin_stream destroys the bin, ~stream the stream; the library drops
\* its connections.
destroy_stream ==
    /\ Alive
    /\ plugin' = Gone
    /\ status' = [c \in Connections |-> "none"]
    /\ NewBuffers

\* Opening and closing the frame in front.
Lock == locks' = locks + 1 /\ UNCHANGED <<front, middle>>

Unlock(times) ==
    /\ locks' = locks - times
    /\ front' = IF locks <= times THEN middle ELSE front
    /\ UNCHANGED middle

StreamNext ==
    \/ make_stream
    \/ \E size \in Sizes : set_additional_buffer_size(size)
    \/ begin_write(middle + 1) /\ middle < MaxFrames
    \/ end_write
    \/ destroy_stream

-----------------------------------------------------------------------------
(* The stream runs exactly while somebody listens: the derived class starts *)
(* its sensor when it is told that connections started and stops it when    *)
(* the last one stops, so a count that drifts leaves a sensor running or a  *)
(* reader without frames. Every connection the stream knows feeds from the  *)
(* bin the stream writes now, also after the bin was exchanged.             *)
StreamFollowsConnections ==
    Alive =>
        /\ plugin.startedCount = Cardinality({c \in Connections : status[c] = "started"})
        /\ plugin.toldStarted <=> \E c \in Connections : status[c] = "started"
        /\ plugin.toldConnected <=> \E c \in Connections : status[c] # "none"
        /\ \A c \in Connections :
               plugin.link[c] = IF status[c] = "none" THEN NoBin ELSE plugin.bin
=============================================================================
