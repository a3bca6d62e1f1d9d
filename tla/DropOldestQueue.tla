-------------------------- MODULE DropOldestQueue --------------------------
(***************************************************************************)
(* What the capture queue promises its clients (queue.h), with no ring     *)
(* buffer, no lock, no condition variable and no reference counts: a FIFO  *)
(* of at most Capacity captures that can be switched off, drops its oldest *)
(* capture when a push finds it full, ignores pushes while it is off and   *)
(* never delivers a capture while it is off.  `closing' says that a thread *)
(* is inside queue_disable, `out' is what the queue_pop that returned last *)
(* gave its caller.                                                        *)
(***************************************************************************)
EXTENDS Naturals, Sequences

CONSTANTS Captures, Capacity, Nil

VARIABLES fifo, on, closing, out

vars == <<fifo, on, closing, out>>

Result(status, capture) == [status |-> status, capture |-> capture]

Init ==
  /\ fifo = <<>>
  /\ on = FALSE
  /\ closing = FALSE
  /\ out = Result("TIMEOUT", Nil)

(* A push appends; only a push that finds the queue full loses a capture,  *)
(* and that capture is the oldest one.                                     *)
Put(c) ==
  /\ on
  /\ fifo' = Append(IF Len(fifo) = Capacity THEN Tail(fifo) ELSE fifo, c)
  /\ UNCHANGED <<on, closing, out>>

(* A successful pop delivers the oldest capture. *)
Take ==
  /\ on
  /\ fifo # <<>>
  /\ out' = Result("SUCCEEDED", Head(fifo))
  /\ fifo' = Tail(fifo)
  /\ UNCHANGED <<on, closing>>

(* A pop that delivers nothing leaves the captures where they are.  It may *)
(* time out, fail, or (queue.c allows it) report success with no capture   *)
(* when it finds the queue empty.                                          *)
ReturnEmpty ==
  /\ \/ on /\ out' = Result("TIMEOUT", Nil)
     \/ out' = Result("FAILED", Nil)
     \/ on /\ fifo = <<>> /\ out' = Result("SUCCEEDED", Nil)
  /\ UNCHANGED <<fifo, on, closing>>

(* A pop that was waiting when the queue went off removes a capture but    *)
(* fails and delivers nothing.                                             *)
Discard ==
  /\ ~on
  /\ fifo # <<>>
  /\ out' = Result("FAILED", Nil)
  /\ fifo' = Tail(fifo)
  /\ UNCHANGED <<on, closing>>

TurnOn ==
  /\ on' = TRUE
  /\ UNCHANGED <<fifo, closing, out>>

(* Turning the queue off empties it at once, or leaves that for later ...  *)
TurnOff ==
  /\ on' = FALSE
  /\ \/ fifo' = <<>> /\ UNCHANGED closing
     \/ closing' = TRUE /\ UNCHANGED fifo
  /\ UNCHANGED out

(* ... when the last waiting pop has left.  Nothing else empties it.       *)
Drain ==
  /\ closing
  /\ fifo' = <<>>
  /\ closing' \in BOOLEAN
  /\ UNCHANGED <<on, out>>

Next ==
  \/ \E c \in Captures : Put(c)
  \/ Take
  \/ ReturnEmpty
  \/ Discard
  \/ TurnOn
  \/ TurnOff
  \/ Drain

Spec == Init /\ [][Next]_vars

=============================================================================
