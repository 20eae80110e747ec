---------------------------- MODULE FrameDelivery ----------------------------
(***************************************************************************)
(* What the receiving side promises to the dialog, without buffers: the    *)
(* sender writes frames back to back, the bytes arrive in pieces of any    *)
(* size, and every frame that has arrived whole is handed over once, in    *)
(* the order it was sent, byte for byte.  MsgBuffer implements this        *)
(* specification on streams that hold nothing but frames.                  *)
(***************************************************************************)
EXTENDS Integers, Sequences

CONSTANTS
    Streams,    \* streams [bytes, cuts]; cuts: the offsets where a frame ends
    Lossy       \* TRUE when a frame may be consumed without being delivered

VARIABLES
    stream,     \* what the sender writes, fixed for a behaviour
    fed,        \* how many bytes of it have arrived
    at,         \* where the first frame not yet handed over begins
    delivered   \* the frames handed over, oldest first

vars == <<stream, fed, at, delivered>>

\* The offset at which the frame that begins at offset c ends.
FrameEnd(c) == {e \in stream.cuts : e > c /\ \A x \in stream.cuts : x <= c \/ e <= x}

Init ==
    /\ stream \in Streams
    /\ fed = 0
    /\ at = 0
    /\ delivered = <<>>

Arrive ==
    /\ fed' \in fed..Len(stream.bytes)
    /\ UNCHANGED <<stream, at, delivered>>

Deliver == \E e \in FrameEnd(at) :
    /\ e <= fed
    /\ delivered' = Append(delivered, SubSeq(stream.bytes, at + 1, e))
    /\ at' = e
    /\ UNCHANGED <<stream, fed>>

Lose == \E e \in FrameEnd(at) :
    /\ Lossy
    /\ e <= fed
    /\ at' = e
    /\ UNCHANGED <<stream, fed, delivered>>

Next == Arrive \/ Deliver \/ Lose

Spec == Init /\ [][Next]_vars
=============================================================================
