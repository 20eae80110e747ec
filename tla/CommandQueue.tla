---------------------------- MODULE CommandQueue ----------------------------
(***************************************************************************)
(* What a command of the dialog (open answers, check on, timing, ...) may  *)
(* expect from the work thread, without its events, handles and vectors:   *)
(* commands are numbered as they are accepted and reach the device once,   *)
(* in that order.  A lossy queue may also give up its oldest commands.     *)
(***************************************************************************)
EXTENDS Integers, Sequences

CONSTANT Lossy      \* TRUE when accepted commands may be given up

VARIABLES
    sent,           \* number of the newest command the dialog issued
    pending,        \* accepted and not yet written, oldest first
    delivered       \* written to a device, oldest first

vars == <<sent, pending, delivered>>

Init == sent = 0 /\ pending = <<>> /\ delivered = <<>>

Accept ==
    /\ sent' = sent + 1
    /\ pending' = Append(pending, sent + 1)
    /\ UNCHANGED delivered

Refuse ==
    /\ sent' = sent + 1
    /\ UNCHANGED <<pending, delivered>>

Write ==
    /\ pending # <<>>
    /\ delivered' = Append(delivered, Head(pending))
    /\ pending' = Tail(pending)
    /\ UNCHANGED sent

GiveUp ==
    /\ Lossy
    /\ \E n \in 1..Len(pending) : pending' = SubSeq(pending, n + 1, Len(pending))
    /\ UNCHANGED <<sent, delivered>>

Next == Accept \/ Refuse \/ Write \/ GiveUp

Spec == Init /\ [][Next]_vars
=============================================================================
