----------------------------- MODULE MCSession -----------------------------
(***************************************************************************)
(* Streams of two parts for TLC: a first part of whole frames and then a   *)
(* frame cut off after any number of its bytes (none, or all but one), and *)
(* a second part of frames.                                                *)
(***************************************************************************)
EXTENDS Session, SequencesExt

\* A frame of receiver id whose payload holds no begin byte, and one full of them.
FrameOf(id, t, n) == <<249, id, t>> \o [i \in 1..n - 3 |-> 100 + i]
FullOf(id, t, n) == <<249, id, t>> \o [i \in 1..n - 3 |-> 249]

Answer(id) == FrameOf(id, 2, 18)
Check(id)  == FrameOf(id, 5, 15)
Timing(id) == FrameOf(id, 7, 6)
Switch(id, t) == FrameOf(id, t, 3)

Ends(frames) == {Len(FlattenSeq(SubSeq(frames, 1, n))) : n \in 0..Len(frames)}

Joined(first, second, p) ==
    [bytes |-> FlattenSeq(first) \o FlattenSeq(second),
     cuts |-> Ends(first) \union {Len(FlattenSeq(first)) + e : e \in Ends(second)},
     seam |-> Len(FlattenSeq(first)),
     pended |-> p]

\* The cut-off frame after an answers-open frame, then check-on, timing and off.
\* Where c = 6 nothing is cut off and both timing frames are full of begin bytes.
CutTiming(c) ==
    Joined(<<Switch(3, 1), SubSeq(FullOf(3, 7, 6), 1, c)>>,
           IF c = 6 THEN <<FullOf(9, 7, 6), Switch(9, 4), Switch(9, 3)>>
           ELSE <<Switch(9, 4), Timing(9), Switch(9, 3)>>, FALSE)
\* One byte, which takes the next frame's first for its receiver and that frame's
\* receiver for its type, behind a frame full of begin bytes.
CutFirst == Joined(<<FullOf(3, 7, 6), <<249>>>>,
                   <<Switch(2, 4), Timing(2), Switch(2, 3)>>, FALSE)
\* A cut-off frame, full of begin bytes, takes the first bytes of a longer one with
\* it; what is left of that one is longer than the next.
CutCheck(c) == Joined(<<SubSeq(FullOf(3, 5, 15), 1, c)>>,
                      <<Answer(9), Switch(9, 6), Timing(9)>>, FALSE)
\* Not plain: the message that takes what it lacks from behind the seam ends within a
\* timing frame whose payload begins like a check frame, which takes the next frames.
CutAmid == Joined(<<SubSeq(FrameOf(3, 5, 15), 1, 11)>>,
                  <<Switch(9, 4), <<249, 9, 7, 249, 1, 5>>, Switch(9, 6), Switch(9, 1),
                    Timing(9), Switch(9, 3)>>, FALSE)
Pended(c) == Joined(<<Switch(3, 4), SubSeq(FullOf(3, 5, 15), 1, c)>>,
                    <<Switch(3, 6), Switch(3, 1)>>, TRUE)

SessionStreams ==
    {CutTiming(c) : c \in 1..6} \union {CutFirst, CutCheck(4), CutAmid} \union
    {Pended(c) : c \in {5, 14}}
=============================================================================
