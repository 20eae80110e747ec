----------------------------- MODULE MCMsgBuffer -----------------------------
(***************************************************************************)
(* Streams for TLC.  Frames have their real lengths; their payloads repeat *)
(* the begin byte and a type byte, so that a search that starts anywhere   *)
(* but at a frame's first byte finds something that looks like a frame.    *)
(***************************************************************************)
EXTENDS MsgBuffer, SequencesExt

FrameOf(t, n) == <<249, 1, t>> \o [i \in 1..n - 3 |-> IF i % 3 = 1 THEN 249 ELSE 5]

Answer == FrameOf(2, 18)
Check  == FrameOf(5, 15)
Timing == FrameOf(7, 6)
Switch == [t \in {1, 3, 4, 6} |-> FrameOf(t, 3)]

\* A stream that holds these frames and nothing else.
Back2Back(frames) ==
    [bytes |-> FlattenSeq(frames),
     cuts  |-> {Len(FlattenSeq(SubSeq(frames, 1, n))) : n \in 0..Len(frames)}]

FrameStreams == {
    Back2Back(<<Answer, Check>>),
    Back2Back(<<Check, Check, Switch[1]>>),
    Back2Back(<<Switch[1], Answer, Timing, Switch[3]>>),
    Back2Back(<<Switch[4], Timing, Check, Switch[6]>>)}

Noise(n) == [i \in 1..n |-> 0]

NoiseStreams == {
    [bytes |-> b, cuts |-> {}] : b \in {
        Noise(4) \o Check \o Timing,            \* noise shorter than the frame
        Noise(7) \o Switch[1] \o Timing,        \* longer: posted again
        <<249>> \o Timing \o Switch[4],         \* begin byte as noise
        Switch[1] \o <<249, 0, 9>> \o Check,    \* a type nobody knows
        Timing \o SubSeq(Answer, 1, 10) \o Answer \o Switch[6]}}
=============================================================================
