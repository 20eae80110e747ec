---------------------------- MODULE MCCheckList ----------------------------
(***************************************************************************)
(* Ids of two bytes instead of ten: two cards, a good and a bad check code *)
(* for one of them, and a frame whose id bytes are no digits.              *)
(***************************************************************************)
EXTENDS CheckList

FrameSet == {
    [id |-> <<1, 2>>, electricity |-> 3, code |-> 3],
    [id |-> <<1, 2>>, electricity |-> 9, code |-> 4],
    [id |-> <<9, 9>>, electricity |-> 0, code |-> 18],
    [id |-> <<-5, 9>>, electricity |-> -1, code |-> 4]}
=============================================================================
