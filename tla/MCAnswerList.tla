---------------------------- MODULE MCAnswerList ----------------------------
(***************************************************************************)
(* Ids and answers of two bytes instead of ten and four: yes, no, letters  *)
(* that stop in the middle of a byte, and letters all through.             *)
(***************************************************************************)
EXTENDS AnswerList

FrameSet == {
    [id |-> <<1, 2>>, electricity |-> 3, answer |-> <<1, 0>>],
    [id |-> <<1, -2>>, electricity |-> 9, answer |-> <<2, -86>>],
    [id |-> <<9, 9>>, electricity |-> -1, answer |-> <<-86, -77>>],
    [id |-> <<9, 9>>, electricity |-> 0, answer |-> <<-52, -17>>]}
=============================================================================
