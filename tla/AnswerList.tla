----------------------------- MODULE AnswerList -----------------------------
(***************************************************************************)
(* CDlgAnswer (DlgAnswer.cpp, struct answerItem in common.h): the answer   *)
(* table.  Every answer frame adds a row on top of the list control and an *)
(* item at the front of a vector; nothing is ever updated in place.        *)
(***************************************************************************)
EXTENDS Integers, Sequences, FiniteSets, SequencesExt

CONSTANTS
    Frames,     \* answer frames [id, electricity, answer] of signed bytes
    MaxTime,    \* bound on the clock, in seconds
    MaxFrames,  \* bound on the frames received between two clears
    Failures    \* TRUE when InsertItem may fail

Char == -128..127

ASSUME FramesAssumption ==
    Frames \subseteq [id : Seq(Char), electricity : Char, answer : Seq(Char)]
ASSUME LimitsAssumption == MaxTime \in Nat /\ MaxFrames \in Nat

VARIABLES
    m_answerVec,    \* the items, newest first
    m_listAnswer,   \* the rows of the list control, row 0 first
    now,            \* CTime::GetCurrentTime, in seconds
    log             \* history: [frame, at] of the frames since the last clear

vars == <<m_answerVec, m_listAnswer, now, log>>

\* '0' + b where that is a digit, 'F' otherwise (15 stands for 'F').
idOf(f) == [i \in 1..Len(f.id) |-> IF f.id[i] \in 0..9 THEN f.id[i] ELSE 15]

\* The half bytes of the answer, high half first; 10 to 15 are letters.
Nibbles(f) == [n \in 1..2 * Len(f.answer) |->
                  LET b == f.answer[(n + 1) \div 2] % 256
                  IN IF n % 2 = 1 THEN b \div 16 ELSE b % 16]

\* The letters up to the first half byte that is none.
Letters(f) ==
    LET half == Nibbles(f)
        none == {n \in 1..Len(half) : half[n] < 10}
    IN SubSeq(half, 1, Min(none \union {Len(half) + 1}) - 1)

\* The answer column: <<1>> for "yes", <<2>> for "no", or the letters.
answer(f) == IF f.answer[1] \in {1, 2} THEN <<f.answer[1]>> ELSE Letters(f)

newItem(f) ==
    [id |-> idOf(f), answer |-> answer(f), time |-> now,
     electricity |-> f.electricity, nindex |-> Len(m_listAnswer)]

\* The columns insertAnswer fills from an item.
row(item) ==
    [number |-> item.nindex, id |-> item.id, answer |-> item.answer,
     time |-> item.time, electricity |-> item.electricity]

Init ==
    /\ m_answerVec = <<>>
    /\ m_listAnswer = <<>>
    /\ now = 1
    /\ log = <<>>

receive(f, inserted) ==
    /\ Len(log) < MaxFrames
    /\ log' = Append(log, [frame |-> f, at |-> now, shown |-> inserted])
    /\ UNCHANGED now

\* Mutant: the row goes below the others, as a comment in insertAnswer has it.
InsertAnswerBelow(f) ==
    /\ receive(f, TRUE)
    /\ m_answerVec' = Append(m_answerVec, newItem(f))
    /\ m_listAnswer' = Append(m_listAnswer, row(newItem(f)))

\* processMsgAnswer: insertAnswer adds the row on top, the item in front.
InsertAnswer(f) ==
    /\ receive(f, TRUE)
    /\ m_answerVec' = <<newItem(f)>> \o m_answerVec
    /\ m_listAnswer' = <<row(newItem(f))>> \o m_listAnswer

\* InsertItem returned -1: insertAnswer returns before it touches the vector.
InsertFails(f) ==
    /\ Failures
    /\ receive(f, FALSE)
    /\ UNCHANGED <<m_answerVec, m_listAnswer>>

processMsgAnswer(f) == InsertAnswer(f) \/ InsertFails(f)

\* Mutant: the vector is kept.
OnWgwClearRows ==
    /\ m_listAnswer' = <<>>
    /\ log' = <<>>
    /\ UNCHANGED <<m_answerVec, now>>

\* The clear command of the context menu.
OnWgwClear ==
    /\ m_listAnswer' = <<>>
    /\ m_answerVec' = <<>>
    /\ log' = <<>>
    /\ UNCHANGED now

Tick ==
    /\ now < MaxTime
    /\ now' = now + 1
    /\ UNCHANGED <<m_answerVec, m_listAnswer, log>>

Next == (\E f \in Frames : processMsgAnswer(f)) \/ OnWgwClear \/ Tick

Spec == Init /\ [][Next]_vars
-----------------------------------------------------------------------------
\* What the answer column can read.
Answer == Seq({1, 2} \union 10..15)

Item == [id : Seq(0..15), answer : Answer, time : Nat, electricity : Char,
         nindex : Nat]

Row == [number : Nat, id : Seq(0..15), answer : Answer, time : Nat,
        electricity : Char]

\* Every variable has its type; an answer is shown as yes, no, or letters only.
TypeOK ==
    /\ m_answerVec \in Seq(Item)
    /\ m_listAnswer \in Seq(Row)
    /\ now \in Nat \ {0}
    /\ log \in Seq([frame : Frames, at : Nat, shown : BOOLEAN])

\* The list control shows the vector, and its rows are numbered from 0 upwards
\* from the bottom: the number an item takes from the row count is unique.
RowsMirrorVec ==
    /\ Len(m_listAnswer) = Len(m_answerVec)
    /\ \A n \in 1..Len(m_listAnswer) :
          /\ m_listAnswer[n] = row(m_answerVec[n])
          /\ m_listAnswer[n].number = Len(m_listAnswer) - n

\* The row of the answer received k-th: one below for each that came later.
Shown(from) == {j \in from..Len(log) : log[j].shown}
Place(k) == Cardinality(Shown(k))

\* Every answer since the last clear that found a row is in the table with the
\* time it came, none twice, and the newest is on top.
AnswersNewestFirst ==
    /\ Len(m_listAnswer) = Place(1)
    /\ \A k \in Shown(1) :
          /\ m_listAnswer[Place(k)].id = idOf(log[k].frame)
          /\ m_listAnswer[Place(k)].answer = answer(log[k].frame)
          /\ m_listAnswer[Place(k)].time = log[k].at
=============================================================================
