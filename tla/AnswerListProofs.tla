-------------------------- MODULE AnswerListProofs --------------------------
(***************************************************************************)
(* Theorems about AnswerList, for any frames, and any number of them.      *)
(***************************************************************************)
EXTENDS AnswerList, SequenceTheorems, FiniteSetTheorems, WellFoundedInduction, TLAPS

\* A comprehension over the first n numbers is a sequence of that length.
LEMMA FcnIsSeq ==
  ASSUME NEW S, NEW n \in Nat, NEW q, q = [i \in 1..n |-> q[i]],
         \A i \in 1..n : q[i] \in S
  PROVE  q \in Seq(S) /\ Len(q) = n
<1>1. q \in [1..n -> S]
  OBVIOUS
<1> QED
  BY <1>1, IsASeq
-----------------------------------------------------------------------------
(***************************************************************************)
(* What is read from a frame.                                              *)
(***************************************************************************)
LEMMA IdType ==
  ASSUME NEW f \in Frames
  PROVE  idOf(f) \in Seq(0..15)
<1> DEFINE digit(i) == IF f.id[i] \in 0..9 THEN f.id[i] ELSE 15
<1>1. f.id \in Seq(Char) /\ Len(f.id) \in Nat
  BY FramesAssumption, LenProperties
<1>2. \A i \in 1..Len(f.id) : digit(i) \in 0..15
  OBVIOUS
<1> DEFINE q == [i \in 1..Len(f.id) |-> digit(i)]
<1>3. q = [i \in 1..Len(f.id) |-> q[i]] /\ \A i \in 1..Len(f.id) : q[i] \in 0..15
  BY <1>2
<1> HIDE DEF q
<1>4. q \in Seq(0..15)
  BY <1>1, <1>3, FcnIsSeq
<1> QED
  BY <1>4 DEF q, idOf

\* The two halves of a byte.
LEMMA HalfByte ==
  ASSUME NEW c \in Int
  PROVE  (c % 256) \div 16 \in 0..15 /\ (c % 256) % 16 \in 0..15
<1>1. c % 256 \in 0..255
  BY SMT
<1>2. \A b \in 0..255 : b \div 16 \in 0..15 /\ b % 16 \in 0..15
  BY SMT
<1> QED
  BY <1>1, <1>2

LEMMA NibblesType ==
  ASSUME NEW f \in Frames
  PROVE  Nibbles(f) \in Seq(0..15)
<1> DEFINE byte(n) == f.answer[(n + 1) \div 2]
           half(n) == IF n % 2 = 1 THEN (byte(n) % 256) \div 16 ELSE (byte(n) % 256) % 16
           q == [n \in 1..2 * Len(f.answer) |-> half(n)]
<1>1. f.answer \in Seq(Char) /\ Len(f.answer) \in Nat /\ 2 * Len(f.answer) \in Nat
  BY FramesAssumption, LenProperties
<1>2. ASSUME NEW n \in 1..2 * Len(f.answer) PROVE half(n) \in 0..15
  <2>1. (n + 1) \div 2 \in 1..Len(f.answer)
    <3>1. \A l \in Nat : \A m \in 1..2 * l : (m + 1) \div 2 \in 1..l
      BY SMT
    <3> QED
      BY <1>1, <3>1
  <2>2. byte(n) \in Int
    <3> DEFINE k == (n + 1) \div 2
    <3>1. k \in 1..Len(f.answer)
      BY <2>1
    <3> HIDE DEF k
    <3>2. f.answer[k] \in Char
      BY <1>1, <3>1, ElementOfSeq
    <3>3. f.answer[k] \in Int
      <4>1. \A c \in Char : c \in Int
        BY DEF Char
      <4> QED
        BY <3>2, <4>1, Zenon
    <3> QED
      BY <3>3, Zenon DEF k
  <2> QED
    BY <2>2, HalfByte
<1>3. q = [n \in 1..2 * Len(f.answer) |-> q[n]] /\ \A n \in 1..2 * Len(f.answer) : q[n] \in 0..15
  BY <1>2
<1>4. Nibbles(f) = q
  BY DEF Nibbles
<1> HIDE DEF q
<1>5. q \in Seq(0..15)
  BY <1>1, <1>3, FcnIsSeq
<1> QED
  BY <1>4, <1>5

LEMMA MinOf ==
  ASSUME NEW T \in SUBSET Nat, T # {}
  PROVE  Min(T) \in T /\ \A m \in T : Min(T) <= m
<1> DEFINE less == OpToRel(<, Nat)
<1>1. \E n \in T : \A m \in T : ~ (<<m, n>> \in less)
  BY WFMin, NatLessThanWellFounded
<1>2. ASSUME NEW m \in Nat, NEW n \in Nat, m < n PROVE <<m, n>> \in less
  BY <1>2 DEF OpToRel
<1> HIDE DEF less
<1>3. PICK n \in T : \A m \in T : ~ (<<m, n>> \in less)
  BY <1>1
<1>4. ASSUME NEW m \in T PROVE n <= m
  <2>1. ~ (m < n)
    BY <1>2, <1>3
  <2> QED
    BY <2>1
<1> QED
  BY <1>4 DEF Min

\* Only the half bytes from A to F in front of the first that is none are kept.
LEMMA LettersType ==
  ASSUME NEW f \in Frames
  PROVE  Letters(f) \in Seq(10..15)
<1> DEFINE half == Nibbles(f)
           none == {n \in 1..Len(half) : half[n] < 10}
           stop == Min(none \union {Len(half) + 1})
<1>1. /\ half \in Seq(0..15) /\ Len(half) \in Nat
      /\ \A n \in 1..Len(half) : half[n] \in 0..15
  BY NibblesType, ElementOfSeq, LenProperties
<1>2. Letters(f) = SubSeq(half, 1, stop - 1)
  BY DEF Letters
<1> HIDE DEF half
<1> DEFINE ends == none \union {Len(half) + 1}
<1>3. ends \in SUBSET Nat /\ ends # {}
  BY <1>1
<1> HIDE DEF ends
<1>4. stop \in ends /\ \A m \in ends : stop <= m
  BY <1>3, MinOf DEF ends
<1> HIDE DEF stop
<1>5. stop \in 1..Len(half) + 1
  BY <1>1, <1>4 DEF ends
<1>6. \A n \in 1..stop - 1 : half[n] \in 10..15
  BY <1>1, <1>4, <1>5, SMTT(30) DEF ends
<1>7. SubSeq(half, 1, stop - 1) \in Seq(10..15)
  BY <1>5, <1>6, SubSeqProperties
<1> QED
  BY <1>2, <1>7

LEMMA AnswerType ==
  ASSUME NEW f \in Frames
  PROVE  answer(f) \in Answer
<1>1. Letters(f) \in Seq({1, 2} \union 10..15)
  BY LettersType, SeqMonotonic
<1>2. CASE f.answer[1] \in {1, 2}
  <2>1. answer(f) = <<f.answer[1]>>
    BY <1>2 DEF answer
  <2> QED
    BY <1>2, <2>1 DEF Answer
<1>3. CASE f.answer[1] \notin {1, 2}
  BY <1>1, <1>3 DEF answer, Answer
<1> QED
  BY <1>2, <1>3

LEMMA ItemType ==
  ASSUME TypeOK, NEW f \in Frames
  PROVE  newItem(f) \in Item /\ row(newItem(f)) \in Row
<1>1. Len(m_listAnswer) \in Nat /\ now \in Nat /\ f.electricity \in Char
  BY FramesAssumption, LenProperties DEF TypeOK
<1>2. newItem(f) \in Item
  BY <1>1, IdType, AnswerType DEF newItem, Item
<1> QED
  BY <1>2 DEF row, Item, Row
-----------------------------------------------------------------------------
(***************************************************************************)
(* Types, rows and vector.                                                 *)
(***************************************************************************)
\* A sequence with one more element in front.
LEMMA InFront ==
  ASSUME NEW S, NEW q \in Seq(S), NEW e \in S
  PROVE  /\ <<e>> \o q \in Seq(S)
         /\ Len(<<e>> \o q) = Len(q) + 1 /\ Len(q) \in Nat
         /\ (<<e>> \o q)[1] = e
         /\ \A n \in 2..Len(q) + 1 : (<<e>> \o q)[n] = q[n - 1]
<1>1. <<e>> \in Seq(S) /\ Len(<<e>>) = 1 /\ <<e>>[1] = e
  OBVIOUS
<1> QED
  BY <1>1, ConcatProperties, LenProperties

Mirror == TypeOK /\ RowsMirrorVec

LEMMA InitMirror == Init => Mirror
<1> SUFFICES ASSUME Init PROVE Mirror
  OBVIOUS
<1>1. /\ m_answerVec \in Seq(Item) /\ m_listAnswer \in Seq(Row)
      /\ log \in Seq([frame : Frames, at : Nat, shown : BOOLEAN])
      /\ Len(m_listAnswer) = 0 /\ Len(m_answerVec) = 0
  BY EmptySeq DEF Init
<1> QED
  BY <1>1 DEF Init, Mirror, TypeOK, RowsMirrorVec

LEMMA NextMirror == Mirror /\ [Next]_vars => Mirror'
<1> SUFFICES ASSUME Mirror, [Next]_vars PROVE Mirror'
  OBVIOUS
<1> DEFINE Entry == [frame : Frames, at : Nat, shown : BOOLEAN]
<1>0. /\ TypeOK
      /\ m_answerVec \in Seq(Item) /\ m_listAnswer \in Seq(Row) /\ log \in Seq(Entry)
      /\ now \in Nat \ {0}
  BY DEF Mirror, TypeOK
<1>1. ASSUME NEW f \in Frames, NEW b \in BOOLEAN, receive(f, b)
      PROVE  log' \in Seq(Entry) /\ now' = now
  BY <1>0, <1>1, AppendProperties DEF receive
<1>2. ASSUME NEW f \in Frames, InsertAnswer(f)
      PROVE  Mirror'
  <2> DEFINE item == newItem(f)
             r == row(item)
  <2>1. item \in Item /\ r \in Row /\ r.number = Len(m_listAnswer)
    BY <1>0, ItemType DEF newItem, row
  <2>2. /\ m_answerVec' = <<item>> \o m_answerVec
        /\ m_listAnswer' = <<r>> \o m_listAnswer
    BY <1>2 DEF InsertAnswer
  <2>3. r = row(item)
    OBVIOUS
  <2> HIDE DEF item, r
  <2>4. /\ m_answerVec' \in Seq(Item) /\ Len(m_answerVec') = Len(m_answerVec) + 1
        /\ m_answerVec'[1] = item
        /\ \A n \in 2..Len(m_answerVec) + 1 : m_answerVec'[n] = m_answerVec[n - 1]
    BY <1>0, <2>1, <2>2, InFront
  <2>5. /\ m_listAnswer' \in Seq(Row) /\ Len(m_listAnswer') = Len(m_listAnswer) + 1
        /\ Len(m_listAnswer) \in Nat
        /\ m_listAnswer'[1] = r
        /\ \A n \in 2..Len(m_listAnswer) + 1 : m_listAnswer'[n] = m_listAnswer[n - 1]
    BY <1>0, <2>1, <2>2, InFront
  <2>6. TypeOK'
    BY <1>0, <1>1, <1>2, <2>4, <2>5 DEF InsertAnswer, TypeOK
  <2>7. ASSUME NEW n \in 1..Len(m_listAnswer')
        PROVE  /\ m_listAnswer'[n] = row(m_answerVec'[n])
               /\ m_listAnswer'[n].number = Len(m_listAnswer') - n
    <3>1. CASE n = 1
      BY <2>1, <2>3, <2>4, <2>5, <3>1
    <3>2. CASE n # 1
      <4>1. n - 1 \in 1..Len(m_listAnswer) /\ n \in 2..Len(m_listAnswer) + 1
        BY <2>5, <3>2
      <4>2. /\ m_listAnswer[n - 1] = row(m_answerVec[n - 1])
            /\ m_listAnswer[n - 1].number = Len(m_listAnswer) - (n - 1)
            /\ Len(m_answerVec) = Len(m_listAnswer)
        BY <4>1 DEF Mirror, RowsMirrorVec
      <4> QED
        BY <2>4, <2>5, <4>1, <4>2
    <3> QED
      BY <3>1, <3>2
  <2>8. Len(m_listAnswer') = Len(m_answerVec')
    BY <2>4, <2>5 DEF Mirror, RowsMirrorVec
  <2> QED
    BY <2>6, <2>7, <2>8 DEF Mirror, RowsMirrorVec
<1>3. ASSUME NEW f \in Frames, InsertFails(f)
      PROVE  Mirror'
  BY <1>0, <1>1, <1>3 DEF InsertFails, Mirror, TypeOK, RowsMirrorVec
<1>4. CASE OnWgwClear
  <2>1. /\ m_answerVec' \in Seq(Item) /\ m_listAnswer' \in Seq(Row) /\ log' \in Seq(Entry)
        /\ Len(m_listAnswer') = 0 /\ Len(m_answerVec') = 0 /\ now' = now
    BY <1>4, EmptySeq DEF OnWgwClear
  <2> QED
    BY <1>0, <2>1 DEF Mirror, TypeOK, RowsMirrorVec
<1>5. CASE Tick \/ UNCHANGED vars
  BY <1>0, <1>5 DEF Tick, vars, Mirror, TypeOK, RowsMirrorVec
<1> QED
  BY <1>2, <1>3, <1>4, <1>5 DEF Next, processMsgAnswer

\* The list control shows the vector, and rows are numbered without gaps from the
\* bottom, whichever inserts fail and whenever the table is cleared; an answer
\* column holds yes, no, or letters (CDlgAnswer::insertAnswer, DlgAnswer.cpp:53).
THEOREM RowsMirrorVecHolds == Spec => [](TypeOK /\ RowsMirrorVec)
  BY InitMirror, NextMirror, PTL DEF Spec, Mirror
-----------------------------------------------------------------------------
(***************************************************************************)
(* The answers received, and their places.                                 *)
(***************************************************************************)
Sheet == TypeOK /\ RowsMirrorVec /\ AnswersNewestFirst

LEMMA ShownFacts ==
  ASSUME TypeOK, NEW k \in Nat \ {0}
  PROVE  /\ IsFiniteSet(Shown(k)) /\ Place(k) \in Nat
         /\ Shown(k) \subseteq Shown(1) /\ Place(k) <= Place(1)
         /\ k \in Shown(1) => Place(k) > 0
<1>1. Len(log) \in Nat
  BY LenProperties DEF TypeOK
<1>2. Shown(k) \subseteq Shown(1) /\ Shown(1) \subseteq 1..Len(log)
  BY <1>1 DEF Shown
<1>3. IsFiniteSet(1..Len(log))
  BY <1>1, FS_Interval
<1>4. IsFiniteSet(Shown(1))
  BY <1>2, <1>3, FS_Subset
<1>5. IsFiniteSet(Shown(k)) /\ Place(k) <= Place(1)
  BY <1>2, <1>4, FS_Subset DEF Place
<1>6. Place(k) \in Nat
  BY <1>5, FS_CardinalityType DEF Place
<1>7. ASSUME k \in Shown(1) PROVE Place(k) > 0
  <2>1. k \in Shown(k)
    BY <1>1, <1>7 DEF Shown
  <2>2. Cardinality(Shown(k)) # 0
    BY <1>5, <2>1, FS_EmptySet
  <2> QED
    BY <1>6, <2>2 DEF Place
<1> QED
  BY <1>2, <1>5, <1>6, <1>7

\* An answer that found a row moves every earlier one down by one place; one that
\* did not moves none.
LEMMA ReceiveMoves ==
  ASSUME TypeOK, NEW f \in Frames, NEW b \in BOOLEAN, receive(f, b)
  PROVE  /\ Len(log) \in Nat /\ Len(log') = Len(log) + 1
         /\ log'[Len(log) + 1] = [frame |-> f, at |-> now, shown |-> b]
         /\ \A k \in 1..Len(log) : log'[k] = log[k]
         /\ Shown(1)' = IF b THEN Shown(1) \union {Len(log) + 1} ELSE Shown(1)
         /\ \A k \in 1..Len(log) : Place(k)' = IF b THEN Place(k) + 1 ELSE Place(k)
         /\ Place(1)' = IF b THEN Place(1) + 1 ELSE Place(1)
         /\ \A k \in Nat : b /\ k = Len(log) + 1 => Place(k)' = 1
<1> DEFINE L == Len(log)
           e == [frame |-> f, at |-> now, shown |-> b]
<1>1. L \in Nat /\ log \in Seq([frame : Frames, at : Nat, shown : BOOLEAN])
  BY LenProperties DEF TypeOK
<1>2. e \in [frame : Frames, at : Nat, shown : BOOLEAN] /\ log' = Append(log, e)
  BY DEF TypeOK, receive
<1>3. Len(log') = L + 1 /\ log'[L + 1] = e /\ \A k \in 1..L : log'[k] = log[k]
  BY <1>1, <1>2, AppendProperties
<1>4. e.shown = b
  OBVIOUS
<1> HIDE DEF e
<1>5. ASSUME NEW k \in 1..L + 1
      PROVE  /\ Shown(k)' = IF b THEN Shown(k) \union {L + 1} ELSE Shown(k)
             /\ L + 1 \notin Shown(k)
             /\ Place(k)' = IF b THEN Place(k) + 1 ELSE Place(k)
  <2>1. Shown(k)' = {j \in k..L + 1 : log'[j].shown}
    BY <1>3 DEF Shown
  <2>2. Shown(k) = {j \in k..L : log[j].shown} /\ L + 1 \notin Shown(k)
    BY <1>1 DEF Shown
  <2>3. ASSUME NEW j PROVE j \in Shown(k)' <=> j \in Shown(k) \/ (b /\ j = L + 1)
    <3>1. CASE j = L + 1
      BY <1>1, <1>3, <1>4, <2>1, <2>2, <3>1
    <3>2. CASE j # L + 1
      <4>1. j \in k..L + 1 <=> j \in k..L
        BY <1>1, <3>2
      <4>2. ASSUME j \in k..L PROVE log'[j] = log[j]
        BY <1>1, <1>3, <4>2
      <4> QED
        BY <2>1, <2>2, <3>2, <4>1, <4>2
    <3> QED
      BY <3>1, <3>2
  <2>4. Shown(k)' = IF b THEN Shown(k) \union {L + 1} ELSE Shown(k)
    BY <2>3
  <2>5. IsFiniteSet(Shown(k)) /\ Cardinality(Shown(k)) \in Nat
    BY <1>1, ShownFacts DEF Place
  <2>6. Cardinality(Shown(k) \union {L + 1}) = Cardinality(Shown(k)) + 1
    BY <2>2, <2>5, FS_AddElement
  <2> QED
    BY <2>2, <2>4, <2>6 DEF Place
<1>6. ASSUME NEW k \in Nat, b, k = L + 1 PROVE Place(k)' = 1
  <2>1. Shown(k) = {}
    BY <1>1, <1>6 DEF Shown
  <2>2. Place(k) = 0
    BY <2>1, FS_EmptySet DEF Place
  <2>3. k \in 1..L + 1
    BY <1>1, <1>6
  <2> QED
    BY <1>5, <1>6, <2>2, <2>3
<1>7. 1 \in 1..L + 1 /\ \A k \in 1..L : k \in 1..L + 1
  BY <1>1
<1> QED
  BY <1>1, <1>3, <1>5, <1>6, <1>7 DEF e

LEMMA NextSheet == Sheet /\ [Next]_vars => Sheet'
<1> SUFFICES ASSUME Sheet, [Next]_vars PROVE Sheet'
  OBVIOUS
<1>0. /\ TypeOK /\ RowsMirrorVec /\ AnswersNewestFirst
      /\ m_listAnswer \in Seq(Row) /\ Len(m_listAnswer) \in Nat
  BY LenProperties DEF Sheet, TypeOK
<1>1. (TypeOK /\ RowsMirrorVec)'
  BY <1>0, NextMirror DEF Mirror
<1>2. ASSUME NEW f \in Frames, InsertAnswer(f)
      PROVE  AnswersNewestFirst'
  <2> DEFINE L == Len(log)
             r == row(newItem(f))
  <2>1. receive(f, TRUE) /\ m_listAnswer' = <<r>> \o m_listAnswer
    BY <1>2 DEF InsertAnswer
  <2>2. r \in Row /\ r.id = idOf(f) /\ r.answer = answer(f) /\ r.time = now
    BY <1>0, ItemType DEF newItem, row
  <2> HIDE DEF r
  <2>3. /\ L \in Nat /\ log'[L + 1] = [frame |-> f, at |-> now, shown |-> TRUE]
        /\ \A k \in 1..L : log'[k] = log[k] /\ Place(k)' = Place(k) + 1
        /\ Shown(1)' = Shown(1) \union {L + 1}
        /\ Place(1)' = Place(1) + 1
        /\ \A k \in Nat : k = L + 1 => Place(k)' = 1
    BY <1>0, <2>1, ReceiveMoves
  <2>4. /\ Len(m_listAnswer') = Len(m_listAnswer) + 1
        /\ m_listAnswer'[1] = r
        /\ \A n \in 2..Len(m_listAnswer) + 1 : m_listAnswer'[n] = m_listAnswer[n - 1]
    BY <1>0, <2>1, <2>2, InFront
  <2>5. Len(m_listAnswer') = Place(1)'
    BY <1>0, <2>3, <2>4 DEF AnswersNewestFirst
  <2>6. ASSUME NEW k \in Shown(1)'
        PROVE  /\ m_listAnswer'[Place(k)'].id = idOf(log'[k].frame)
               /\ m_listAnswer'[Place(k)'].answer = answer(log'[k].frame)
               /\ m_listAnswer'[Place(k)'].time = log'[k].at
    <3>1. CASE k = L + 1
      <4>1. Place(k)' = 1
        BY <2>3, <3>1
      <4>2. log'[k].frame = f /\ log'[k].at = now
        BY <2>3, <3>1
      <4> QED
        BY <2>2, <2>4, <4>1, <4>2
    <3>2. CASE k # L + 1
      <4>1. k \in Shown(1) /\ k \in 1..L
        BY <2>3, <3>2 DEF Shown
      <4>2. Place(k) \in 1..Len(m_listAnswer)
        BY <1>0, <4>1, ShownFacts DEF AnswersNewestFirst
      <4>3. Place(k)' = Place(k) + 1 /\ log'[k] = log[k]
        BY <2>3, <4>1
      <4>4. m_listAnswer'[Place(k)'] = m_listAnswer[Place(k)]
        <5>1. PICK n \in 1..Len(m_listAnswer) : n = Place(k)
          BY <4>2
        <5>2. n + 1 \in 2..Len(m_listAnswer) + 1 /\ n + 1 - 1 = n
          BY <1>0
        <5>3. m_listAnswer'[n + 1] = m_listAnswer[n]
          BY <2>4, <5>2
        <5> QED
          BY <4>3, <5>1, <5>3, Zenon
      <4> QED
        BY <1>0, <4>1, <4>3, <4>4 DEF AnswersNewestFirst
    <3> QED
      BY <3>1, <3>2
  <2> QED
    BY <2>5, <2>6 DEF AnswersNewestFirst
<1>3. ASSUME NEW f \in Frames, InsertFails(f)
      PROVE  AnswersNewestFirst'
  <2>1. receive(f, FALSE) /\ m_listAnswer' = m_listAnswer
    BY <1>3 DEF InsertFails
  <2>2. /\ \A k \in 1..Len(log) : log'[k] = log[k] /\ Place(k)' = Place(k)
        /\ Shown(1)' = Shown(1) /\ Place(1)' = Place(1)
    BY <1>0, <2>1, ReceiveMoves
  <2>3. Shown(1) \subseteq 1..Len(log)
    BY DEF Shown
  <2> QED
    BY <1>0, <2>1, <2>2, <2>3 DEF AnswersNewestFirst
<1>4. ASSUME OnWgwClear PROVE AnswersNewestFirst'
  <2>1. Len(log') = 0 /\ Len(m_listAnswer') = 0
    BY <1>4, EmptySeq DEF OnWgwClear
  <2>2. Shown(1)' = {}
    BY <2>1 DEF Shown
  <2>3. Place(1)' = 0
    BY <2>2, FS_EmptySet DEF Place
  <2> QED
    BY <2>1, <2>2, <2>3 DEF AnswersNewestFirst
<1>5. ASSUME Tick \/ UNCHANGED vars PROVE AnswersNewestFirst'
  BY <1>0, <1>5 DEF Tick, vars, AnswersNewestFirst, Place, Shown
<1>6. AnswersNewestFirst'
  BY <1>2, <1>3, <1>4, <1>5 DEF Next, processMsgAnswer
<1> QED
  BY <1>1, <1>6 DEF Sheet

\* Every answer since the last clear that found a row is in the table, once, with
\* its own time, the newest on top (CDlgAnswer::processMsgAnswer, DlgAnswer.cpp:113).
THEOREM AnswersNewestFirstHolds == Spec => []AnswersNewestFirst
<1>1. Init => Sheet
  <2> SUFFICES ASSUME Init PROVE Sheet
    OBVIOUS
  <2>1. TypeOK /\ RowsMirrorVec
    BY InitMirror DEF Mirror
  <2>2. Len(log) = 0 /\ Len(m_listAnswer) = 0
    BY EmptySeq DEF Init
  <2>3. Shown(1) = {}
    BY <2>2 DEF Shown
  <2>4. Place(1) = 0
    BY <2>3, FS_EmptySet DEF Place
  <2> QED
    BY <2>1, <2>2, <2>3, <2>4 DEF Sheet, AnswersNewestFirst
<1> QED
  BY <1>1, NextSheet, PTL DEF Spec, Sheet
=============================================================================
