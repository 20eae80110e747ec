---------------------------- MODULE SessionProofs ----------------------------
(***************************************************************************)
(* Theorems about Session, for every stream of frames that the seam cuts   *)
(* anywhere, every size of the reads and any handles.  The steps of Run    *)
(* are steps of msgBuffer, so what MsgBufferProofs shows of it holds here. *)
(***************************************************************************)
EXTENDS Session, SequenceTheorems, WellFoundedInduction, TLAPS

MBP == INSTANCE MsgBufferProofs

LEMMA BufferAssumed ==
    MBP!SizeAssumption /\ MBP!FailuresAssumption /\ MBP!StreamsAssumption
  BY BufferAssumption DEF MBP!SizeAssumption, MBP!FailuresAssumption,
     MBP!StreamsAssumption, MBP!Byte, MB!Byte

LEMMA SameTypes ==
    /\ MB!TypeOK <=> MBP!TypeOK
    /\ MB!TypeOK' <=> MBP!TypeOK'
    /\ MB!MsgTypes = MBP!MsgTypes /\ MB!MsgLen = MBP!MsgLen
    /\ MB!MSG_BEGIN = MBP!MSG_BEGIN
  BY DEF MB!TypeOK, MBP!TypeOK, MB!Byte, MBP!Byte, MB!Unreceived, MBP!Unreceived,
     MB!Index, MBP!Index, MB!MsgTypes, MBP!MsgTypes, MB!MsgLen, MBP!MsgLen,
     MB!MSG_BEGIN, MBP!MSG_BEGIN

\* A step of Run's that touches the buffer is one of msgBuffer's.
LEMMA AddInputStep ==
  ASSUME got \in MBP!Chunk, AddInput
  PROVE  /\ pc = "idle" /\ run = "add" /\ UNCHANGED <<stream, posted>>
         /\ \/ MBP!AddInputAppend(got) /\ run' = "scan" /\ UNCHANGED lostTo
            \/ MBP!AddInputOverflow(got) /\ run' = "top" /\ lostTo' = pos'
         /\ MBP!Next
<1> USE DEF MB!AddInputAppend, MBP!AddInputAppend, MB!AddInputOverflow,
        MBP!AddInputOverflow, MB!Fits, MBP!Fits, MB!Index, MBP!Index
<1>1. /\ pc = "idle" /\ run = "add" /\ UNCHANGED <<stream, posted>>
      /\ \/ MBP!AddInputAppend(got) /\ run' = "scan" /\ UNCHANGED lostTo
         \/ MBP!AddInputOverflow(got) /\ run' = "top" /\ lostTo' = pos'
  BY DEF AddInput
<1> QED
  BY <1>1 DEF MBP!Next

LEMMA SameSearch ==
    /\ \A r : MB!MsgStart(r) = MBP!MsgStart(r)
    /\ \A i : MB!Known(i) <=> MBP!Known(i)
    /\ \A r, i : MB!Enough(r, i) <=> MBP!Enough(r, i)
    /\ \A i : MB!Copy(i) = MBP!Copy(i)
  BY DEF MB!MsgStart, MBP!MsgStart, MB!Known, MBP!Known, MB!Enough, MBP!Enough,
     MB!MSG_BEGIN, MBP!MSG_BEGIN, MB!MsgTypes, MBP!MsgTypes, MB!MsgLen, MBP!MsgLen,
     MB!Copy, MBP!Copy, MB!Index, MBP!Index, MB!Unreceived, MBP!Unreceived

LEMMA ScanStep ==
  ASSUME Scan
  PROVE  /\ pc = "scan" /\ run = "scan" /\ UNCHANGED <<stream, pos>>
         /\ \/ \E i \in MBP!MsgStart(ret) : MBP!PostMsg(i) /\ UNCHANGED <<run, lostTo>>
            \/ \E i \in MBP!MsgStart(ret) :
                   MBP!GetMsgUnknown(i) /\ run' = "top" /\ lostTo' = pos
            \/ MBP!GetMsgDone /\ run' = "top" /\ UNCHANGED lostTo
         /\ MBP!Next
<1> USE SameSearch DEF Scan
<1>1. CASE \E i \in MB!MsgStart(ret) : MB!PostMsg(i) /\ UNCHANGED <<run, lostTo>>
  <2>1. PICK i \in MBP!MsgStart(ret) : MB!PostMsg(i) /\ UNCHANGED <<run, lostTo>>
    BY <1>1
  <2>2. MBP!PostMsg(i) /\ pc = "scan" /\ UNCHANGED <<stream, pos>>
    BY <2>1 DEF MB!PostMsg, MBP!PostMsg, MB!Base, MBP!Base, MB!MsgLen, MBP!MsgLen,
                MB!MsgTypes, MBP!MsgTypes
  <2> QED
    BY <2>1, <2>2 DEF MBP!Next, MBP!GetMsg
<1>2. CASE \E i \in MB!MsgStart(ret) : MB!GetMsgUnknown(i) /\ run' = "top" /\ lostTo' = pos
  <2>1. PICK i \in MBP!MsgStart(ret) : MB!GetMsgUnknown(i) /\ run' = "top" /\ lostTo' = pos
    BY <1>2
  <2>2. MBP!GetMsgUnknown(i) /\ pc = "scan" /\ UNCHANGED <<stream, pos>>
    BY <2>1 DEF MB!GetMsgUnknown, MBP!GetMsgUnknown
  <2> QED
    BY <2>1, <2>2 DEF MBP!Next, MBP!GetMsg
<1>3. CASE MB!GetMsgDone /\ run' = "top" /\ UNCHANGED lostTo
  <2>1. MBP!GetMsgDone /\ pc = "scan" /\ UNCHANGED <<stream, pos>>
    BY <1>3 DEF MB!GetMsgDone, MBP!GetMsgDone, MB!Rest, MBP!Rest, MB!Index, MBP!Index
  <2> QED
    BY <1>3, <2>1 DEF MBP!Next, MBP!GetMsg
<1> QED
  BY <1>1, <1>2, <1>3
-----------------------------------------------------------------------------
(***************************************************************************)
(* Types.  Inductive: bytes read but not handed on yet are bytes of the    *)
(* stream, and Run reads only when a handle was published.                 *)
(***************************************************************************)
Unfinished == IF leg = 1 THEN stream.seam ELSE Len(stream.bytes)

Typed ==
    /\ TypeOK
    /\ MBP!Bounds
    /\ run # "add" => got = 0
    /\ pos + got <= Unfinished
    /\ step = "configure" => opening \in Handle
    /\ step # "idle" => m_commOpened
    /\ run # "top" => m_hand # INVALID
    /\ sessions = 0 => m_hand = INVALID /\ leg = 1

LEMMA StreamFacts ==
  ASSUME stream \in Streams
  PROVE  /\ stream.bytes \in Seq(MB!Byte) /\ Len(stream.bytes) \in Nat
         /\ stream.cuts \subseteq 0..Len(stream.bytes)
         /\ stream.seam \in stream.cuts /\ stream.seam \in 0..Len(stream.bytes)
         /\ stream.pended \in BOOLEAN
  BY BufferAssumption, SeamsAssumption, LenProperties

LEMMA TypedFacts ==
  ASSUME Typed
  PROVE  /\ stream \in Streams
         /\ stream.bytes \in Seq(MB!Byte) /\ Len(stream.bytes) \in Nat
         /\ stream.cuts \subseteq 0..Len(stream.bytes)
         /\ stream.seam \in 0..Len(stream.bytes)
         /\ pos \in Nat /\ pos <= Len(stream.bytes)
         /\ got \in Nat /\ got <= MaxChunk /\ MaxChunk \in Nat
         /\ got \in MBP!Chunk
<1>1. stream \in Streams /\ pos \in 0..Len(stream.bytes) /\ got \in 0..MaxChunk
      /\ leg \in 1..2 /\ pos + got <= Unfinished
  BY DEF Typed, TypeOK, MB!TypeOK
<1>2. /\ stream.bytes \in Seq(MB!Byte) /\ Len(stream.bytes) \in Nat
      /\ stream.cuts \subseteq 0..Len(stream.bytes)
      /\ stream.seam \in 0..Len(stream.bytes)
  BY <1>1, StreamFacts
<1> QED
  BY <1>1, <1>2, BufferAssumption DEF MBP!Chunk, Unfinished

LEMMA BufferNext == Typed /\ [Next]_vars => [MBP!Next]_(MBP!vars)
<1> SUFFICES ASSUME Typed, [Next]_vars PROVE MBP!Next \/ UNCHANGED MBP!vars
  OBVIOUS
<1>1. CASE AddInput
  BY <1>1, AddInputStep, TypedFacts
<1>2. CASE Scan
  BY <1>2, ScanStep
<1>3. CASE ~ AddInput /\ ~ Scan
  BY <1>3 DEF Next, OpenRefused, OpenDevice, Configured, NotConfigured, OpenBoxClosed, Close,
     OnUserThreadend, Run, GetHand, Read, ReadPends, ReadNothing, vars, buffer, MBP!vars
<1> QED
  BY <1>1, <1>2, <1>3

LEMMA InitTyped == Init => Typed
<1> SUFFICES ASSUME Init PROVE Typed
  OBVIOUS
<1>1. MBP!Init
  BY DEF Init, MB!Init, MBP!Init, MB!Index, MBP!Index, MB!Unreceived, MBP!Unreceived
<1>2. MBP!Bounds /\ MB!TypeOK
  BY <1>1, BufferAssumed, MBP!InitBounds, SameTypes DEF MBP!Bounds
<1>3. /\ stream.seam \in 0..Len(stream.bytes) /\ Len(stream.bytes) \in Nat
      /\ pos = 0 /\ posted = <<>>
  BY <1>2, StreamFacts DEF MB!TypeOK, MBP!Init, Init, MB!Init
<1>4. Len(posted) = 0 /\ pc = "idle" /\ m_editOther \in Seq(Nat)
  BY <1>3, EmptySeq DEF Init, MB!Init
<1>5. device \in [Handle -> 0..2] /\ got \in 0..MaxChunk /\ leg \in 1..2
  BY BufferAssumption DEF Init
<1>6. pos + got <= Unfinished
  BY <1>3 DEF Init, Unfinished
<1>7. /\ handled \in 0..Len(posted) /\ lostTo \in Nat /\ sessions \in 0..2
      /\ pc = "scan" <=> run = "scan"
  BY <1>4 DEF Init
<1>8. TypeOK
  BY <1>2, <1>4, <1>5, <1>7 DEF Init, TypeOK
<1> QED
  BY <1>2, <1>6, <1>8 DEF Init, Typed

LEMMA NextTyped == Typed /\ [Next]_vars => Typed'
<1> SUFFICES ASSUME Typed, [Next]_vars PROVE Typed'
  OBVIOUS
<1>1. MBP!Bounds' /\ MB!TypeOK'
  BY BufferNext, BufferAssumed, MBP!NextBounds, SameTypes DEF Typed, MBP!Bounds
<1>2. TypeOK
  BY DEF Typed
<1>3. ASSUME UNCHANGED buffer
      PROVE  UNCHANGED <<pc, stream, pos, posted>>
  BY <1>3 DEF buffer
<1>4. CASE OpenRefused \/ OpenBoxClosed \/ NotConfigured
  BY <1>1, <1>3, <1>4 DEF OpenRefused, OpenBoxClosed, NotConfigured, Typed, TypeOK,
     Unfinished, reader, hands, flags, shown
<1>5. ASSUME NEW h \in Handle, OpenDevice(h)
      PROVE  Typed'
  BY <1>1, <1>3, <1>5 DEF OpenDevice, Typed, TypeOK, Unfinished, reader, hands, flags, shown
<1>6. CASE Configured
  <2>1. /\ sessions < MaxSessions /\ sessions' = sessions + 1 /\ leg' = sessions'
        /\ sessions = 1 => pos + got = stream.seam
        /\ m_hand' = opening /\ opening \in Handle
        /\ UNCHANGED <<stream, pos, got>>
    BY <1>3, <1>6 DEF Configured, Typed
  <2>2. sessions' \in {1, 2} /\ leg' \in 1..2 /\ sessions' # 0 /\ m_hand' # INVALID
    BY <2>1, HandlesAssumption DEF TypeOK, Typed, MaxSessions
  <2>3. (pos + got <= Unfinished)'
    <3>1. CASE sessions = 0
      BY <2>1, <3>1 DEF Typed, Unfinished
    <3>2. CASE sessions = 1
      BY <2>1, <3>2, TypedFacts DEF Typed, Unfinished
    <3> QED
      BY <2>1, <3>1, <3>2 DEF TypeOK, Typed, MaxSessions
  <2>4. device' \in [Handle -> 0..2]
    BY <1>6, <2>2 DEF Configured, Typed, TypeOK
  <2>5. /\ UNCHANGED <<pc, posted, run, COMFile, lostTo, m_openAnswerEd, m_checkOn,
                       m_commOpened, handled, m_editOther>>
        /\ opening' = INVALID /\ step' = "idle"
    BY <1>6 DEF Configured, buffer, shown
  <2> QED
    BY <1>1, <2>1, <2>2, <2>3, <2>4, <2>5 DEF Typed, TypeOK
<1>7. CASE Close
  <2>1. device' \in [Handle -> 0..2]
    <3>1. device' = [device EXCEPT ![m_hand] = 0] /\ device \in [Handle -> 0..2]
      BY <1>7 DEF Close, Typed, TypeOK
    <3>2. \A h \in Handle : device'[h] \in 0..2
      BY <3>1
    <3>3. DOMAIN device' = Handle
      BY <3>1
    <3>4. device' = [h \in Handle |-> device'[h]]
      BY <3>1, <3>3
    <3> QED
      BY <3>2, <3>4
  <2> QED
    BY <1>1, <1>3, <1>7, <2>1 DEF Close, Typed, TypeOK, Unfinished, reader, shown
<1>8. CASE OnUserThreadend
  <2>1. handled' \in 1..Len(posted) /\ UNCHANGED buffer
    BY <1>8 DEF OnUserThreadend, Typed, TypeOK
  <2>2. /\ m_openAnswerEd' \in BOOLEAN /\ m_checkOn' \in BOOLEAN
        /\ UNCHANGED m_commOpened
    BY <1>8 DEF OnUserThreadend, getMsgOne, Typed, TypeOK
  <2>3. m_editOther' \in Seq(Nat)
    <3>1. <<handled'>> \in Seq(Nat)
      BY <2>1 DEF Typed, TypeOK
    <3>2. m_editOther \in Seq(Nat)
      BY DEF Typed, TypeOK
    <3>3. <<handled'>> \o m_editOther \in Seq(Nat)
      BY <3>1, <3>2, ConcatProperties
    <3>4. m_editOther' = <<handled'>> \o m_editOther \/ UNCHANGED m_editOther
      BY <1>8 DEF OnUserThreadend, getMsgOne, msgAppend
    <3> QED
      BY <3>2, <3>3, <3>4
  <2> QED
    BY <1>1, <1>3, <1>8, <2>1, <2>2, <2>3
       DEF OnUserThreadend, Typed, TypeOK, Unfinished, reader, hands
<1>9. CASE GetHand \/ ReadNothing
  BY <1>1, <1>3, <1>9 DEF GetHand, ReadNothing, Typed, TypeOK, Unfinished, hands, flags,
     dialog, shown
<1>10. ASSUME NEW k \in 1..MaxChunk, Read(k)
       PROVE  Typed'
  <2>1. got' = k /\ pos' = pos /\ Unfinished' = Unfinished /\ k <= Unfinished - pos
    BY <1>3, <1>10 DEF Read, Unread, Unfinished
  <2>2. pos + k <= Unfinished /\ k \in 0..MaxChunk
    BY <2>1, TypedFacts DEF Unfinished
  <2> QED
    BY <1>1, <1>3, <1>10, <2>1, <2>2 DEF Read, Typed, TypeOK, hands, flags, dialog, shown
<1>11. CASE ReadPends
  <2>1. got' = 0 /\ pos' = pos /\ stream' = stream /\ leg' = 2 /\ UNCHANGED sessions
    BY <1>3, <1>11 DEF ReadPends, hands
  <2>2. (pos + got <= Unfinished)' /\ 0 \in 0..MaxChunk
    BY <2>1, TypedFacts DEF Unfinished
  <2> QED
    BY <1>1, <1>3, <1>11, <2>1, <2>2 DEF ReadPends, Typed, TypeOK, hands, flags, dialog, shown
<1>12. CASE AddInput
  <2>1. /\ pc = "idle" /\ run = "add" /\ UNCHANGED <<stream, posted>>
        /\ \/ MBP!AddInputAppend(got) /\ run' = "scan" /\ UNCHANGED lostTo
           \/ MBP!AddInputOverflow(got) /\ run' = "top" /\ lostTo' = pos'
    BY <1>12, AddInputStep, TypedFacts
  <2>2. /\ pos' = pos + got /\ got' = 0 /\ UNCHANGED <<COMFile, leg>>
        /\ run' \in {"top", "scan"} /\ (pc' = "scan" <=> run' = "scan")
    BY <1>12, <2>1 DEF AddInput, MBP!AddInputAppend, MBP!AddInputOverflow
  <2>3. (pos + got <= Unfinished)' /\ lostTo' \in Nat /\ 0 \in 0..MaxChunk
    BY <2>1, <2>2, TypedFacts DEF Typed, TypeOK, Unfinished
  <2> QED
    BY <1>1, <1>12, <2>1, <2>2, <2>3 DEF AddInput, Typed, TypeOK, hands, flags, dialog, shown
<1>13. CASE Scan
  <2>1. /\ pc = "scan" /\ run = "scan" /\ UNCHANGED <<stream, pos>>
        /\ \/ \E i \in MBP!MsgStart(ret) : MBP!PostMsg(i) /\ UNCHANGED <<run, lostTo>>
           \/ \E i \in MBP!MsgStart(ret) :
                  MBP!GetMsgUnknown(i) /\ run' = "top" /\ lostTo' = pos
           \/ MBP!GetMsgDone /\ run' = "top" /\ UNCHANGED lostTo
    BY <1>13, ScanStep
  <2>2. /\ run' \in {"top", "scan"} /\ (pc' = "scan" <=> run' = "scan")
        /\ UNCHANGED <<COMFile, got, leg>> /\ lostTo' \in Nat
    BY <1>13, <2>1, TypedFacts DEF Scan, MBP!PostMsg, MBP!GetMsgUnknown, MBP!GetMsgDone,
       Typed, TypeOK
  <2>3. Len(posted) \in Nat /\ Len(posted') \in Nat /\ Len(posted) <= Len(posted')
    <3>1. posted \in Seq([at : Nat, msg : Seq(MBP!Byte \union {MBP!Unreceived})])
      BY SameTypes DEF Typed, TypeOK, MBP!TypeOK
    <3>2. UNCHANGED posted \/ \E x : posted' = Append(posted, x)
      BY <2>1 DEF MBP!PostMsg, MBP!GetMsgUnknown, MBP!GetMsgDone
    <3>3. posted' \in Seq([at : Nat, msg : Seq(MBP!Byte \union {MBP!Unreceived})])
      BY <1>1, SameTypes DEF MBP!TypeOK
    <3> QED
      BY <3>1, <3>2, <3>3, LenProperties
  <2>4. handled' \in 0..Len(posted')
    BY <1>13, <2>3 DEF Scan, shown, Typed, TypeOK
  <2> QED
    BY <1>1, <1>13, <2>1, <2>2, <2>4 DEF Scan, Typed, TypeOK, Unfinished, hands, flags,
       dialog, shown
<1>14. CASE UNCHANGED vars
  BY <1>1, <1>3, <1>14 DEF vars, Typed, TypeOK, Unfinished, reader, hands, flags, dialog, shown
<1> QED
  BY <1>4, <1>5, <1>6, <1>7, <1>8, <1>9, <1>10, <1>11, <1>12, <1>13, <1>14 DEF Next, Run

\* Types hold, and Run reads only through a handle that was published, whatever is
\* opened, refused and closed around it (getHand, WorkThread.cpp:243).
THEOREM TypeOKHolds == Spec => []TypeOK
<1>1. Typed => TypeOK
  BY DEF Typed
<1> QED
  BY <1>1, InitTyped, NextTyped, PTL DEF Spec
-----------------------------------------------------------------------------
(***************************************************************************)
(* The title.                                                              *)
(***************************************************************************)
\* Both flags are what the frames dispatched so far last said, and an open device's
\* title shows them.
FlagsSaid ==
    /\ m_openAnswerEd <=> On({1, 2}, 3, 0)
    /\ m_checkOn <=> On({4, 5}, 6, 0)

TitleFresh ==
    m_commOpened /\ step = "idle" => title = <<Speed, m_openAnswerEd, m_checkOn>>

LEMMA PostedFacts ==
  ASSUME Typed
  PROVE  /\ posted \in Seq([at : Nat, msg : Seq(MBP!Byte \union {MBP!Unreceived})])
         /\ Len(posted) \in Nat /\ handled \in 0..Len(posted)
         /\ \A n \in 1..Len(posted) :
               posted[n].at \in Nat /\ posted[n].msg \in Seq(MBP!Byte \union {MBP!Unreceived})
<1>1. posted \in Seq([at : Nat, msg : Seq(MBP!Byte \union {MBP!Unreceived})])
  BY SameTypes DEF Typed, TypeOK, MBP!TypeOK
<1>2. \A n \in 1..Len(posted) : posted[n] \in [at : Nat, msg : Seq(MBP!Byte \union {MBP!Unreceived})]
  BY <1>1, ElementOfSeq
<1> QED
  BY <1>1, <1>2, LenProperties DEF Typed, TypeOK

\* Messages once posted stay as they are.
LEMMA PostedGrows ==
  ASSUME Typed, Typed', [Next]_vars
  PROVE  Len(posted) <= Len(posted') /\ \A n \in 1..Len(posted) : posted'[n] = posted[n]
<1>1. UNCHANGED posted \/ \E x : posted' = Append(posted, x)
  <2>1. CASE MBP!Next
    BY <2>1 DEF MBP!Next, MBP!GetMsg, MBP!PostMsg, MBP!DropMsg, MBP!GetMsgUnknown,
       MBP!GetMsgDone, MBP!AddInputAppend, MBP!AddInputOverflow
  <2> QED
    BY <2>1, BufferNext DEF MBP!vars
<1>2. CASE UNCHANGED posted
  BY <1>2, PostedFacts
<1>3. ASSUME NEW x, posted' = Append(posted, x)
      PROVE  Len(posted) <= Len(posted') /\ \A n \in 1..Len(posted) : posted'[n] = posted[n]
  <2> DEFINE S == [at : Nat, msg : Seq(MBP!Byte \union {MBP!Unreceived})]
  <2>1. posted \in Seq(S) /\ posted' \in Seq(S) /\ Len(posted) \in Nat
    <3>1. posted' \in Seq(S)
      BY SameTypes DEF Typed, TypeOK, MBP!TypeOK
    <3> QED
      BY <3>1, PostedFacts
  <2>2. posted \in Seq(S \union {x}) /\ x \in S \union {x}
    BY <2>1, SeqMonotonic
  <2> HIDE DEF S
  <2> QED
    BY <1>3, <2>1, <2>2, AppendProperties
<1> QED
  BY <1>1, <1>2, <1>3

\* The last word on a flag, without the offsets.
LEMMA OnIs ==
  ASSUME Typed, NEW on, NEW off
  PROVE  On(on, off, 0) <=> \E n \in 1..handled :
             /\ Type(n) \in on
             /\ \A k \in 1..handled : Type(k) = off => k < n
<1>1. \A n \in 1..handled : n \in 1..Len(posted) /\ posted[n].at >= 0
  BY PostedFacts
<1> QED
  BY <1>1 DEF On, Said

\* What the next frame dispatched makes of it.
LEMMA OnNext ==
  ASSUME Typed, Typed', UNCHANGED posted, handled' = handled + 1,
         NEW on, NEW off, off \notin on
  PROVE  /\ Type(handled') \in on => On(on, off, 0)'
         /\ Type(handled') = off => ~ On(on, off, 0)'
         /\ Type(handled') \notin on \union {off} => (On(on, off, 0)' <=> On(on, off, 0))
<1> DEFINE new == handled + 1
<1>1. handled \in Nat /\ \A n : n \in 1..new <=> n \in 1..handled \/ n = new
  BY PostedFacts
<1>2. \A n \in 1..handled : n < new
  BY <1>1
<1>3. On(on, off, 0)' <=> \E n \in 1..new :
             /\ Type(n) \in on
             /\ \A k \in 1..new : Type(k) = off => k < n
  <2>1. On(on, off, 0)' <=> (\E n \in 1..handled :
             /\ Type(n) \in on
             /\ \A k \in 1..handled : Type(k) = off => k < n)'
    <3>1. \A n \in 1..handled' : n \in 1..Len(posted) /\ posted[n].at >= 0
      BY PostedFacts DEF Typed, TypeOK
    <3> QED
      BY <3>1 DEF On, Said, Type
  <2> QED
    BY <2>1 DEF Type
<1>4. On(on, off, 0) <=> \E n \in 1..handled :
             /\ Type(n) \in on
             /\ \A k \in 1..handled : Type(k) = off => k < n
  BY OnIs
<1>5. Type(handled') = Type(new)
  OBVIOUS
<1>6. ASSUME Type(new) \in on PROVE On(on, off, 0)'
  <2>1. \A k \in 1..new : Type(k) = off => k < new
    BY <1>1, <1>2, <1>6
  <2> QED
    BY <1>1, <1>3, <1>6, <2>1
<1>7. ASSUME Type(new) = off PROVE ~ On(on, off, 0)'
  <2>1. \A n \in 1..new : ~ (new < n) /\ ~ (new < new)
    BY <1>1
  <2> QED
    BY <1>1, <1>3, <1>7, <2>1
<1>8. ASSUME Type(new) \notin on \union {off} PROVE On(on, off, 0)' <=> On(on, off, 0)
  BY <1>1, <1>3, <1>4, <1>8
<1> HIDE DEF new
<1> QED
  BY <1>5, <1>6, <1>7, <1>8

\* Where no frame is dispatched the last word stays.
LEMMA OnStays ==
  ASSUME Typed, Typed', [Next]_vars, handled' = handled, NEW on, NEW off
  PROVE  On(on, off, 0)' <=> On(on, off, 0)
<1>0. handled \in Nat /\ \A n \in 1..handled : n \in 1..Len(posted)
  BY PostedFacts
<1>1. \A n \in 1..handled : posted'[n].msg[3] = posted[n].msg[3]
  BY <1>0, PostedGrows
<1>2. On(on, off, 0)' <=> (\E n \in 1..handled :
             /\ Type(n) \in on
             /\ \A k \in 1..handled : Type(k) = off => k < n)'
  <2>1. \A n \in 1..handled' : posted'[n].at >= 0
    <3>1. \A n \in 1..handled : posted[n].at >= 0
      BY <1>0, PostedFacts
    <3> QED
      BY <1>0, <3>1, PostedGrows
  <2> QED
    BY <2>1 DEF On, Said, Type
<1> QED
  BY <1>1, <1>2, OnIs DEF Type

LEMMA InitFlags == Init => FlagsSaid /\ TitleFresh
<1> SUFFICES ASSUME Init PROVE FlagsSaid /\ TitleFresh
  OBVIOUS
<1>1. 1..handled = {}
  BY DEF Init
<1> QED
  BY <1>1 DEF Init, FlagsSaid, TitleFresh, On, Said

LEMMA NextFlags == Typed /\ Typed' /\ FlagsSaid /\ [Next]_vars => FlagsSaid'
<1> SUFFICES ASSUME Typed, Typed', FlagsSaid, [Next]_vars PROVE FlagsSaid'
  OBVIOUS
<1>1. CASE OnUserThreadend
  <2> DEFINE t == Type(handled')
  <2>1. /\ UNCHANGED posted /\ handled' = handled + 1
        /\ m_openAnswerEd' = IF t \in {1, 2, 3} THEN t # 3 ELSE m_openAnswerEd
        /\ m_checkOn' = IF t \in {4, 5, 6} THEN t # 6 ELSE m_checkOn
    BY <1>1 DEF OnUserThreadend, getMsgOne, buffer, Type
  <2>2. /\ t \in {1, 2} => On({1, 2}, 3, 0)'
        /\ t = 3 => ~ On({1, 2}, 3, 0)'
        /\ t \notin {1, 2} \union {3} => (On({1, 2}, 3, 0)' <=> On({1, 2}, 3, 0))
    BY <2>1, OnNext
  <2>3. /\ t \in {4, 5} => On({4, 5}, 6, 0)'
        /\ t = 6 => ~ On({4, 5}, 6, 0)'
        /\ t \notin {4, 5} \union {6} => (On({4, 5}, 6, 0)' <=> On({4, 5}, 6, 0))
    BY <2>1, OnNext
  <2> HIDE DEF t
  <2>4. m_openAnswerEd' <=> On({1, 2}, 3, 0)'
    BY <2>1, <2>2 DEF FlagsSaid
  <2>5. m_checkOn' <=> On({4, 5}, 6, 0)'
    BY <2>1, <2>3 DEF FlagsSaid
  <2> QED
    BY <2>4, <2>5 DEF FlagsSaid
<1>2. CASE ~ OnUserThreadend
  <2>1. UNCHANGED <<handled, m_openAnswerEd, m_checkOn>>
    BY <1>2 DEF Next, OpenRefused, OpenDevice, Configured, NotConfigured, OpenBoxClosed,
       Close, Run, GetHand, Read, ReadPends, ReadNothing, AddInput, Scan, vars, flags, shown
  <2>2. (On({1, 2}, 3, 0)' <=> On({1, 2}, 3, 0)) /\ (On({4, 5}, 6, 0)' <=> On({4, 5}, 6, 0))
    BY <2>1, OnStays
  <2> QED
    BY <2>1, <2>2 DEF FlagsSaid
<1> QED
  BY <1>1, <1>2

LEMMA NextTitle == Typed /\ Typed' /\ TitleFresh /\ [Next]_vars => TitleFresh'
<1> SUFFICES ASSUME Typed, TitleFresh, [Next]_vars, m_commOpened', step' = "idle"
             PROVE  title' = <<Speed, m_openAnswerEd', m_checkOn'>>
  BY DEF TitleFresh
<1>1. CASE Configured
  BY <1>1 DEF Configured, updateState
<1>2. CASE OnUserThreadend
  <2>1. m_commOpened /\ step = "idle"
    BY <1>2 DEF OnUserThreadend, getMsgOne
  <2>2. CASE <<m_openAnswerEd, m_checkOn>>' = <<m_openAnswerEd, m_checkOn>>
    BY <1>2, <2>1, <2>2 DEF OnUserThreadend, getMsgOne, TitleFresh
  <2>3. CASE <<m_openAnswerEd, m_checkOn>>' # <<m_openAnswerEd, m_checkOn>>
    BY <1>2, <2>1, <2>3 DEF OnUserThreadend, getMsgOne, updateState
  <2> QED
    BY <2>2, <2>3
<1>3. CASE OpenRefused \/ (\E h \in Handle : OpenDevice(h)) \/ NotConfigured \/ OpenBoxClosed
           \/ Close
  BY <1>3 DEF OpenRefused, OpenDevice, NotConfigured, OpenBoxClosed, Close
<1>4. CASE Run \/ UNCHANGED vars
  BY <1>4 DEF Run, GetHand, Read, ReadPends, ReadNothing, AddInput, Scan, vars, flags, dialog,
     TitleFresh
<1> QED
  BY <1>1, <1>2, <1>3, <1>4 DEF Next

\* What was said since an offset is what was said at all: messages are in order.
LEMMA OnSince ==
  ASSUME Typed, MBP!PostedInOrder, NEW from \in Nat, NEW on, NEW off,
         off \notin on, Said(on \union {off}, from) # {}
  PROVE  On(on, off, from) <=> On(on, off, 0)
<1>1. /\ handled \in Nat
      /\ \A n \in 1..handled : posted[n].at \in Nat
      /\ \A a, b \in 1..handled : a < b => posted[a].at <= posted[b].at
  <2>1. handled \in Nat /\ \A n \in 1..handled : n \in 1..Len(posted)
    BY PostedFacts
  <2>2. \A n \in 1..handled : posted[n].at \in Nat
    BY <2>1, PostedFacts
  <2> QED
    BY <2>1, <2>2 DEF MBP!PostedInOrder
<1>2. ASSUME On(on, off, from) PROVE On(on, off, 0)
  <2>1. PICK n \in Said(on, from) : \A k \in Said({off}, from) : k < n
    BY <1>2 DEF On
  <2>2. ASSUME NEW k \in 1..handled, Type(k) = off, ~ (k < n)
        PROVE  FALSE
    <3>1. k # n /\ n \in 1..handled /\ posted[n].at >= from
      BY <2>1, <2>2 DEF Said
    <3>2. n < k
      BY <2>2, <3>1
    <3>3. posted[k].at >= from
      BY <1>1, <3>1, <3>2
    <3>4. k \in Said({off}, from)
      BY <2>2, <3>3 DEF Said
    <3> QED
      BY <2>1, <2>2, <3>4
  <2>3. n \in 1..handled /\ Type(n) \in on
    BY <2>1 DEF Said
  <2> QED
    BY <2>2, <2>3, OnIs
<1>3. ASSUME On(on, off, 0) PROVE On(on, off, from)
  <2>1. PICK n \in 1..handled : Type(n) \in on /\ \A k \in 1..handled : Type(k) = off => k < n
    BY <1>3, OnIs
  <2>2. PICK m \in 1..handled : Type(m) \in on \union {off} /\ posted[m].at >= from
    BY DEF Said
  <2>3. \E j \in Said(on, from) : n <= j
    <3>1. CASE n < m
      <4>1. Type(m) # off
        BY <2>1, <3>1
      <4> QED
        BY <2>2, <3>1, <4>1 DEF Said
    <3>2. CASE ~ (n < m)
      <4>1. n = m \/ m < n
        BY <3>2
      <4>2. posted[n].at >= from
        BY <1>1, <2>2, <4>1
      <4> QED
        BY <1>1, <2>1, <4>2 DEF Said
    <3> QED
      BY <3>1, <3>2
  <2>4. PICK j \in Said(on, from) : n <= j
    BY <2>3
  <2>5. ASSUME NEW k \in Said({off}, from) PROVE k < j
    <3>1. k \in 1..handled /\ Type(k) = off /\ j \in 1..handled
      BY <2>4 DEF Said
    <3> QED
      BY <2>1, <2>4, <3>1
  <2> QED
    BY <2>4, <2>5 DEF On
<1> QED
  BY <1>2, <1>3

\* The title of an open device says what the frames dispatched last said; of the
\* second session as soon as that one has said anything, because Run hands on the
\* bytes of both in order (wgwDlg.cpp:666, the flags are never reset).
THEOREM TitleOfSessionHolds == Spec => []TitleOfSession
<1> DEFINE I == Typed /\ MBP!Order /\ FlagsSaid /\ TitleFresh
<1>1. Init => I
  <2>1. Init => MBP!Order
    BY MBP!InitOrder, BufferAssumed DEF Init, MB!Init, MBP!Init, MB!Index, MBP!Index,
       MB!Unreceived, MBP!Unreceived
  <2> QED
    BY <2>1, InitTyped, InitFlags
<1>2. I /\ [Next]_vars => I'
  <2>1. Typed /\ MBP!Order /\ [Next]_vars => MBP!Order'
    BY BufferNext, BufferAssumed, MBP!NextOrder DEF Typed
  <2> QED
    BY <2>1, NextTyped, NextFlags, NextTitle
<1>3. I => TitleOfSession
  <2> SUFFICES ASSUME Typed, MBP!Order, FlagsSaid, TitleFresh, m_commOpened, step = "idle",
                      NEW from \in {0} \union (IF leg = 2 THEN {stream.seam} ELSE {})
               PROVE  /\ title[1] = Speed
                      /\ Said({1, 2, 3}, from) # {} => title[2] = On({1, 2}, 3, from)
                      /\ Said({4, 5, 6}, from) # {} => title[3] = On({4, 5}, 6, from)
    BY DEF TitleOfSession
  <2>1. title[1] = Speed /\ title[2] = m_openAnswerEd /\ title[3] = m_checkOn
    BY DEF TitleFresh
  <2>2. from \in Nat
    BY TypedFacts
  <2>3. m_openAnswerEd = On({1, 2}, 3, 0) /\ m_checkOn = On({4, 5}, 6, 0)
    <3>1. m_openAnswerEd \in BOOLEAN /\ m_checkOn \in BOOLEAN
      BY DEF Typed, TypeOK
    <3> QED
      BY <3>1, Zenon DEF FlagsSaid, On
  <2>4. ASSUME Said({1, 2, 3}, from) # {} PROVE title[2] = On({1, 2}, 3, from)
    <3>1. {1, 2, 3} = {1, 2} \union {3}
      OBVIOUS
    <3>2. On({1, 2}, 3, from) <=> On({1, 2}, 3, 0)
      BY <2>2, <2>4, <3>1, OnSince DEF MBP!Order
    <3>3. On({1, 2}, 3, from) = On({1, 2}, 3, 0)
      BY <3>2, Zenon DEF On
    <3> QED
      BY <2>1, <2>3, <3>3
  <2>5. ASSUME Said({4, 5, 6}, from) # {} PROVE title[3] = On({4, 5}, 6, from)
    <3>1. {4, 5, 6} = {4, 5} \union {6}
      OBVIOUS
    <3>2. On({4, 5}, 6, from) <=> On({4, 5}, 6, 0)
      BY <2>2, <2>5, <3>1, OnSince DEF MBP!Order
    <3>3. On({4, 5}, 6, from) = On({4, 5}, 6, 0)
      BY <3>2, Zenon DEF On
    <3> QED
      BY <2>1, <2>3, <3>3
  <2> QED
    BY <2>1, <2>4, <2>5
<1> QED
  BY <1>1, <1>2, <1>3, PTL DEF Spec
-----------------------------------------------------------------------------
(***************************************************************************)
(* Streams: cuts, whole frames and the one the seam cuts off.              *)
(***************************************************************************)
LEMMA LeastOf ==
  ASSUME NEW T \in SUBSET Nat, T # {}
  PROVE  \E n \in T : \A m \in T : n <= m
<1> DEFINE less == OpToRel(<, Nat)
<1>1. \E n \in T : \A m \in T : ~ (<<m, n>> \in less)
  BY WFMin, NatLessThanWellFounded
<1>2. ASSUME NEW m \in Nat, NEW n \in Nat, m < n PROVE <<m, n>> \in less
  BY <1>2 DEF OpToRel
<1> HIDE DEF less
<1>3. PICK n \in T : \A m \in T : ~ (<<m, n>> \in less)
  BY <1>1
<1>4. ASSUME NEW m \in T PROVE n <= m
  <2>1. ~ (m < n)
    BY <1>2, <1>3
  <2> QED
    BY <2>1
<1> QED
  BY <1>4

LEMMA LenOfType ==
    /\ MB!MsgLen \in [MB!MsgTypes -> 3..18]
    /\ MB!MsgTypes \subseteq 1..7
  BY DEF MB!MsgLen, MB!MsgTypes

\* What begins at a cut is a whole frame, or the one frame cut off by the seam.
LEMMA AtCut ==
  ASSUME stream \in Streams, NEW c \in stream.cuts, c # Len(stream.bytes)
  PROVE  /\ c \in Nat /\ c < Len(stream.bytes)
         /\ stream.bytes[c + 1] = MB!MSG_BEGIN
         /\ EndOf(c) \in stream.cuts /\ EndOf(c) \in Nat /\ c < EndOf(c)
         /\ \A x \in stream.cuts : x <= c \/ EndOf(c) <= x
         /\ \/ c \in Whole /\ c \notin Torn
            \/ /\ c \in Torn /\ c \notin Whole /\ c < stream.seam /\ EndOf(c) = stream.seam
               /\ c + 3 <= stream.seam => /\ stream.bytes[c + 3] \in MB!MsgTypes
                                          /\ stream.seam < c + MB!MsgLen[stream.bytes[c + 3]]
<1> DEFINE e == EndOf(c)
<1>1. /\ stream.bytes[c + 1] = MB!MSG_BEGIN
      /\ \E x \in NextCut(stream, c) : FrameIn(stream, c, x) \/ CutOffIn(stream, c, x)
  BY FramesAssumption
<1>2. stream.cuts \subseteq Nat /\ c \in Nat /\ c < Len(stream.bytes) /\ stream.seam \in Nat
      /\ \A x \in stream.cuts : x <= Len(stream.bytes)
  BY StreamFacts
<1>3. \A x, y \in NextCut(stream, c) : x = y
  BY <1>2 DEF NextCut
<1>4. e \in NextCut(stream, c) /\ (FrameIn(stream, c, e) \/ CutOffIn(stream, c, e))
  BY <1>1, <1>3 DEF EndOf
<1>5. e \in stream.cuts /\ e \in Nat /\ c < e /\ \A x \in stream.cuts : x <= c \/ e <= x
  BY <1>2, <1>4 DEF NextCut
<1> HIDE DEF e
<1>6. CASE FrameIn(stream, c, e)
  <2>1. /\ c + 3 <= Len(stream.bytes) /\ stream.bytes[c + 3] \in MB!MsgTypes
        /\ e = c + MB!MsgLen[stream.bytes[c + 3]]
    BY <1>2, <1>5, <1>6, StreamFacts DEF FrameIn
  <2>2. c \in Whole
    BY <2>1 DEF Whole, e
  <2> QED
    BY <1>1, <1>2, <1>5, <2>2 DEF Torn, e
<1>7. CASE CutOffIn(stream, c, e)
  <2>1. /\ e = stream.seam
        /\ c + 3 <= e => /\ stream.bytes[c + 3] \in MB!MsgTypes
                         /\ e < c + MB!MsgLen[stream.bytes[c + 3]]
    BY <1>7 DEF CutOffIn
  <2>2. c \notin Whole
    <3>1. SUFFICES ASSUME stream.bytes[c + 3] \in MB!MsgTypes,
                          e = c + MB!MsgLen[stream.bytes[c + 3]]
                   PROVE  FALSE
      BY DEF Whole, e
    <3>2. MB!MsgLen[stream.bytes[c + 3]] \in 3..18
      BY <3>1, LenOfType
    <3>3. c + 3 <= e
      <4> DEFINE L == MB!MsgLen[stream.bytes[c + 3]]
      <4>1. L \in 3..18 /\ e = c + L
        BY <3>1, <3>2
      <4> HIDE DEF L
      <4> QED
        BY <1>2, <4>1
    <3>4. e < e
      BY <2>1, <3>1, <3>3
    <3> QED
      BY <1>5, <3>4
  <2>3. c \in Torn
    BY <1>5, <2>1, <2>2 DEF Torn, e
  <2> QED
    BY <1>1, <1>2, <1>5, <2>1, <2>2, <2>3 DEF e
<1> QED
  BY <1>4, <1>6, <1>7

LEMMA TornFacts ==
  ASSUME stream \in Streams, NEW t \in Torn
  PROVE  /\ t \in stream.cuts /\ t # Len(stream.bytes) /\ t \notin Whole
         /\ t \in Nat /\ t < stream.seam /\ EndOf(t) = stream.seam /\ stream.seam \in Nat
         /\ \A x \in stream.cuts : x <= t \/ stream.seam <= x
         /\ \A u \in Torn : u = t
<1>1. \A u \in Torn : /\ u \in stream.cuts /\ u # Len(stream.bytes) /\ u \notin Whole
                      /\ u \in Nat /\ u < stream.seam /\ EndOf(u) = stream.seam
  BY StreamFacts DEF Torn
<1>2. \A u \in Torn : \A x \in stream.cuts : x <= u \/ stream.seam <= x
  BY <1>1, AtCut
<1>3. stream.seam \in Nat
  BY StreamFacts
<1>4. \A u \in Torn : u = t
  BY <1>1, <1>2, <1>3
<1> QED
  BY <1>1, <1>2, <1>3, <1>4

LEMMA OneFrameOn ==
  ASSUME NEW c \in Nat, NEW l \in 3..18
  PROVE  c + l \in Nat /\ c < c + l /\ c + l <= c + 18
OBVIOUS

LEMMA WholeFacts ==
  ASSUME stream \in Streams, NEW c \in Whole
  PROVE  /\ c \in stream.cuts /\ c # Len(stream.bytes) /\ c \in Nat
         /\ stream.bytes[c + 3] \in MB!MsgTypes
         /\ EndOf(c) = c + MB!MsgLen[stream.bytes[c + 3]]
         /\ MB!MsgLen[stream.bytes[c + 3]] \in 3..18
         /\ EndOf(c) \in stream.cuts /\ EndOf(c) \in Nat
         /\ c < EndOf(c) /\ EndOf(c) <= c + 18
         /\ \A x \in stream.cuts : x <= c \/ EndOf(c) <= x
<1>1. /\ c \in stream.cuts /\ c + 3 <= Len(stream.bytes)
      /\ stream.bytes[c + 3] \in MB!MsgTypes
      /\ EndOf(c) = c + MB!MsgLen[stream.bytes[c + 3]]
  BY DEF Whole
<1>2. c \in Nat /\ c # Len(stream.bytes)
  BY <1>1, StreamFacts
<1>3. MB!MsgLen[stream.bytes[c + 3]] \in 3..18
  BY <1>1, LenOfType
<1>4. c < EndOf(c) /\ EndOf(c) <= c + 18
  BY <1>1, <1>2, <1>3, OneFrameOn
<1> QED
  BY <1>1, <1>2, <1>3, <1>4, AtCut

\* A whole frame before the seam ends before it; the seam is a cut, or cuts one off.
LEMMA WholeSides ==
  ASSUME stream \in Streams, NEW c \in Whole, c < stream.seam
  PROVE  EndOf(c) <= stream.seam /\ \A t \in Torn : c < t
<1>1. EndOf(c) <= stream.seam
  BY WholeFacts, StreamFacts
<1>2. ASSUME NEW t \in Torn PROVE c < t
  <2>1. c \in Nat /\ t \in Nat /\ stream.seam \in Nat /\ c # t /\ (c <= t \/ stream.seam <= c)
    BY TornFacts, WholeFacts
  <2> QED
    BY <2>1
<1> QED
  BY <1>1, <1>2

\* The first cut at or behind an offset; behind the seam it is not far.
LEMMA CutAhead ==
  ASSUME stream \in Streams, NEW p \in 0..Len(stream.bytes)
  PROVE  \E e \in stream.cuts : /\ e \in Nat /\ p <= e /\ e <= Len(stream.bytes)
                                /\ \A x \in stream.cuts : x < p \/ e <= x
                                /\ stream.seam < p => e <= p + 17
<1>1. /\ stream.cuts \subseteq 0..Len(stream.bytes) /\ stream.cuts \subseteq Nat
      /\ Len(stream.bytes) \in Nat /\ stream.seam \in stream.cuts /\ p \in Nat
      /\ 0 \in stream.cuts /\ Len(stream.bytes) \in stream.cuts
  BY StreamFacts, FramesAssumption
<1> DEFINE A == {x \in stream.cuts : p <= x}
<1>2. A \in SUBSET Nat /\ A # {}
  BY <1>1
<1>3. PICK e \in A : \A x \in A : e <= x
  BY <1>2, LeastOf
<1>4. e \in stream.cuts /\ p <= e /\ \A x \in stream.cuts : x < p \/ e <= x
  BY <1>1, <1>3
<1>5. ASSUME stream.seam < p PROVE e <= p + 17
  <2> DEFINE D == {p - x : x \in {x \in stream.cuts : x <= p}}
  <2>1. D \in SUBSET Nat /\ D # {}
    BY <1>1, <1>5
  <2>2. PICK d \in D : \A y \in D : d <= y
    BY <2>1, LeastOf
  <2>3. PICK x \in stream.cuts : x <= p /\ d = p - x
    BY <2>2
  <2>4. x \in Nat /\ \A y \in stream.cuts : y <= p => y <= x
    <3>1. ASSUME NEW y \in stream.cuts, y <= p PROVE y <= x
      <4>1. d <= p - y
        BY <2>2, <3>1
      <4> QED
        BY <1>1, <2>3, <4>1
    <3> QED
      BY <1>1, <3>1
  <2>5. CASE x = Len(stream.bytes)
    BY <1>1, <1>4, <2>3, <2>4, <2>5
  <2>6. CASE x # Len(stream.bytes)
    <3>1. ~ (x < stream.seam)
      BY <1>1, <1>5, <2>4
    <3>2. x \in Whole
      BY <2>6, <3>1, AtCut
    <3>3. EndOf(x) \in stream.cuts /\ EndOf(x) \in Nat /\ EndOf(x) <= x + 18 /\ x < EndOf(x)
      BY <3>2, WholeFacts
    <3>4. p < EndOf(x)
      BY <1>1, <2>4, <3>3
    <3>5. e <= EndOf(x)
      BY <1>1, <1>4, <3>3, <3>4
    <3>6. CASE x = p
      <4>1. e <= x
        BY <1>1, <1>4, <3>6
      <4> QED
        BY <1>1, <1>4, <3>6, <4>1
    <3>7. CASE x # p
      BY <1>1, <1>4, <2>3, <2>4, <3>3, <3>5, <3>7
    <3> QED
      BY <3>6, <3>7
  <2> QED
    BY <2>5, <2>6
<1> QED
  BY <1>1, <1>4, <1>5
-----------------------------------------------------------------------------
(***************************************************************************)
(* The search.  Inductive: it stands at a cut up to the torn frame, or the *)
(* seam is behind it for good; and between two calls at most 19 bytes are  *)
(* pending, so no read makes addInput drop them.                           *)
(***************************************************************************)
At == MBP!Base + ret

Before == At \in stream.cuts /\ \A t \in Torn : At <= t
Behind == Torn # {} /\ stream.seam < At

Where ==
    /\ MBP!PendingIsSuffix
    /\ Before \/ Behind
    /\ pc = "idle" => m_len <= 19

LEMMA AtFacts ==
  ASSUME Typed
  PROVE  /\ m_len \in Nat /\ ret \in Nat /\ m_size \in Nat /\ pos \in Nat
         /\ ret <= m_len /\ m_len <= pos /\ m_len < m_size
         /\ pc = "idle" => ret = 0
         /\ MBP!Base \in Nat /\ pos = MBP!Base + m_len /\ At = MBP!Base + ret
         /\ At \in Nat /\ At <= pos
         /\ stream \in Streams /\ pos <= Len(stream.bytes) /\ Len(stream.bytes) \in Nat
<1>1. /\ m_len \in Nat /\ ret \in Nat
      /\ ret <= m_len /\ m_len <= pos /\ m_len < m_size
      /\ pc = "idle" => ret = 0
  BY DEF Typed, MBP!Bounds, MBP!TypeOK, MBP!AssertsHold
<1>2. /\ m_size \in Nat /\ pos \in Nat
      /\ stream \in Streams /\ pos <= Len(stream.bytes) /\ Len(stream.bytes) \in Nat
  BY TypedFacts, BufferAssumption
<1>3. MBP!Base = pos - m_len
  BY DEF MBP!Base
<1>4. MBP!Base \in Nat /\ pos = MBP!Base + m_len
  BY <1>1, <1>2, <1>3
<1>5. At = MBP!Base + ret
  BY DEF At
<1>6. At \in Nat /\ At <= pos
  BY <1>1, <1>4, <1>5
<1> QED
  BY <1>1, <1>2, <1>4, <1>5, <1>6

\* Behind a torn frame a begin byte is where a frame begins, if the stream is plain.
LEMMA PlainBehind ==
  ASSUME Typed, Plain, Behind, NEW x \in Nat, At <= x, x < Len(stream.bytes),
         stream.bytes[x + 1] = MB!MSG_BEGIN
  PROVE  x \in stream.cuts
<1>1. /\ At \in Nat /\ stream.seam \in Nat /\ stream.seam < At /\ Torn # {}
      /\ Len(stream.bytes) \in Nat
  BY AtFacts, StreamFacts DEF Behind
<1>2. x + 1 \in stream.seam + 1..Len(stream.bytes) /\ (x + 1) - 1 = x
  BY <1>1
<1>3. (x + 1) - 1 \in stream.cuts
  BY <1>1, <1>2 DEF Plain
<1> QED
  BY <1>2, <1>3

\* No cut lies between the search and the begin byte it finds, which is a cut itself
\* before the torn frame, and behind it where the stream is plain.
LEMMA Finds ==
  ASSUME Typed, Where, NEW i \in MBP!MsgStart(ret)
  PROVE  /\ i \in Nat /\ i + 3 <= m_len
         /\ Before \/ Plain => MBP!Base + i \in stream.cuts
         /\ MBP!Base + i # Len(stream.bytes)
         /\ MBP!Base + i \in Nat /\ At <= MBP!Base + i /\ MBP!Base + i + 3 <= pos
         /\ MBP!Base + i = At => i = ret
         /\ \A x \in stream.cuts : x < At \/ MBP!Base + i <= x
         /\ \A n \in 1..3 : m_buf[i + n - 1] = stream.bytes[MBP!Base + i + n]
<1> DEFINE c == MBP!Base + i
<1>0. /\ m_len \in Nat /\ ret \in Nat /\ pos \in Nat /\ ret <= m_len
      /\ MBP!Base \in Nat /\ pos = MBP!Base + m_len /\ At = MBP!Base + ret /\ At \in Nat
      /\ Len(stream.bytes) \in Nat /\ pos <= Len(stream.bytes) /\ stream \in Streams
  BY AtFacts
<1>1. /\ i \in Nat /\ ret <= i /\ i + 3 <= m_len /\ m_buf[i] = MBP!MSG_BEGIN
      /\ \A j \in ret..i - 1 : m_buf[j] # MBP!MSG_BEGIN
  BY AtFacts DEF MBP!MsgStart
<1>2. c \in Nat /\ At <= c /\ c + 3 <= pos /\ (c = At => i = ret)
  BY <1>1, AtFacts
<1>3. \A j \in 0..m_len - 1 : m_buf[j] = stream.bytes[MBP!Base + j + 1]
  BY DEF Where, MBP!PendingIsSuffix
<1>4. \A n \in 1..3 : m_buf[i + n - 1] = stream.bytes[c + n]
  <2> SUFFICES ASSUME NEW n \in 1..3 PROVE m_buf[i + n - 1] = stream.bytes[c + n]
    OBVIOUS
  <2>1. i + n - 1 \in 0..m_len - 1 /\ MBP!Base + (i + n - 1) + 1 = c + n
    BY <1>0, <1>1
  <2> QED
    BY <1>3, <2>1
<1>5. stream.bytes[c + 1] = MB!MSG_BEGIN /\ c + 1 \in 1..Len(stream.bytes)
  <2>1. m_buf[i + 1 - 1] = stream.bytes[c + 1] /\ i + 1 - 1 = i
    BY <1>1, <1>4
  <2> QED
    BY <1>0, <1>1, <1>2, <2>1, SameTypes
<1>6. (Before \/ Plain => c \in stream.cuts) /\ c # Len(stream.bytes)
  <2>1. c # Len(stream.bytes) /\ c \in Nat /\ c < Len(stream.bytes)
    BY <1>0, <1>2
  <2>2. CASE Before
    <3>1. At \in stream.cuts /\ At <= c /\ At # Len(stream.bytes)
      BY <1>0, <1>2, <2>1, <2>2 DEF Before
    <3>2. stream.bytes[At + 1] = MB!MSG_BEGIN
      BY <1>0, <3>1, AtCut
    <3>3. ret \in 0..m_len - 1 /\ MBP!Base + ret + 1 = At + 1
      BY <1>0, <1>1
    <3>4. m_buf[ret] = MBP!MSG_BEGIN
      BY <1>3, <3>2, <3>3, SameTypes
    <3>5. i = ret
      <4>1. ~ (ret < i)
        BY <1>0, <1>1, <3>4
      <4> QED
        BY <1>0, <1>1, <4>1
    <3>6. c = At
      BY <1>0, <3>5
    <3> QED
      BY <2>1, <3>1, <3>6
  <2>3. CASE Behind /\ ~ Before
    <3>1. At <= c
      BY <1>2
    <3> QED
      BY <1>5, <2>1, <2>3, <3>1, PlainBehind
  <2> QED
    BY <2>2, <2>3 DEF Where
<1>7. ASSUME NEW x \in stream.cuts, ~ (x < At), ~ (c <= x)
      PROVE  FALSE
  <2>1. x \in Nat /\ x # Len(stream.bytes) /\ stream.bytes[x + 1] = MB!MSG_BEGIN
    <3>1. x \in Nat
      BY <1>0, StreamFacts
    <3>2. x # Len(stream.bytes)
      BY <1>0, <1>2, <1>7, <3>1
    <3> QED
      BY <1>0, <3>1, <3>2, AtCut
  <2> DEFINE j == x - MBP!Base
  <2>2. j \in ret..i - 1 /\ j \in 0..m_len - 1 /\ MBP!Base + j + 1 = x + 1
    BY <1>0, <1>1, <1>2, <1>7, <2>1
  <2>3. m_buf[j] = MBP!MSG_BEGIN
    BY <1>3, <2>1, <2>2, SameTypes
  <2> QED
    BY <1>1, <2>2, <2>3
<1> QED
  BY <1>1, <1>2, <1>4, <1>6, <1>7

\* And a cut whose header has arrived is found, if it is the first one ahead.
LEMMA Found ==
  ASSUME Typed, Where, Before \/ Plain, NEW c \in stream.cuts, At <= c, c + 3 <= pos,
         \A x \in stream.cuts : x < At \/ c <= x
  PROVE  c - MBP!Base \in MBP!MsgStart(ret)
<1> DEFINE i == c - MBP!Base
<1>0. /\ m_len \in Nat /\ ret \in Nat /\ pos \in Nat /\ ret <= m_len
      /\ MBP!Base \in Nat /\ pos = MBP!Base + m_len /\ At = MBP!Base + ret /\ At \in Nat
      /\ Len(stream.bytes) \in Nat /\ pos <= Len(stream.bytes) /\ stream \in Streams
  BY AtFacts
<1>1. c \in Nat /\ c # Len(stream.bytes) /\ stream.bytes[c + 1] = MB!MSG_BEGIN
  <2>1. c \in Nat
    BY <1>0, StreamFacts
  <2>2. c # Len(stream.bytes)
    BY <1>0, <2>1
  <2> QED
    BY <1>0, <2>1, <2>2, AtCut
<1>2. \A j \in 0..m_len - 1 : m_buf[j] = stream.bytes[MBP!Base + j + 1]
  BY DEF Where, MBP!PendingIsSuffix
<1>3. i \in ret..m_len - 3 /\ i \in 0..m_len - 1 /\ MBP!Base + i + 1 = c + 1
  BY <1>1, AtFacts, SMTT(30)
<1>4. m_buf[i] = MBP!MSG_BEGIN
  BY <1>1, <1>2, <1>3, SameTypes
<1>5. ASSUME NEW j \in ret..i - 1, m_buf[j] = MBP!MSG_BEGIN
      PROVE  FALSE
  <2> DEFINE x == MBP!Base + j
  <2>1. j \in 0..m_len - 1 /\ x \in Nat /\ At <= x /\ x < c
    BY <1>0, <1>1, <1>3
  <2>2. stream.bytes[x + 1] = MB!MSG_BEGIN /\ x + 1 \in 1..Len(stream.bytes)
    BY <1>0, <1>1, <1>2, <1>5, <2>1, SameTypes
  <2>3. CASE Before
    <3>1. At \in stream.cuts
      BY <2>3 DEF Before
    <3>2. c <= At
      BY <1>0, <3>1
    <3> QED
      BY <1>0, <1>1, <2>1, <3>2
  <2>4. CASE Behind /\ Plain
    <3>1. x < Len(stream.bytes)
      <4>1. x \in Nat /\ Len(stream.bytes) \in Nat /\ x + 1 \in 1..Len(stream.bytes)
        BY <1>0, <2>1, <2>2
      <4> QED
        BY <4>1, SMTT(30)
    <3>2. x \in stream.cuts
      BY <2>1, <2>2, <2>4, <3>1, PlainBehind
    <3>3. ~ (x < At) /\ ~ (c <= x)
      BY <1>0, <1>1, <2>1
    <3> QED
      BY <3>2, <3>3
  <2> QED
    BY <2>3, <2>4 DEF Where
<1> QED
  BY <1>3, <1>4, <1>5 DEF MBP!MsgStart

\* What the search takes a message to be: one that was sent whole, the torn one, or
\* anything that begins with a begin byte behind it.
LEMMA FindsFrame ==
  ASSUME Typed, Where, NEW i \in MBP!MsgStart(ret)
  PROVE  LET c == MBP!Base + i IN
         /\ m_buf[i + 2] = stream.bytes[c + 3]
         /\ \/ /\ c \in Whole /\ MBP!Known(i)
               /\ (Before /\ c = At) \/ (Behind /\ stream.seam < c)
            \/ /\ c \in Torn /\ Before /\ c = At
               /\ MBP!Known(i) => stream.seam < c + MB!MsgLen[stream.bytes[c + 3]]
               /\ ~ MBP!Known(i) => stream.seam < pos
            \/ ~ Plain /\ Behind /\ stream.seam < c
<1> DEFINE c == MBP!Base + i
<1>1. /\ i \in Nat /\ c # Len(stream.bytes) /\ c \in Nat
      /\ At <= c /\ c + 3 <= pos /\ stream \in Streams /\ pos \in Nat /\ At \in Nat
      /\ stream.seam \in Nat
      /\ \A x \in stream.cuts : x < At \/ c <= x
      /\ Before \/ Plain => c \in stream.cuts
  BY Finds, AtFacts, StreamFacts
<1>2. m_buf[i + 2] = stream.bytes[c + 3]
  <2>1. \A n \in 1..3 : m_buf[i + n - 1] = stream.bytes[c + n]
    BY Finds
  <2>2. m_buf[i + 3 - 1] = stream.bytes[c + 3] /\ i + 3 - 1 = i + 2
    BY <1>1, <2>1
  <2> QED
    BY <2>2
<1>3. MBP!Known(i) <=> stream.bytes[c + 3] \in MB!MsgTypes
  BY <1>2, SameTypes DEF MBP!Known
<1>4. Before => c = At
  BY <1>1 DEF Before
<1>5. Behind => stream.seam < c
  BY <1>1 DEF Behind
<1>6. CASE c \in Whole
  <2>1. MBP!Known(i)
    BY <1>1, <1>3, <1>6, WholeFacts
  <2> QED
    BY <1>2, <1>4, <1>5, <1>6, <2>1 DEF Where
<1>7. CASE c \notin Whole /\ c \in stream.cuts
  <2>1. /\ c \in Torn /\ c < stream.seam
        /\ c + 3 <= stream.seam => /\ stream.bytes[c + 3] \in MB!MsgTypes
                                   /\ stream.seam < c + MB!MsgLen[stream.bytes[c + 3]]
    BY <1>1, <1>7, AtCut
  <2>2. Before /\ c = At
    BY <1>1, <1>4, <2>1 DEF Where, Behind
  <2>3. ASSUME MBP!Known(i)
        PROVE  stream.seam < c + MB!MsgLen[stream.bytes[c + 3]]
    <3> DEFINE L == MB!MsgLen[stream.bytes[c + 3]]
    <3>1. L \in 3..18
      BY <1>3, <2>3, LenOfType
    <3>2. c + 3 <= stream.seam => stream.seam < c + L
      BY <2>1
    <3> HIDE DEF L, c
    <3>3. stream.seam < c + L
      BY <1>1, <3>1, <3>2
    <3> QED
      BY <3>3 DEF L, c
  <2>4. ASSUME ~ MBP!Known(i)
        PROVE  stream.seam < pos
    BY <1>1, <1>3, <2>1, <2>4
  <2> QED
    BY <1>2, <2>1, <2>2, <2>3, <2>4
<1>8. CASE c \notin stream.cuts
  BY <1>1, <1>2, <1>5, <1>8 DEF Where
<1> QED
  BY <1>6, <1>7, <1>8

\* The ways a message is posted: a frame sent whole, the torn one with what comes
\* behind the seam, a frame found again behind it, or from amid one there.
PostedFrame(c) ==
    Before /\ c = At /\ c \in Whole /\ At' = EndOf(c)
PostedTorn(c) ==
    Before /\ c = At /\ c \in Torn /\ stream.seam < At'
           /\ At' = c + MB!MsgLen[stream.bytes[c + 3]]
PostedBehind(c) ==
    Behind /\ c \in Whole /\ stream.seam < c
           /\ At' = At + (EndOf(c) - c)
PostedAmid(c) ==
    ~ Plain /\ Behind /\ stream.seam < c

LEMMA PostCases ==
  ASSUME Typed, Where, NEW i \in MBP!MsgStart(ret), MBP!PostMsg(i)
  PROVE  LET c == MBP!Base + i IN
         /\ c \in Nat /\ At <= c /\ c + 3 <= pos
         /\ At \in Nat /\ At' \in Nat /\ At < At' /\ At + 3 <= At' /\ At' <= pos
         /\ \A x \in stream.cuts : x < At \/ c <= x
         /\ stream.bytes[c + 3] \in MB!MsgTypes
         /\ posted' = Append(posted, [at |-> c, msg |-> MBP!Copy(i)])
         /\ Len(MBP!Copy(i)) = MB!MsgLen[stream.bytes[c + 3]]
         /\ SubSeq(MBP!Copy(i), 1, 3) = SubSeq(stream.bytes, c + 1, c + 3)
         /\ MBP!Copy(i)[3] = stream.bytes[c + 3]
         /\ \/ /\ PostedFrame(c)
               /\ MBP!Copy(i) = SubSeq(stream.bytes, c + 1, EndOf(c))
            \/ PostedTorn(c)
            \/ PostedBehind(c)
            \/ PostedAmid(c)
<1> DEFINE c == MBP!Base + i
           L == MB!MsgLen[stream.bytes[c + 3]]
<1>1. /\ i \in Nat /\ i + 3 <= m_len
      /\ c \in Nat /\ At <= c /\ c + 3 <= pos /\ (c = At => i = ret)
      /\ \A x \in stream.cuts : x < At \/ c <= x
      /\ \A n \in 1..3 : m_buf[i + n - 1] = stream.bytes[c + n]
  BY Finds
<1>2. /\ m_len \in Nat /\ ret \in Nat /\ pos \in Nat /\ ret <= m_len /\ m_size \in Nat
      /\ m_len < m_size
      /\ MBP!Base \in Nat /\ pos = MBP!Base + m_len /\ At = MBP!Base + ret /\ At \in Nat
      /\ stream \in Streams
  BY AtFacts
<1>3. /\ m_buf[i + 2] = stream.bytes[c + 3] /\ MBP!Known(i) /\ MBP!Enough(ret, i)
      /\ posted' = Append(posted, [at |-> c, msg |-> MBP!Copy(i)])
      /\ ret' = ret + L /\ UNCHANGED <<m_buf, m_len, stream, pos>>
  BY FindsFrame, SameTypes DEF MBP!PostMsg
<1>4. stream.bytes[c + 3] \in MB!MsgTypes /\ L \in 3..18 /\ ret + L <= m_len
  <2>1. stream.bytes[c + 3] \in MB!MsgTypes /\ L \in 3..18
    BY <1>3, SameTypes, LenOfType DEF MBP!Known
  <2>2. L <= m_len - ret
    BY <1>3, SameTypes DEF MBP!Enough
  <2> HIDE DEF L
  <2>3. ret + L <= m_len
    BY <1>2, <2>1, <2>2
  <2> QED
    BY <2>1, <2>3
<1>5. /\ MBP!Copy(i) \in Seq(MBP!Byte \union {MBP!Unreceived}) /\ Len(MBP!Copy(i)) = L
      /\ \A n \in 1..L : i + n - 1 \in MBP!Index => MBP!Copy(i)[n] = m_buf[i + n - 1]
  <2>1. MBP!TypeOK
    BY DEF Typed, MBP!Bounds
  <2>2. /\ MBP!Copy(i) \in Seq(MBP!Byte \union {MBP!Unreceived})
        /\ Len(MBP!Copy(i)) = MBP!MsgLen[m_buf[i + 2]]
        /\ \A n \in 1..Len(MBP!Copy(i)) :
               i + n - 1 \in MBP!Index => MBP!Copy(i)[n] = m_buf[i + n - 1]
    BY <1>1, <1>3, <2>1, BufferAssumed, MBP!CopyType
  <2>3. MBP!MsgLen[m_buf[i + 2]] = L
    BY <1>3, SameTypes
  <2> HIDE DEF L
  <2> QED
    BY <2>2, <2>3
<1>6. /\ SubSeq(MBP!Copy(i), 1, 3) = SubSeq(stream.bytes, c + 1, c + 3)
      /\ MBP!Copy(i)[3] = stream.bytes[c + 3]
  <2> DEFINE m == MBP!Copy(i)
             s == SubSeq(m, 1, 3)
             b == SubSeq(stream.bytes, c + 1, c + 3)
             A == MBP!Byte \union {MBP!Unreceived}
  <2>1. m \in Seq(A) /\ 3 <= Len(m) /\ Len(m) \in Nat
    BY <1>4, <1>5, SMTT(30)
  <2>2. \A n \in 1..3 : m[n] = stream.bytes[c + n]
    <3> SUFFICES ASSUME NEW n \in 1..3 PROVE m[n] = stream.bytes[c + n]
      OBVIOUS
    <3>1. n \in 1..L
      BY <1>4
    <3>2. i + n - 1 \in MBP!Index
      <4>1. i \in Nat /\ i + 3 <= m_len
        BY <1>1
      <4> QED
        BY <1>2, <4>1 DEF MBP!Index
    <3> QED
      BY <1>1, <1>5, <3>1, <3>2
  <2>3. \A n \in 1..3 : m[n] \in A
    BY <2>1, ElementOfSeq
  <2>4. s \in Seq(A) /\ Len(s) = 3 /\ \A n \in 1..3 : s[n] = m[n]
    <3> HIDE DEF m, A
    <3>1. \A x \in 1..3 : m[x] \in A
      BY <2>3
    <3>2. /\ s \in Seq(A) /\ Len(s) = IF 1 <= 3 THEN 3 - 1 + 1 ELSE 0
          /\ \A n \in 1..3 - 1 + 1 : s[n] = m[1 + n - 1]
      BY <2>1, <3>1, SubSeqProperties
    <3> QED
      BY <3>2
  <2>5. b \in Seq(A) /\ Len(b) = 3 /\ \A n \in 1..3 : b[n] = stream.bytes[c + n]
    <3>1. \A x \in c + 1..c + 3 : stream.bytes[x] \in A
      <4> SUFFICES ASSUME NEW x \in c + 1..c + 3 PROVE stream.bytes[x] \in A
        OBVIOUS
      <4>1. x - c \in 1..3 /\ c + (x - c) = x
        BY <1>1
      <4> QED
        BY <2>2, <2>3, <4>1
    <3> HIDE DEF c, A
    <3>2. /\ b \in Seq(A) /\ Len(b) = IF c + 1 <= c + 3 THEN (c + 3) - (c + 1) + 1 ELSE 0
          /\ \A n \in 1..(c + 3) - (c + 1) + 1 : b[n] = stream.bytes[(c + 1) + n - 1]
      BY <1>1, <3>1, SubSeqProperties
    <3>3. \A n \in 1..3 : (c + 1) + n - 1 = c + n
      BY <1>1
    <3> QED
      BY <1>1, <3>2, <3>3
  <2>6. \A n \in 1..3 : s[n] = b[n]
    BY <2>2, <2>4, <2>5
  <2> HIDE DEF s, b, A
  <2>7. s = b
    BY <2>4, <2>5, <2>6, SeqEqual
  <2>8. MBP!Copy(i)[3] = stream.bytes[c + 3]
    BY <2>2
  <2> QED
    BY <2>7, <2>8 DEF s, b
<1>7. At' = At + L
  <2>1. L \in Nat /\ ret' = ret + L /\ m_len' = m_len /\ pos' = pos
    BY <1>3, <1>4, SMTT(30)
  <2> HIDE DEF L
  <2> QED
    BY <1>2, <2>1 DEF At, MBP!Base
<1>8. At' \in Nat /\ At < At' /\ At + 3 <= At' /\ At' <= pos
  <2> HIDE DEF L
  <2>1. At' = MBP!Base + (ret + L)
    BY <1>2, <1>4, <1>7
  <2> QED
    BY <1>2, <1>4, <1>7, <2>1
<1>9. \/ PostedFrame(c) /\ MBP!Copy(i) = SubSeq(stream.bytes, c + 1, EndOf(c))
      \/ PostedTorn(c) \/ PostedBehind(c) \/ PostedAmid(c)
  <2>1. CASE c \in Whole /\ Before /\ c = At
    <3>1. EndOf(c) = c + L /\ i = ret
      BY <1>1, <1>2, <2>1, WholeFacts
    <3>2. MBP!Copy(i) = SubSeq(stream.bytes, c + 1, c + L)
      <4>1. i + MBP!MsgLen[m_buf[i + 2]] <= m_len
        BY <1>3, <1>4, <3>1, SameTypes
      <4>2. MBP!Bounds /\ MBP!PendingIsSuffix
        BY DEF Typed, Where
      <4>3. MBP!Copy(i) = SubSeq(stream.bytes, MBP!Base + i + 1,
                                 MBP!Base + i + MBP!MsgLen[m_buf[i + 2]])
        BY <1>1, <1>3, <4>1, <4>2, BufferAssumed, MBP!CopyReceived
      <4> QED
        BY <1>3, <4>3, SameTypes
    <3> QED
      BY <1>7, <2>1, <3>1, <3>2 DEF PostedFrame
  <2>2. CASE c \in Whole /\ Behind /\ stream.seam < c
    <3>1. EndOf(c) = c + L
      BY <1>2, <2>2, WholeFacts
    <3> HIDE DEF L, c
    <3>2. EndOf(c) - c = L
      BY <1>1, <1>4, <3>1
    <3> QED
      BY <1>7, <2>2, <3>2 DEF PostedBehind
  <2>3. CASE c \in Torn /\ Before /\ c = At /\ stream.seam < c + L
    BY <1>7, <2>3 DEF PostedTorn
  <2>4. CASE ~ Plain /\ Behind /\ stream.seam < c
    BY <2>4 DEF PostedAmid
  <2> QED
    BY <1>3, <2>1, <2>2, <2>3, <2>4, FindsFrame
<1> QED
  BY <1>1, <1>2, <1>3, <1>4, <1>5, <1>6, <1>8, <1>9

\* Only the torn frame's header, completed by what comes behind the seam, can be of
\* a type that getMsg does not know, or one that begins amid a payload behind it.
LEMMA DiscardsTorn ==
  ASSUME Typed, Where, NEW i \in MBP!MsgStart(ret), MBP!GetMsgUnknown(i)
  PROVE  (Before /\ At \in Torn /\ stream.seam < pos) \/ Behind
  BY FindsFrame DEF MBP!GetMsgUnknown

LEMMA NeverOverflows ==
  ASSUME Typed, Where
  PROVE  pc = "idle" => ~ MBP!AddInputOverflow(got)
<1>1. /\ m_size \in Nat /\ MaxChunk \in Nat /\ MaxChunk + 19 < m_size
      /\ got \in Nat /\ got <= MaxChunk /\ m_len \in Nat
  BY BufferAssumption, TypedFacts, AtFacts
<1>2. pc = "idle" => m_len <= 19
  BY DEF Where
<1> QED
  BY <1>1, <1>2 DEF MBP!AddInputOverflow, MBP!Fits

\* Where getMsg leaves off at most 19 bytes are pending.
LEMMA FewPending ==
  ASSUME Typed, Where, MBP!GetMsgDone
  PROVE  m_len - ret <= 19
<1>1. /\ m_len \in Nat /\ ret \in Nat /\ pos \in Nat /\ ret <= m_len
      /\ MBP!Base \in Nat /\ pos = MBP!Base + m_len /\ At = MBP!Base + ret /\ At \in Nat
      /\ At <= pos
      /\ Len(stream.bytes) \in Nat /\ pos <= Len(stream.bytes) /\ stream \in Streams
  BY AtFacts
<1>2. At \in 0..Len(stream.bytes)
  BY <1>1
<1>3. PICK e \in stream.cuts : /\ e \in Nat /\ At <= e
                               /\ \A x \in stream.cuts : x < At \/ e <= x
                               /\ stream.seam < At => e <= At + 17
  BY <1>1, <1>2, CutAhead
<1>4. e <= At + 17
  <2>1. CASE Before
    <3>1. ~ (At < At)
      BY <1>1
    <3>2. e <= At
      BY <1>3, <2>1, <3>1 DEF Before
    <3> QED
      BY <1>1, <1>3, <3>2
  <2>2. CASE Behind
    BY <1>3, <2>2 DEF Behind
  <2> QED
    BY <2>1, <2>2 DEF Where
<1>5. CASE pos < e + 3
  BY <1>1, <1>3, <1>4, <1>5
<1>6. CASE e + 3 <= pos
  <2> DEFINE T == {j \in ret..m_len - 3 : m_buf[j] = MBP!MSG_BEGIN}
  <2>a. e - MBP!Base \in T
    <3>1. /\ e # Len(stream.bytes) /\ e - MBP!Base \in ret..m_len - 3
          /\ e - MBP!Base \in 0..m_len - 1 /\ MBP!Base + (e - MBP!Base) + 1 = e + 1
      BY <1>1, <1>3, <1>6
    <3>2. stream.bytes[e + 1] = MB!MSG_BEGIN
      BY <1>1, <1>3, <3>1, AtCut
    <3>3. \A j \in 0..m_len - 1 : m_buf[j] = stream.bytes[MBP!Base + j + 1]
      BY DEF Where, MBP!PendingIsSuffix
    <3> QED
      BY <3>1, <3>2, <3>3, SameTypes
  <2>b. T \in SUBSET Nat
    BY <1>1
  <2>c. PICK i \in T : \A j \in T : i <= j
    BY <2>a, <2>b, LeastOf
  <2>1. i \in MBP!MsgStart(ret)
    BY <1>1, <2>c DEF MBP!MsgStart
  <2>2. MBP!Known(i) /\ ~ MBP!Enough(ret, i)
    BY <2>1 DEF MBP!GetMsgDone
  <2>3. MBP!MsgLen[m_buf[i + 2]] \in 3..18
    BY <2>2, SameTypes, LenOfType DEF MBP!Known
  <2> DEFINE L == MBP!MsgLen[m_buf[i + 2]]
  <2>4. L \in 3..18 /\ ~ (L <= m_len - ret)
    BY <2>2, <2>3 DEF MBP!Enough
  <2> HIDE DEF L
  <2> QED
    BY <1>1, <2>4
<1> QED
  BY <1>1, <1>3, <1>5, <1>6

LEMMA StreamStays == [Next]_vars => UNCHANGED stream
<1> SUFFICES ASSUME [Next]_vars PROVE UNCHANGED stream
  OBVIOUS
<1>1. CASE AddInput
  BY <1>1 DEF AddInput, MB!AddInputAppend, MB!AddInputOverflow
<1>2. CASE Scan
  BY <1>2, ScanStep
<1> QED
  BY <1>1, <1>2 DEF Next, OpenRefused, OpenDevice, Configured, NotConfigured, OpenBoxClosed,
     Close, OnUserThreadend, Run, GetHand, Read, ReadPends, ReadNothing, vars, buffer

LEMMA InitWhere == Init => Where
<1> SUFFICES ASSUME Init PROVE Where
  OBVIOUS
<1>1. MBP!PendingIsSuffix /\ Typed
  BY BufferAssumed, InitTyped, MBP!InitPending DEF Init, MB!Init, MBP!Init, MB!Index, MBP!Index,
     MB!Unreceived, MBP!Unreceived
<1>2. At = 0 /\ 0 \in stream.cuts /\ stream \in Streams
  <2>1. pos = 0 /\ m_len = 0 /\ ret = 0
    BY DEF Init, MB!Init
  <2> QED
    BY <1>1, <2>1, AtFacts, FramesAssumption
<1>3. \A t \in Torn : 0 <= t
  BY <1>2, TornFacts
<1>4. m_len <= 19
  BY DEF Init, MB!Init
<1> QED
  BY <1>1, <1>2, <1>3, <1>4 DEF Where, Before

LEMMA NextWhere == Typed /\ Where /\ [Next]_vars => Where'
<1> SUFFICES ASSUME Typed, Where, [Next]_vars PROVE Where'
  OBVIOUS
<1>1. MBP!PendingIsSuffix'
  BY BufferNext, BufferAssumed, MBP!NextPending DEF Typed, Where
<1>2. stream' = stream /\ Torn' = Torn
  BY StreamStays DEF Torn, Whole, EndOf
<1>3. CASE AddInput
  <2>1. MBP!AddInputAppend(got) /\ pc = "idle"
    BY <1>3, AddInputStep, NeverOverflows, TypedFacts
  <2>2. At' = At /\ pc' = "scan"
    <3>1. pos' = pos + got /\ m_len' = m_len + got /\ ret' = 0 /\ ret = 0 /\ pc' = "scan"
      BY <2>1, AtFacts DEF MBP!AddInputAppend
    <3>2. got \in Nat /\ m_len \in Nat /\ pos \in Nat
      BY TypedFacts, AtFacts
    <3> QED
      BY <3>1, <3>2 DEF At, MBP!Base
  <2> QED
    BY <1>1, <1>2, <2>2 DEF Where, Before, Behind
<1>4. CASE Scan
  <2>1. ASSUME NEW i \in MBP!MsgStart(ret), MBP!PostMsg(i)
        PROVE  Where'
    <3> DEFINE c == MBP!Base + i
    <3>1. \/ PostedFrame(c) \/ PostedTorn(c) \/ PostedBehind(c) \/ PostedAmid(c)
      BY <2>1, PostCases
    <3>2. pc' = "scan" /\ At \in Nat /\ At' \in Nat /\ At < At' /\ stream \in Streams
      BY <2>1, PostCases, AtFacts DEF MBP!PostMsg
    <3> HIDE DEF c
    <3>3. CASE PostedFrame(c)
      <4>1. At' \in stream.cuts
        BY <3>2, <3>3, WholeFacts DEF PostedFrame
      <4>2. ASSUME NEW t \in Torn PROVE At' <= t
        <5>1. t \in stream.cuts /\ t \notin Whole /\ t \in Nat
          BY <3>2, TornFacts
        <5>2. c = At /\ At' = EndOf(c) /\ c <= t /\ c \in Whole /\ c # t
          BY <3>3, <5>1 DEF PostedFrame, Before
        <5>3. t <= c \/ EndOf(c) <= t
          BY <3>2, <5>1, <5>2, WholeFacts
        <5> QED
          BY <3>2, <5>1, <5>2, <5>3
      <4> QED
        BY <1>1, <1>2, <3>2, <4>1, <4>2 DEF Where, Before
    <3>4. CASE PostedTorn(c)
      BY <1>1, <1>2, <3>2, <3>4 DEF Where, Behind, PostedTorn
    <3>5. CASE PostedBehind(c) \/ PostedAmid(c)
      <4>1. stream.seam \in Nat /\ stream.seam < At /\ Torn # {}
        BY <3>2, <3>5, StreamFacts DEF PostedBehind, PostedAmid, Behind
      <4>2. stream.seam < At'
        BY <3>2, <4>1
      <4> QED
        BY <1>1, <1>2, <3>2, <4>1, <4>2 DEF Where, Behind
    <3> QED
      BY <3>1, <3>3, <3>4, <3>5
  <2>2. ASSUME NEW i \in MBP!MsgStart(ret), MBP!GetMsgUnknown(i)
        PROVE  Where'
    <3>1. Torn # {} /\ stream.seam < pos
      <4>1. At \in Nat /\ pos \in Nat /\ At <= pos /\ stream.seam \in Nat
        BY AtFacts, StreamFacts
      <4> QED
        BY <2>2, <4>1, DiscardsTorn DEF Behind
    <3>2. At' = pos
      <4>1. m_len' = 0 /\ ret' = 0 /\ pos' = pos
        BY <2>2 DEF MBP!GetMsgUnknown
      <4> QED
        BY <4>1, AtFacts DEF At, MBP!Base
    <3>3. m_len' <= 19
      BY <2>2 DEF MBP!GetMsgUnknown
    <3> QED
      BY <1>1, <1>2, <3>1, <3>2, <3>3 DEF Where, Behind
  <2>3. CASE MBP!GetMsgDone
    <3>1. m_len' = m_len - ret /\ ret' = 0 /\ pos' = pos
      BY <2>3 DEF MBP!GetMsgDone
    <3>2. At' = At
      BY <3>1, AtFacts DEF At, MBP!Base
    <3>3. m_len' <= 19
      BY <2>3, <3>1, FewPending
    <3> QED
      BY <1>1, <1>2, <3>2, <3>3 DEF Where, Before, Behind
  <2> QED
    BY <1>4, <2>1, <2>2, <2>3, ScanStep
<1>5. CASE ~ AddInput /\ ~ Scan
  <2>1. UNCHANGED <<m_len, pc, ret, pos>>
    BY <1>5 DEF Next, OpenRefused, OpenDevice, Configured, NotConfigured, OpenBoxClosed, Close,
       OnUserThreadend, Run, GetHand, Read, ReadPends, ReadNothing, vars, buffer
  <2>2. At' = At
    BY <2>1 DEF At, MBP!Base
  <2> QED
    BY <1>1, <1>2, <2>1, <2>2 DEF Where, Before, Behind
<1> QED
  BY <1>3, <1>4, <1>5
-----------------------------------------------------------------------------
(***************************************************************************)
(* What was posted, and what was not.  Inductive, with Where: every whole  *)
(* frame behind the search was posted or is excused, and messages begin    *)
(* where frames do, but for one at the torn frame and, in a stream that is *)
(* not plain, those behind it.                                             *)
(***************************************************************************)
HeaderOwn(n) ==
    /\ posted[n].at \in Whole
    /\ SubSeq(posted[n].msg, 1, 3) =
           SubSeq(stream.bytes, posted[n].at + 1, posted[n].at + 3)

Amid(n) == ~ Plain /\ stream.seam < posted[n].at

Sound ==
    \A n \in 1..Len(posted) :
        /\ HeaderOwn(n) \/ (posted[n].at \in Torn /\ Joins(n) /\ Behind) \/ (Amid(n) /\ Behind)
        /\ posted[n].at < At \/ Behind

TornOnce ==
    \A a, b \in 1..Len(posted) : posted[a].at \in Torn /\ posted[b].at \in Torn => a = b

Early(n) == \A t \in Torn : posted[n].at < t

Exact ==
    \A n \in 1..Len(posted) : Early(n) =>
        /\ posted[n].at < At
        /\ posted[n].msg = SubSeq(stream.bytes, posted[n].at + 1, EndOf(posted[n].at))
        /\ \A c \in Whole : c < posted[n].at => \E k \in 1..n - 1 : posted[k].at = c
        /\ \A k \in 1..Len(posted) \ {n} : posted[k].at # posted[n].at

Kept ==
    /\ lostTo <= pos
    /\ \A c \in Whole : c < At => Excused(c) \/ \E n \in 1..Len(posted) : posted[n].at = c

Shown == Sound /\ TornOnce /\ Exact /\ Kept

LEMMA SameStream ==
  ASSUME UNCHANGED stream
  PROVE  Whole' = Whole /\ Torn' = Torn /\ (Plain' <=> Plain) /\ \A c : EndOf(c)' = EndOf(c)
  BY DEF Whole, Torn, EndOf, Plain

LEMMA ExcusedStays ==
  ASSUME UNCHANGED stream, lostTo \in Nat, lostTo' \in Nat, lostTo <= lostTo',
         NEW c \in Nat, Excused(c)
  PROVE  Excused(c)'
<1>1. PICK t \in Torn :
          \/ ~ Plain
          \/ c < lostTo
          \/ stream.bytes[t + 3] \in MB!MsgTypes /\ c < t + MB!MsgLen[stream.bytes[t + 3]]
  BY DEF Excused
<1>2. c < lostTo => c < lostTo'
  OBVIOUS
<1> QED
  BY <1>1, <1>2, SameStream DEF Excused

\* Where the search stands before the torn frame, its seam lies ahead.
LEMMA BeforeOrBehind ==
  ASSUME Typed
  PROVE  /\ ~ (Before /\ Behind)
         /\ Before => \A c \in Whole : c < At => ~ Excused(c)
<1>1. stream \in Streams /\ At \in Nat
  BY AtFacts
<1>2. \A t \in Torn : t \in Nat /\ t < stream.seam /\ stream.seam \in Nat
  BY <1>1, TornFacts
<1>3. ~ (Before /\ Behind)
  BY <1>1, <1>2 DEF Before, Behind
<1>4. ASSUME Before, NEW c \in Whole, c < At, Excused(c)
      PROVE  FALSE
  <2>1. PICK t \in Torn : c >= stream.seam /\ At <= t
    BY <1>4 DEF Excused, Before
  <2>2. c \in Nat
    BY <1>1, WholeFacts
  <2> QED
    BY <1>1, <1>2, <1>4, <2>1, <2>2
<1> QED
  BY <1>3, <1>4

\* A step that posts nothing and moves the search nowhere.
LEMMA QuietShown ==
  ASSUME Typed, Typed', Shown, UNCHANGED <<stream, posted, lostTo>>, At' = At, pos <= pos'
  PROVE  Shown'
<1>1. Whole' = Whole /\ Torn' = Torn /\ \A c : EndOf(c)' = EndOf(c)
  BY SameStream
<1>2. Behind' <=> Behind
  BY <1>1 DEF Behind
<1>3. Sound'
  BY <1>1, <1>2, SameStream DEF Shown, Sound, HeaderOwn, Joins, Amid
<1>4. TornOnce'
  BY <1>1 DEF Shown, TornOnce
<1>5. Exact'
  <2>1. \A n \in 1..Len(posted) : Early(n)' <=> Early(n)
    BY <1>1 DEF Early
  <2>2. \A n \in 1..Len(posted) : EndOf(posted[n].at)' = EndOf(posted[n].at)
    BY DEF EndOf
  <2> QED
    BY <1>1, <2>1, <2>2 DEF Shown, Exact
<1>6. Kept'
  <2>1. lostTo' <= pos'
    <3>1. pos \in Nat /\ lostTo \in Nat /\ lostTo <= pos
      BY AtFacts DEF Shown, Kept, Typed, TypeOK
    <3>2. pos' \in Nat
      BY DEF Typed, TypeOK, MB!TypeOK
    <3> QED
      BY <3>1, <3>2
  <2>2. lostTo \in Nat /\ lostTo' \in Nat /\ lostTo <= lostTo'
    BY DEF Typed, TypeOK
  <2>3. \A c \in Whole : c \in Nat /\ (Excused(c) => Excused(c)')
    BY <2>2, ExcusedStays, WholeFacts, AtFacts
  <2> QED
    BY <1>1, <2>1, <2>3 DEF Shown, Kept
<1> QED
  BY <1>3, <1>4, <1>5, <1>6 DEF Shown

LEMMA Appended ==
  ASSUME Typed, Typed', Where, NEW i \in MBP!MsgStart(ret), MBP!PostMsg(i)
  PROVE  /\ Len(posted) \in Nat /\ Len(posted') = Len(posted) + 1
         /\ \A k \in 1..Len(posted) : posted'[k] = posted[k] /\ posted[k].at \in Nat
         /\ posted'[Len(posted) + 1] = [at |-> MBP!Base + i, msg |-> MBP!Copy(i)]
         /\ UNCHANGED <<stream, pos>>
<1> DEFINE S == [at : Nat, msg : Seq(MBP!Byte \union {MBP!Unreceived})]
           x == [at |-> MBP!Base + i, msg |-> MBP!Copy(i)]
<1>1. posted \in Seq(S) /\ Len(posted) \in Nat /\ \A k \in 1..Len(posted) : posted[k].at \in Nat
  BY PostedFacts
<1>2. posted' = Append(posted, x) /\ UNCHANGED <<stream, pos>>
  BY DEF MBP!PostMsg
<1>3. posted \in Seq(S \union {x}) /\ x \in S \union {x}
  BY <1>1, SeqMonotonic
<1> HIDE DEF S, x
<1>4. Len(posted') = Len(posted) + 1 /\ posted'[Len(posted) + 1] = x
      /\ \A k \in 1..Len(posted) : posted'[k] = posted[k]
  BY <1>2, <1>3, AppendProperties
<1> QED
  BY <1>1, <1>2, <1>4 DEF x

LEMMA PostShown ==
  ASSUME Typed, Typed', Where, Shown, NEW i \in MBP!MsgStart(ret), MBP!PostMsg(i),
         UNCHANGED lostTo
  PROVE  Shown'
<1>a. PICK c \in Nat : c = MBP!Base + i
  BY PostCases
<1>b. PICK N \in Nat : N = Len(posted)
  BY PostedFacts
<1>1. /\ c \in Nat /\ At <= c /\ c + 3 <= pos
      /\ At \in Nat /\ At' \in Nat /\ At < At' /\ At' <= pos
      /\ \A x \in stream.cuts : x < At \/ c <= x
      /\ stream.bytes[c + 3] \in MB!MsgTypes
      /\ Len(MBP!Copy(i)) = MB!MsgLen[stream.bytes[c + 3]]
      /\ SubSeq(MBP!Copy(i), 1, 3) = SubSeq(stream.bytes, c + 1, c + 3)
      /\ \/ PostedFrame(c) /\ MBP!Copy(i) = SubSeq(stream.bytes, c + 1, EndOf(c))
         \/ PostedTorn(c)
         \/ PostedBehind(c)
         \/ PostedAmid(c)
  BY <1>a, PostCases
<1>2. /\ N \in Nat /\ Len(posted') = N + 1
      /\ \A k \in 1..N : posted'[k] = posted[k] /\ posted[k].at \in Nat
      /\ posted'[N + 1].at = c /\ posted'[N + 1].msg = MBP!Copy(i)
      /\ UNCHANGED <<stream, pos>>
  <2>1. posted'[N + 1] = [at |-> c, msg |-> MBP!Copy(i)]
    BY <1>a, <1>b, Appended
  <2>2. posted'[N + 1].at = c /\ posted'[N + 1].msg = MBP!Copy(i)
    BY <2>1
  <2> QED
    BY <1>b, <2>2, Appended
<1>3. Whole' = Whole /\ Torn' = Torn /\ (Plain' <=> Plain) /\ \A x : EndOf(x)' = EndOf(x)
  BY <1>2, SameStream
<1>4. \A k : k \in 1..N + 1 <=> k \in 1..N \/ k = N + 1
  BY <1>2
<1>5. /\ stream \in Streams /\ stream.seam \in Nat
      /\ \A t \in Torn : /\ t \in Nat /\ t < stream.seam /\ t \notin Whole
                         /\ \A x \in stream.cuts : x <= t \/ stream.seam <= x
      /\ \A x \in Whole : x \in Nat /\ x \in stream.cuts
  BY AtFacts, StreamFacts, TornFacts, WholeFacts
<1>6. Behind => Behind'
  BY <1>1, <1>2, <1>3, <1>5 DEF Behind
<1>7. Behind' \/ (PostedFrame(c) /\ MBP!Copy(i) = SubSeq(stream.bytes, c + 1, EndOf(c)))
  <2>1. PostedTorn(c) => Behind'
    BY <1>2, <1>3 DEF PostedTorn, Behind
  <2>2. PostedBehind(c) \/ PostedAmid(c) => Behind'
    BY <1>6 DEF PostedBehind, PostedAmid
  <2> QED
    BY <1>1, <2>1, <2>2
<1>8. Sound'
  <2>1. ASSUME NEW n \in 1..N
        PROVE  /\ \/ HeaderOwn(n)'
                  \/ posted[n].at \in Torn /\ Joins(n)' /\ Behind'
                  \/ Amid(n)' /\ Behind'
               /\ posted[n].at < At' \/ Behind'
    <3>1. /\ \/ HeaderOwn(n)
             \/ posted[n].at \in Torn /\ Joins(n) /\ Behind
             \/ Amid(n) /\ Behind
          /\ posted[n].at < At \/ Behind
      BY <1>b DEF Shown, Sound
    <3>2. /\ (HeaderOwn(n)' <=> HeaderOwn(n)) /\ (Joins(n)' <=> Joins(n))
          /\ (Amid(n)' <=> Amid(n))
      BY <1>2, <1>3 DEF HeaderOwn, Joins, Amid
    <3>3. posted[n].at < At => posted[n].at < At'
      BY <1>1, <1>2
    <3> QED
      BY <1>6, <3>1, <3>2, <3>3
  <2>2. c < At' \/ Behind'
    BY <1>1, <1>7 DEF PostedFrame
  <2>3. c \in Whole => HeaderOwn(N + 1)'
    BY <1>1, <1>2, <1>3 DEF HeaderOwn
  <2>4. PostedTorn(c) => c \in Torn /\ Joins(N + 1)' /\ Behind'
    <3> SUFFICES ASSUME PostedTorn(c) PROVE c \in Torn /\ Joins(N + 1)' /\ Behind'
      OBVIOUS
    <3>1. c \in Torn /\ stream.seam < At' /\ At' = c + MB!MsgLen[stream.bytes[c + 3]]
      BY DEF PostedTorn
    <3>2. c < stream.seam /\ stream.seam < c + Len(MBP!Copy(i))
      BY <1>1, <1>5, <3>1
    <3> QED
      BY <1>2, <1>3, <3>1, <3>2 DEF Joins, Behind
  <2>5. PostedAmid(c) => Amid(N + 1)' /\ Behind'
    BY <1>2, <1>3, <1>6 DEF PostedAmid, Amid
  <2>6. c \in Whole \/ PostedTorn(c) \/ PostedAmid(c)
    BY <1>1 DEF PostedFrame, PostedBehind
  <2> QED
    BY <1>2, <1>3, <1>4, <2>1, <2>2, <2>3, <2>4, <2>5, <2>6 DEF Sound
<1>9. TornOnce'
  <2>1. ASSUME NEW k \in 1..N, posted[k].at \in Torn, c \in Torn
        PROVE  FALSE
    <3>1. Behind
      BY <1>5, <2>1, <1>b DEF Shown, Sound, HeaderOwn
    <3>2. Before
      BY <1>1, <1>5, <2>1 DEF PostedFrame, PostedTorn, PostedBehind, PostedAmid
    <3> QED
      BY <3>1, <3>2, BeforeOrBehind
  <2>2. ASSUME NEW a \in 1..N + 1, NEW b \in 1..N + 1,
               posted'[a].at \in Torn, posted'[b].at \in Torn
        PROVE  a = b
    <3>1. CASE a \in 1..N /\ b \in 1..N
      BY <1>2, <2>2, <3>1, <1>b DEF Shown, TornOnce
    <3>2. CASE a = N + 1 /\ b \in 1..N
      BY <1>2, <2>1, <2>2, <3>2
    <3>3. CASE a \in 1..N /\ b = N + 1
      BY <1>2, <2>1, <2>2, <3>3
    <3> QED
      BY <1>4, <3>1, <3>2, <3>3
  <2> QED
    BY <1>2, <1>3, <2>2 DEF TornOnce
<1>10. Exact'
  <2> DEFINE Fine(n) ==
          /\ posted'[n].at < At'
          /\ posted'[n].msg = SubSeq(stream.bytes, posted'[n].at + 1, EndOf(posted'[n].at))
          /\ \A x \in Whole : x < posted'[n].at => \E k \in 1..n - 1 : posted'[k].at = x
          /\ \A k \in 1..N + 1 \ {n} : posted'[k].at # posted'[n].at
  <2>1. ASSUME NEW n \in 1..N, \A t \in Torn : posted[n].at < t
        PROVE  Fine(n)
    <3>1. Early(n)
      BY <2>1 DEF Early
    <3>2. /\ posted[n].at < At
          /\ posted[n].msg = SubSeq(stream.bytes, posted[n].at + 1, EndOf(posted[n].at))
          /\ \A x \in Whole : x < posted[n].at => \E k \in 1..n - 1 : posted[k].at = x
          /\ \A k \in 1..N \ {n} : posted[k].at # posted[n].at
      BY <3>1, <1>b DEF Shown, Exact
    <3>3. posted[n].at \in Nat /\ posted'[n] = posted[n] /\ \A k \in 1..n - 1 : k \in 1..N
      BY <1>2
    <3>4. posted[n].at < At' /\ c # posted[n].at
      BY <1>1, <3>2, <3>3
    <3>5. \A k \in 1..N + 1 \ {n} : posted'[k].at # posted[n].at
      BY <1>2, <1>4, <3>2, <3>4
    <3>6. \A x \in Whole : x < posted[n].at => \E k \in 1..n - 1 : posted'[k].at = x
      BY <1>2, <3>2, <3>3
    <3> QED
      BY <3>2, <3>3, <3>4, <3>5, <3>6
  <2>2. ASSUME \A t \in Torn : c < t
        PROVE  Fine(N + 1)
    <3>1. PostedFrame(c) /\ MBP!Copy(i) = SubSeq(stream.bytes, c + 1, EndOf(c))
      <4>1. ~ PostedTorn(c)
        BY <1>1, <2>2 DEF PostedTorn
      <4>2. ~ PostedBehind(c) /\ ~ PostedAmid(c)
        BY <1>1, <1>5, <2>2 DEF PostedBehind, PostedAmid, Behind
      <4> QED
        BY <1>1, <4>1, <4>2
    <3>2. Before /\ c = At /\ c \in Whole
      BY <3>1 DEF PostedFrame
    <3>3. ~ Behind
      BY <3>2, BeforeOrBehind
    <3>4. \A k \in 1..N : posted[k].at < At
      BY <3>3, <1>b DEF Shown, Sound
    <3>5. \A x \in Whole : x < c => \E k \in 1..N : posted'[k].at = x
      <4>1. \A x \in Whole : x < At => \E k \in 1..N : posted[k].at = x
        BY <3>2, BeforeOrBehind, <1>b DEF Shown, Kept
      <4> QED
        BY <1>2, <3>2, <4>1
    <3>6. \A k \in 1..N + 1 \ {N + 1} : posted'[k].at # c
      BY <1>2, <1>4, <3>2, <3>4
    <3>7. (N + 1) - 1 = N
      BY <1>2
    <3> QED
      BY <1>1, <1>2, <3>1, <3>2, <3>5, <3>6, <3>7
  <2> HIDE DEF Fine
  <2>3. \A n \in 1..N + 1 : (\A t \in Torn : posted'[n].at < t) => Fine(n)
    BY <1>2, <1>4, <2>1, <2>2
  <2>4. \A n : EndOf(posted'[n].at) = EndOf(posted[n].at)'
    BY <1>2 DEF EndOf
  <2> QED
    BY <1>2, <1>3, <2>3, <2>4 DEF Exact, Early, Fine
<1>11. Kept'
  <2>1. lostTo \in Nat /\ lostTo' \in Nat /\ lostTo <= lostTo' /\ (lostTo <= pos)'
    BY <1>2 DEF Typed, TypeOK, Shown, Kept
  <2>2. ASSUME NEW x \in Whole, x < At'
        PROVE  Excused(x)' \/ \E n \in 1..N + 1 : posted'[n].at = x
    <3>1. CASE x < At
      <4>1. CASE Excused(x)
        BY <1>2, <1>5, <2>1, <4>1, ExcusedStays
      <4>2. CASE \E n \in 1..N : posted[n].at = x
        BY <1>2, <1>4, <4>2
      <4> QED
        BY <3>1, <4>1, <4>2, <1>b DEF Shown, Kept
    <3>2. CASE ~ (x < At)
      <4>1. c <= x /\ x \in Nat /\ x \in stream.cuts
        BY <1>1, <1>5, <3>2
      <4>2. x = c => posted'[N + 1].at = x /\ N + 1 \in 1..N + 1
        BY <1>2
      <4>3. ASSUME PostedFrame(c) \/ PostedBehind(c)
            PROVE  x = c
        <5>1. c \in Whole /\ (x <= c \/ EndOf(c) <= x) /\ EndOf(c) \in Nat
          BY <1>5, <4>1, <4>3, WholeFacts DEF PostedFrame, PostedBehind
        <5>2. At' <= EndOf(c)
          BY <1>1, <4>3, <5>1 DEF PostedFrame, PostedBehind
        <5> QED
          BY <1>1, <2>2, <4>1, <5>1, <5>2
      <4>4. ASSUME PostedTorn(c)
            PROVE  Excused(x)'
        <5>1. c \in Torn /\ x < c + MB!MsgLen[stream.bytes[c + 3]]
          BY <2>2, <4>4 DEF PostedTorn
        <5>2. x >= stream.seam
          BY <1>1, <1>5, <4>1, <5>1
        <5> QED
          BY <1>1, <1>2, <1>3, <5>1, <5>2 DEF Excused
      <4>5. ASSUME PostedAmid(c)
            PROVE  Excused(x)'
        <5>1. ~ Plain /\ Torn # {} /\ stream.seam < c
          BY <4>5 DEF PostedAmid, Behind
        <5>2. x >= stream.seam
          BY <1>1, <1>5, <4>1, <5>1
        <5> QED
          BY <1>2, <1>3, <5>1, <5>2 DEF Excused
      <4> QED
        BY <1>1, <4>2, <4>3, <4>4, <4>5
    <3> QED
      BY <3>1, <3>2
  <2> QED
    BY <1>2, <1>3, <2>1, <2>2 DEF Kept
<1> QED
  BY <1>8, <1>9, <1>10, <1>11 DEF Shown

LEMMA DiscardShown ==
  ASSUME Typed, Typed', Where, Shown, NEW i \in MBP!MsgStart(ret), MBP!GetMsgUnknown(i),
         UNCHANGED <<stream, pos>>, lostTo' = pos
  PROVE  Shown'
<1>1. /\ stream \in Streams /\ pos \in Nat /\ At \in Nat /\ At <= pos /\ stream.seam \in Nat
      /\ Torn # {} /\ stream.seam < pos
      /\ \A x \in Whole : At <= x => stream.seam <= x
  <2>1. stream \in Streams /\ pos \in Nat /\ At \in Nat /\ At <= pos /\ stream.seam \in Nat
    BY AtFacts, StreamFacts
  <2>2. \A x \in Whole : x \in Nat /\ x \in stream.cuts
    BY <2>1, WholeFacts
  <2>3. CASE Before /\ At \in Torn /\ stream.seam < pos
    <3>1. At \notin Whole /\ \A x \in stream.cuts : x <= At \/ stream.seam <= x
      BY <2>1, <2>3, TornFacts
    <3>2. ASSUME NEW x \in Whole, At <= x PROVE stream.seam <= x
      BY <2>1, <2>2, <3>1, <3>2
    <3> QED
      BY <2>1, <2>3, <3>2
  <2>4. CASE Behind
    BY <2>1, <2>2, <2>4 DEF Behind
  <2> QED
    BY <2>3, <2>4, DiscardsTorn
<1>2. At' = pos /\ UNCHANGED posted
  <2>1. m_len' = 0 /\ ret' = 0 /\ UNCHANGED posted
    BY DEF MBP!GetMsgUnknown
  <2> QED
    BY <1>1, <2>1 DEF At, MBP!Base
<1>3. Whole' = Whole /\ Torn' = Torn /\ (Plain' <=> Plain) /\ \A x : EndOf(x)' = EndOf(x)
  BY SameStream
<1>4. Behind'
  BY <1>1, <1>2, <1>3 DEF Behind
<1>5. \A n \in 1..Len(posted) : posted[n].at \in Nat
  BY PostedFacts
<1>6. Sound'
  <2>1. \A n \in 1..Len(posted) : HeaderOwn(n) \/ (posted[n].at \in Torn /\ Joins(n)) \/ Amid(n)
    BY DEF Shown, Sound
  <2>2. \A n : /\ (HeaderOwn(n)' <=> HeaderOwn(n)) /\ (Joins(n)' <=> Joins(n))
               /\ (Amid(n)' <=> Amid(n))
    BY <1>2, <1>3 DEF HeaderOwn, Joins, Amid
  <2> QED
    BY <1>2, <1>3, <1>4, <2>1, <2>2 DEF Sound
<1>7. TornOnce'
  BY <1>2, <1>3 DEF Shown, TornOnce
<1>8. Exact'
  <2>1. \A n \in 1..Len(posted) : Early(n)' <=> Early(n)
    BY <1>2, <1>3 DEF Early
  <2>2. \A n \in 1..Len(posted) : EndOf(posted[n].at)' = EndOf(posted[n].at)
    BY <1>2 DEF EndOf
  <2>3. \A n \in 1..Len(posted) : posted[n].at < At => posted[n].at < At'
    BY <1>1, <1>2, <1>5
  <2> QED
    BY <1>2, <1>3, <2>1, <2>2, <2>3 DEF Shown, Exact
<1>9. Kept'
  <2>1. lostTo \in Nat /\ lostTo' \in Nat /\ lostTo <= lostTo' /\ lostTo' <= pos'
    BY <1>1 DEF Typed, TypeOK, Shown, Kept
  <2>2. ASSUME NEW x \in Whole, x < At'
        PROVE  Excused(x)' \/ \E n \in 1..Len(posted) : posted[n].at = x
    <3>1. x \in Nat
      BY <1>1, WholeFacts
    <3>2. CASE x < At
      <4>1. Excused(x) => Excused(x)'
        BY <2>1, <3>1, ExcusedStays
      <4> QED
        BY <3>2, <4>1 DEF Shown, Kept
    <3>3. CASE ~ (x < At)
      <4>1. x >= stream.seam /\ x < lostTo'
        BY <1>1, <1>2, <2>2, <3>1, <3>3
      <4> QED
        BY <1>1, <1>3, <4>1 DEF Excused
    <3> QED
      BY <3>2, <3>3
  <2> QED
    BY <1>2, <1>3, <2>1, <2>2 DEF Kept
<1> QED
  BY <1>6, <1>7, <1>8, <1>9 DEF Shown

LEMMA InitShown == Init => Shown
<1> SUFFICES ASSUME Init PROVE Shown
  OBVIOUS
<1>1. Len(posted) = 0 /\ lostTo = 0 /\ pos = 0 /\ At = 0 /\ stream \in Streams
  BY DEF Init, MB!Init, At, MBP!Base
<1>2. 1..Len(posted) = {}
  BY <1>1
<1>3. \A c \in Whole : ~ (c < 0)
  BY <1>1, WholeFacts
<1> QED
  BY <1>1, <1>2, <1>3 DEF Shown, Sound, TornOnce, Exact, Kept

LEMMA NextShown == Typed /\ Typed' /\ Where /\ Shown /\ [Next]_vars => Shown'
<1> SUFFICES ASSUME Typed, Typed', Where, Shown, [Next]_vars PROVE Shown'
  OBVIOUS
<1>1. UNCHANGED stream
  BY StreamStays
<1>2. CASE AddInput
  <2>1. MBP!AddInputAppend(got) /\ pc = "idle" /\ UNCHANGED <<posted, lostTo>>
    BY <1>2, AddInputStep, NeverOverflows, TypedFacts
  <2>2. /\ pos' = pos + got /\ m_len' = m_len + got /\ ret' = 0 /\ ret = 0
        /\ got \in Nat /\ m_len \in Nat /\ pos \in Nat
    BY <2>1, AtFacts, TypedFacts DEF MBP!AddInputAppend
  <2>3. At' = At /\ pos <= pos'
    BY <2>2 DEF At, MBP!Base
  <2> QED
    BY <1>1, <2>1, <2>3, QuietShown
<1>3. CASE Scan
  <2>1. ASSUME NEW i \in MBP!MsgStart(ret), MBP!PostMsg(i), UNCHANGED lostTo
        PROVE  Shown'
    BY <2>1, PostShown
  <2>2. ASSUME NEW i \in MBP!MsgStart(ret), MBP!GetMsgUnknown(i), lostTo' = pos
        PROVE  Shown'
    BY <1>3, <2>2, ScanStep, DiscardShown
  <2>3. ASSUME MBP!GetMsgDone, UNCHANGED lostTo
        PROVE  Shown'
    <3>1. m_len' = m_len - ret /\ ret' = 0 /\ UNCHANGED <<pos, posted>>
      BY <2>3 DEF MBP!GetMsgDone
    <3>2. At' = At /\ pos <= pos'
      BY <3>1, AtFacts DEF At, MBP!Base
    <3> QED
      BY <1>1, <2>3, <3>1, <3>2, QuietShown
  <2> QED
    BY <1>3, <2>1, <2>2, <2>3, ScanStep
<1>4. CASE ~ AddInput /\ ~ Scan
  <2>1. UNCHANGED <<m_len, pc, ret, pos, posted, lostTo>>
    BY <1>4 DEF Next, OpenRefused, OpenDevice, Configured, NotConfigured, OpenBoxClosed, Close,
       OnUserThreadend, Run, GetHand, Read, ReadPends, ReadNothing, vars, buffer, reader
  <2>2. At' = At /\ pos <= pos'
    BY <2>1, AtFacts DEF At, MBP!Base
  <2> QED
    BY <1>1, <2>1, <2>2, QuietShown
<1> QED
  BY <1>2, <1>3, <1>4

Sessions == Typed /\ Where /\ Shown

LEMMA SessionInvariant == Spec => []Sessions
<1>1. Init => Sessions
  BY InitTyped, InitWhere, InitShown DEF Sessions
<1>2. Sessions /\ [Next]_vars => Sessions'
  BY NextTyped, NextWhere, NextShown DEF Sessions
<1> QED
  BY <1>1, <1>2, PTL DEF Spec

\* However sessions, closes, reused handles and late reads fall: until the torn frame
\* is reached, if there is one, what is posted are the frames sent, each once, in
\* order and byte for byte (one msgBuffer for all sessions, common.h:66).
THEOREM CleanUntilTornHolds == Spec => []CleanUntilTorn
<1>1. Sessions => CleanUntilTorn
  <2> DEFINE early == {n \in 1..Len(posted) : Torn = {} \/ \A c \in Torn : posted[n].at < c}
  <2> SUFFICES ASSUME Sessions, NEW n \in early
               PROVE  /\ posted[n].at \in Whole
                      /\ posted[n].msg = SubSeq(stream.bytes, posted[n].at + 1,
                                                EndOf(posted[n].at))
                      /\ \A c \in Whole : c < posted[n].at =>
                             \E k \in 1..n - 1 : posted[k].at = c
                      /\ \A k \in early \ {n} : posted[k].at # posted[n].at
    BY DEF CleanUntilTorn
  <2>1. n \in 1..Len(posted) /\ Early(n)
    BY DEF Early
  <2>2. posted[n].at \in Nat
    BY <2>1, PostedFacts DEF Sessions
  <2>3. posted[n].at \in Whole
    <3>1. ~ Behind \/ ~ Amid(n)
      <4>1. stream \in Streams
        BY AtFacts DEF Sessions
      <4>2. \A t \in Torn : t \in Nat /\ t < stream.seam /\ stream.seam \in Nat
        BY <4>1, TornFacts
      <4> QED
        BY <2>1, <2>2, <4>2 DEF Behind, Amid, Early
    <3> QED
      BY <2>1, <2>2, <3>1 DEF Sessions, Shown, Sound, HeaderOwn, Early
  <2> QED
    BY <2>1, <2>3 DEF Sessions, Shown, Exact
<1> QED
  BY <1>1, SessionInvariant, PTL

\* At most one message mixes the bytes of both sides of the seam; every other one
\* begins with the three bytes of a frame that was sent whole, unless it lies behind a
\* torn frame and a payload there holds a begin byte (getMsg, common.cpp:152).
THEOREM DamageBoundedHolds == Spec => []DamageBounded
<1>1. Sessions => DamageBounded
  <2> SUFFICES ASSUME Sessions PROVE DamageBounded
    OBVIOUS
  <2>1. stream \in Streams /\ \A n \in 1..Len(posted) : posted[n].at \in Nat
    BY AtFacts, PostedFacts DEF Sessions
  <2>2. \A n \in 1..Len(posted) : HeaderOwn(n) \/ (posted[n].at \in Torn /\ Joins(n)) \/ Amid(n)
    BY DEF Sessions, Shown, Sound
  <2>3. ASSUME NEW n \in 1..Len(posted), Joins(n)
        PROVE  posted[n].at \in Torn
    <3>0. ~ Amid(n)
      <4>1. posted[n].at \in Nat /\ stream.seam \in Nat
        BY <2>1, StreamFacts
      <4> QED
        BY <2>3, <4>1 DEF Amid, Joins
    <3>1. SUFFICES ASSUME posted[n].at \in Whole PROVE FALSE
      BY <2>2, <3>0 DEF HeaderOwn
    <3> DEFINE c == posted[n].at
               e == EndOf(c)
    <3>2. c \in Nat /\ c < stream.seam /\ stream.seam < c + Len(posted[n].msg)
      BY <2>1, <2>3 DEF Joins
    <3>3. e <= stream.seam /\ Early(n)
      BY <2>1, <3>1, <3>2, WholeSides DEF Early
    <3>4. posted[n].msg = SubSeq(stream.bytes, c + 1, e)
      BY <3>3 DEF Sessions, Shown, Exact
    <3>5. e \in Nat /\ c <= e /\ e <= Len(stream.bytes)
      <4>1. c \in stream.cuts /\ c # Len(stream.bytes)
        BY <2>1, <3>1, WholeFacts
      <4>2. e \in stream.cuts /\ e \in Nat /\ c < e
        BY <2>1, <4>1, AtCut
      <4> QED
        BY <2>1, <3>2, <4>2, StreamFacts
    <3>6. Len(posted[n].msg) = e - c
      <4>1. stream.bytes \in Seq(MB!Byte) /\ Len(stream.bytes) \in Nat
        BY <2>1, StreamFacts
      <4>2. \A x \in c + 1..e : stream.bytes[x] \in MB!Byte
        <5>1. \A x \in 1..Len(stream.bytes) : stream.bytes[x] \in MB!Byte
          BY <4>1, ElementOfSeq
        <5>2. c + 1..e \subseteq 1..Len(stream.bytes)
          BY <3>2, <3>5, <4>1
        <5> QED
          BY <5>1, <5>2
      <4> HIDE DEF c, e
      <4>3. Len(SubSeq(stream.bytes, c + 1, e)) = IF c + 1 <= e THEN e - (c + 1) + 1 ELSE 0
        BY <3>2, <3>5, <4>2, SubSeqProperties
      <4> QED
        BY <3>2, <3>4, <3>5, <4>3
    <3>7. stream.seam \in Nat
      BY <2>1, StreamFacts
    <3> HIDE DEF c, e
    <3> QED
      BY <3>2, <3>3, <3>5, <3>6, <3>7
  <2>4. \A a, b \in 1..Len(posted) : Joins(a) /\ Joins(b) => a = b
    BY <2>3 DEF Sessions, Shown, TornOnce
  <2> QED
    BY <2>2, <2>4 DEF DamageBounded, HeaderOwn, Amid
<1> QED
  BY <1>1, SessionInvariant, PTL

\* A frame that was sent whole and has arrived is lost only behind a torn one: inside
\* the length its header announces, with all that was pending when getMsg met a header
\* it does not know, or where a payload behind it holds a begin byte (getMsg,
\* common.cpp:152).
THEOREM LostOnlyBehindTornHolds == Spec => []LostOnlyBehindTorn
<1>1. Init => Sessions /\ MBP!Drained
  BY InitTyped, InitWhere, InitShown, BufferAssumed, MBP!InitPending
     DEF Sessions, Init, MB!Init, MBP!Init, MB!Index, MBP!Index, MB!Unreceived, MBP!Unreceived
<1>2. (Sessions /\ MBP!Drained) /\ [Next]_vars => (Sessions /\ MBP!Drained)'
  <2>1. Typed /\ MBP!Drained /\ [Next]_vars => MBP!Drained'
    BY BufferNext, BufferAssumed, MBP!NextDrained DEF Typed
  <2> QED
    BY <2>1, NextTyped, NextWhere, NextShown DEF Sessions
<1>3. Sessions /\ MBP!Drained => LostOnlyBehindTorn
  <2> SUFFICES ASSUME Sessions, MBP!Drained, run \notin {"scan"},
                      NEW c \in Whole, EndOf(c) <= pos
               PROVE  Excused(c) \/ \E n \in 1..Len(posted) : posted[n].at = c
    BY DEF LostOnlyBehindTorn
  <2> USE DEF Sessions
  <2>1. /\ m_len \in Nat /\ ret = 0 /\ pos \in Nat
        /\ MBP!Base \in Nat /\ pos = MBP!Base + m_len /\ At = MBP!Base + ret /\ At \in Nat
        /\ At <= pos
        /\ Len(stream.bytes) \in Nat /\ pos <= Len(stream.bytes) /\ stream \in Streams
    <3>1. pc = "idle"
      BY DEF Typed, TypeOK, MB!TypeOK
    <3> QED
      BY <3>1, AtFacts
  <2>2. /\ c \in stream.cuts /\ c \in Nat /\ EndOf(c) \in Nat /\ c + 3 <= EndOf(c)
    <3> DEFINE L == MB!MsgLen[stream.bytes[c + 3]]
    <3>1. c \in stream.cuts /\ c \in Nat /\ EndOf(c) = c + L /\ L \in 3..18
      BY <2>1, WholeFacts
    <3> HIDE DEF L
    <3> QED
      BY <3>1
  <2>3. CASE c < At
    BY <2>3 DEF Shown, Kept
  <2>4. CASE At <= c /\ ~ Before /\ ~ Plain
    <3>1. Torn # {} /\ stream.seam < At /\ stream.seam \in Nat
      BY <2>1, <2>4, StreamFacts DEF Where, Behind
    <3>2. c >= stream.seam
      BY <2>1, <2>2, <2>4, <3>1
    <3> QED
      BY <2>4, <3>1, <3>2 DEF Excused
  <2>5. CASE At <= c /\ (Before \/ Plain)
    <3>1. At \in 0..Len(stream.bytes)
      BY <2>1
    <3>2. PICK e \in stream.cuts : /\ e \in Nat /\ At <= e
                                   /\ \A x \in stream.cuts : x < At \/ e <= x
      BY <2>1, <3>1, CutAhead
    <3>3. e <= c /\ e + 3 <= pos
      BY <2>1, <2>2, <2>5, <3>2
    <3> DEFINE i == e - MBP!Base
    <3>4. i \in MBP!MsgStart(ret)
      BY <2>5, <3>2, <3>3, Found
    <3>5. MBP!Base + i = e
      BY <2>1, <3>2
    <3>6. /\ m_buf[i + 2] = stream.bytes[e + 3]
          /\ e \in Whole \/ (e \in Torn /\ Before /\ e = At)
      <4>1. MBP!Base + i \in Whole \/ (MBP!Base + i \in Torn /\ Before /\ MBP!Base + i = At)
        <5>1. ~ (Before /\ Behind)
          BY BeforeOrBehind
        <5> QED
          BY <2>5, <3>4, <5>1, FindsFrame
      <4>2. m_buf[i + 2] = stream.bytes[MBP!Base + i + 3]
        BY <3>4, FindsFrame
      <4> QED
        BY <3>5, <4>1, <4>2
    <3> DEFINE L == MB!MsgLen[stream.bytes[e + 3]]
    <3>7. stream.bytes[e + 3] \in MB!MsgTypes /\ L \in 3..18 /\ m_len < L
      <4>1. pc = "idle"
        BY DEF Typed, TypeOK, MB!TypeOK
      <4>2. m_buf[i + 2] \in MBP!MsgTypes /\ m_len < MBP!MsgLen[m_buf[i + 2]]
        BY <2>1, <3>4, <4>1 DEF MBP!Drained
      <4> QED
        BY <3>6, <4>2, SameTypes, LenOfType
    <3>8. CASE e \in Whole
      <4>1. EndOf(e) = e + L /\ (c <= e \/ EndOf(e) <= c)
        BY <2>1, <2>2, <3>8, WholeFacts
      <4> HIDE DEF L
      <4>2. pos < e + L
        BY <2>1, <3>2, <3>7
      <4>3. c = e
        BY <2>1, <2>2, <3>2, <3>3, <3>7, <4>1, <4>2
      <4> QED
        BY <2>1, <2>2, <3>2, <3>7, <4>1, <4>2, <4>3
    <3>9. CASE e \in Torn /\ e = At
      <4>1. c # e /\ (c <= e \/ stream.seam <= c) /\ stream.seam \in Nat
        BY <2>1, <2>2, <3>9, TornFacts
      <4>2. c >= stream.seam
        BY <2>2, <3>2, <3>3, <4>1
      <4>3. c < e + L
        <5> HIDE DEF L
        <5> QED
          BY <2>1, <2>2, <3>2, <3>7, <3>9
      <4> QED
        BY <3>7, <3>9, <4>2, <4>3 DEF Excused
    <3> QED
      BY <3>6, <3>8, <3>9
  <2> QED
    BY <2>1, <2>2, <2>3, <2>4, <2>5
<1> QED
  BY <1>1, <1>2, <1>3, PTL DEF Spec
-----------------------------------------------------------------------------
(***************************************************************************)
(* The composition implements Dialog.  Inductive: a message takes at least *)
(* three bytes of the stream and is of a type the dialog knows.            *)
(***************************************************************************)
Counted ==
    /\ 3 * Len(posted) <= At
    /\ \A n \in 1..Len(posted) : Type(n) \in 1..7

LEMMA InitCounted == Init => Counted
<1> SUFFICES ASSUME Init PROVE Counted
  OBVIOUS
<1>1. Len(posted) = 0 /\ At = 0
  BY DEF Init, MB!Init, At, MBP!Base
<1> QED
  BY <1>1 DEF Counted

LEMMA PostCounted ==
  ASSUME Typed, Typed', Where, Counted, NEW i \in MBP!MsgStart(ret), MBP!PostMsg(i)
  PROVE  /\ Counted'
         /\ Len(posted) < MaxPosted
         /\ Len(posted') = Len(posted) + 1
         /\ \A k \in 1..Len(posted) : posted'[k] = posted[k]
         /\ posted'[Len(posted) + 1].msg[3] \in 1..7
<1> DEFINE N == Len(posted)
<1>1. N \in Nat /\ Len(posted') = N + 1 /\ \A k \in 1..N : posted'[k] = posted[k]
  BY Appended
<1>2. posted'[N + 1].msg[3] \in 1..7
  <2>1. posted'[N + 1] = [at |-> MBP!Base + i, msg |-> MBP!Copy(i)]
    BY Appended
  <2>2. MBP!Copy(i)[3] \in 1..7
    BY PostCases, LenOfType
  <2> QED
    BY <2>1, <2>2
<1>3. At \in Nat /\ At' \in Nat /\ At + 3 <= At' /\ At' <= pos
  BY PostCases
<1>4. 3 * N <= At /\ \A n \in 1..N : posted[n].msg[3] \in 1..7
  BY DEF Counted, Type
<1>5. pos \in Nat /\ pos <= Len(stream.bytes) /\ stream \in Streams /\ Len(stream.bytes) \in Nat
  BY AtFacts
<1>6. MaxPosted \in Nat /\ Len(stream.bytes) <= 3 * MaxPosted
  BY <1>5, PostedAssumption
<1> HIDE DEF N
<1>7. N < MaxPosted /\ 3 * (N + 1) <= At'
  BY <1>1, <1>3, <1>4, <1>5, <1>6
<1>8. \A n \in 1..N + 1 : posted'[n].msg[3] \in 1..7
  <2>1. \A n \in 1..N + 1 : n \in 1..N \/ n = N + 1
    BY <1>1
  <2> QED
    BY <1>1, <1>2, <1>4, <2>1
<1>9. Counted'
  BY <1>1, <1>7, <1>8 DEF Counted, Type
<1> QED
  BY <1>1, <1>2, <1>7, <1>9 DEF N

LEMMA NextCounted == Typed /\ Typed' /\ Where /\ Counted /\ [Next]_vars => Counted'
<1> SUFFICES ASSUME Typed, Typed', Where, Counted, [Next]_vars PROVE Counted'
  OBVIOUS
<1>1. ASSUME UNCHANGED posted, At <= At'
      PROVE  Counted'
  <2>1. At \in Nat /\ At' \in Int /\ Len(posted) \in Nat
    <3>1. At' \in Int
      <4>1. pos' \in Int /\ m_len' \in Int /\ ret' \in Int
        BY DEF Typed, TypeOK, MB!TypeOK
      <4> QED
        BY <4>1 DEF At, MBP!Base
    <3> QED
      BY <3>1, AtFacts, PostedFacts
  <2>2. 3 * Len(posted) <= At'
    BY <1>1, <2>1 DEF Counted
  <2> QED
    BY <1>1, <2>2 DEF Counted, Type
<1>2. CASE AddInput
  <2>1. MBP!AddInputAppend(got) /\ pc = "idle" /\ UNCHANGED posted
    BY <1>2, AddInputStep, NeverOverflows, TypedFacts
  <2>2. /\ pos' = pos + got /\ m_len' = m_len + got /\ ret' = 0 /\ ret = 0
        /\ got \in Nat /\ m_len \in Nat /\ pos \in Nat
    BY <2>1, AtFacts, TypedFacts DEF MBP!AddInputAppend
  <2>3. At <= At'
    BY <2>2 DEF At, MBP!Base
  <2> QED
    BY <1>1, <2>1, <2>3
<1>3. CASE Scan
  <2>1. ASSUME NEW i \in MBP!MsgStart(ret), MBP!PostMsg(i)
        PROVE  Counted'
    BY <2>1, PostCounted
  <2>2. ASSUME NEW i \in MBP!MsgStart(ret), MBP!GetMsgUnknown(i)
        PROVE  Counted'
    <3>1. m_len' = 0 /\ ret' = 0 /\ pos' = pos /\ UNCHANGED posted
      BY <2>2 DEF MBP!GetMsgUnknown
    <3>2. At' = pos
      BY <3>1, AtFacts DEF At, MBP!Base
    <3> QED
      BY <1>1, <3>1, <3>2, AtFacts
  <2>3. CASE MBP!GetMsgDone
    <3>1. m_len' = m_len - ret /\ ret' = 0 /\ UNCHANGED <<pos, posted>>
      BY <2>3 DEF MBP!GetMsgDone
    <3>2. At <= At'
      BY <3>1, AtFacts DEF At, MBP!Base
    <3> QED
      BY <1>1, <3>1, <3>2
  <2> QED
    BY <1>3, <2>1, <2>2, <2>3, ScanStep
<1>4. CASE ~ AddInput /\ ~ Scan
  <2>1. UNCHANGED <<m_len, pc, ret, pos, posted>>
    BY <1>4 DEF Next, OpenRefused, OpenDevice, Configured, NotConfigured, OpenBoxClosed,
       Close, OnUserThreadend, Run, GetHand, Read, ReadPends, ReadNothing, vars, buffer
  <2>2. At <= At'
    BY <2>1, AtFacts DEF At, MBP!Base
  <2> QED
    BY <1>1, <2>1, <2>2
<1> QED
  BY <1>2, <1>3, <1>4

\* The window's queue and the frames dispatched, as Dialog has them.
Queue == [n \in 1..Len(posted) - handled |-> Type(handled + n)]
Log == [n \in 1..handled |-> Type(n)]

LEMMA QueueTypes ==
  ASSUME Typed, Counted
  PROVE  /\ handled \in Nat /\ Len(posted) \in Nat /\ handled <= Len(posted)
         /\ Queue \in Seq(1..7) /\ Len(Queue) = Len(posted) - handled
         /\ Log \in Seq(1..7) /\ Len(Log) = handled
<1>1. handled \in Nat /\ Len(posted) \in Nat /\ handled <= Len(posted)
  BY PostedFacts
<1>2. \A n \in 1..Len(posted) : Type(n) \in 1..7
  BY DEF Counted
<1>3. \A n \in 1..Len(posted) - handled : Type(handled + n) \in 1..7
  <2> SUFFICES ASSUME NEW n \in 1..Len(posted) - handled PROVE Type(handled + n) \in 1..7
    OBVIOUS
  <2>1. handled + n \in 1..Len(posted)
    BY <1>1
  <2> QED
    BY <1>2, <2>1
<1>4. \A n \in 1..handled : Type(n) \in 1..7
  BY <1>1, <1>2
<1>5. Queue \in Seq(1..7) /\ Len(Queue) = Len(posted) - handled
  <2>1. Len(posted) - handled \in Nat
    BY <1>1
  <2>2. Queue \in [1..Len(posted) - handled -> 1..7]
    BY <1>3 DEF Queue
  <2> QED
    BY <2>1, <2>2, IsASeq, LenProperties
<1>6. Log \in Seq(1..7) /\ Len(Log) = handled
  <2>1. Log \in [1..handled -> 1..7]
    BY <1>4 DEF Log
  <2> QED
    BY <1>1, <2>1, IsASeq, LenProperties
<1> QED
  BY <1>1, <1>5, <1>6

\* Posting a message appends its type to the queue.
LEMMA QueuePost ==
  ASSUME Typed, Typed', Counted, Counted', UNCHANGED handled,
         Len(posted') = Len(posted) + 1, \A k \in 1..Len(posted) : posted'[k] = posted[k]
  PROVE  Queue' = Append(Queue, posted'[Len(posted) + 1].msg[3]) /\ Log' = Log
<1>1. PICK h, N \in Nat : h = handled /\ N = Len(posted) /\ h <= N
  BY QueueTypes
<1>2. handled' = h /\ Len(posted') = N + 1 /\ \A k \in 1..N : posted'[k] = posted[k]
  BY <1>1
<1>3. Queue \in Seq(1..7) /\ Len(Queue) = N - h
  BY <1>1, QueueTypes
<1>4. \A k \in 1..N + 1 : posted'[k].msg[3] \in 1..7
  BY <1>2 DEF Counted, Type
<1>5. Queue' = [n \in 1..(N + 1) - h |-> posted'[h + n].msg[3]]
  BY <1>2 DEF Queue, Type
<1>6. Queue = [n \in 1..N - h |-> posted[h + n].msg[3]]
  BY <1>1 DEF Queue, Type
<1> DEFINE q == [n \in 1..(N + 1) - h |-> posted'[h + n].msg[3]]
           t == posted'[N + 1].msg[3]
<1>7. t \in 1..7
  BY <1>4
<1>8. q \in Seq(1..7) /\ Len(q) = (N + 1) - h
  <2>1. \A n \in 1..(N + 1) - h : posted'[h + n].msg[3] \in 1..7
    <3> SUFFICES ASSUME NEW n \in 1..(N + 1) - h PROVE posted'[h + n].msg[3] \in 1..7
      OBVIOUS
    <3>1. h + n \in 1..N + 1
      BY <1>1
    <3> QED
      BY <1>4, <3>1
  <2>2. q \in [1..(N + 1) - h -> 1..7]
    BY <2>1
  <2>3. (N + 1) - h \in Nat
    BY <1>1
  <2> HIDE DEF q
  <2> QED
    BY <2>2, <2>3, IsASeq, LenProperties
<1>9. /\ Append(Queue, t) \in Seq(1..7) /\ Len(Append(Queue, t)) = (N - h) + 1
      /\ \A n \in 1..N - h : Append(Queue, t)[n] = Queue[n]
      /\ Append(Queue, t)[(N - h) + 1] = t
  <2> HIDE DEF t
  <2> QED
    BY <1>3, <1>7, AppendProperties
<1>10. ASSUME NEW n \in 1..(N + 1) - h
       PROVE  q[n] = Append(Queue, t)[n]
  <2>1. q[n] = posted'[h + n].msg[3]
    OBVIOUS
  <2>2. CASE n = (N + 1) - h
    <3>1. h + n = N + 1 /\ n = (N - h) + 1
      BY <1>1, <2>2
    <3> QED
      BY <1>9, <2>1, <3>1
  <2>3. CASE n # (N + 1) - h
    <3>1. n \in 1..N - h /\ h + n \in 1..N
      BY <1>1, <2>3
    <3>2. Queue[n] = posted[h + n].msg[3]
      BY <1>6, <3>1
    <3> QED
      BY <1>2, <1>9, <2>1, <3>1, <3>2
  <2> QED
    BY <2>2, <2>3
<1>11. (N - h) + 1 = (N + 1) - h
  BY <1>1
<1> HIDE DEF q, t
<1>12. q = Append(Queue, t)
  BY <1>8, <1>9, <1>10, <1>11, SeqEqual
<1>13. Log' = Log
  <2>1. \A n \in 1..h : posted'[n].msg[3] = posted[n].msg[3]
    BY <1>1, <1>2
  <2>2. Log = [n \in 1..h |-> posted[n].msg[3]] /\ Log' = [n \in 1..h |-> posted'[n].msg[3]]
    BY <1>1, <1>2 DEF Log, Type
  <2> QED
    BY <2>1, <2>2
<1> QED
  BY <1>1, <1>5, <1>12, <1>13 DEF q, t

\* Dispatching one moves it from the queue to the log.
LEMMA QueueDispatch ==
  ASSUME Typed, Typed', Counted, Counted', UNCHANGED posted, handled' = handled + 1
  PROVE  /\ Queue # <<>> /\ Head(Queue) = Type(handled + 1)
         /\ Queue' = Tail(Queue) /\ Log' = Append(Log, Head(Queue))
<1>1. PICK h, N \in Nat : h = handled /\ N = Len(posted) /\ h <= N
  BY QueueTypes
<1>2. handled' = h + 1 /\ h + 1 <= N
  BY <1>1 DEF Typed, TypeOK
<1>3. \A k \in 1..N : posted[k].msg[3] \in 1..7
  BY <1>1 DEF Counted, Type
<1>4. /\ Queue \in Seq(1..7) /\ Len(Queue) = N - h
      /\ Log \in Seq(1..7) /\ Len(Log) = h
  BY <1>1, QueueTypes
<1>5. /\ Queue = [n \in 1..N - h |-> posted[h + n].msg[3]]
      /\ Log = [n \in 1..h |-> posted[n].msg[3]]
      /\ Queue' = [n \in 1..N - (h + 1) |-> posted[(h + 1) + n].msg[3]]
      /\ Log' = [n \in 1..h + 1 |-> posted[n].msg[3]]
  BY <1>1, <1>2 DEF Queue, Log, Type
<1>6. Queue # <<>> /\ Head(Queue) = posted[h + 1].msg[3]
  <2>1. Len(Queue) # 0 /\ 1 \in 1..N - h
    BY <1>1, <1>2, <1>4
  <2>2. Queue # <<>>
    BY <2>1, EmptySeq
  <2>3. Head(Queue) = Queue[1]
    BY <1>4, <2>2, HeadTailProperties
  <2> QED
    BY <1>5, <2>1, <2>2, <2>3
<1>7. /\ Tail(Queue) \in Seq(1..7) /\ Len(Tail(Queue)) = N - (h + 1)
      /\ \A n \in 1..N - (h + 1) : Tail(Queue)[n] = Queue[n + 1]
  <2>1. Tail(Queue) \in Seq(1..7) /\ Len(Tail(Queue)) = Len(Queue) - 1
        /\ \A n \in 1..Len(Tail(Queue)) : Tail(Queue)[n] = Queue[n + 1]
    BY <1>4, <1>6, HeadTailProperties
  <2>2. Len(Queue) - 1 = N - (h + 1)
    BY <1>1, <1>4
  <2> QED
    BY <2>1, <2>2
<1> DEFINE q == [n \in 1..N - (h + 1) |-> posted[(h + 1) + n].msg[3]]
           l == [n \in 1..h + 1 |-> posted[n].msg[3]]
           t == posted[h + 1].msg[3]
<1>8. q \in Seq(1..7) /\ Len(q) = N - (h + 1)
  <2>1. \A n \in 1..N - (h + 1) : posted[(h + 1) + n].msg[3] \in 1..7
    <3> SUFFICES ASSUME NEW n \in 1..N - (h + 1) PROVE posted[(h + 1) + n].msg[3] \in 1..7
      OBVIOUS
    <3>1. (h + 1) + n \in 1..N
      BY <1>1
    <3> QED
      BY <1>3, <3>1
  <2>2. q \in [1..N - (h + 1) -> 1..7]
    BY <2>1
  <2>3. N - (h + 1) \in Nat
    BY <1>1, <1>2
  <2> HIDE DEF q
  <2> QED
    BY <2>2, <2>3, IsASeq, LenProperties
<1>9. q = Tail(Queue)
  <2>1. ASSUME NEW n \in 1..N - (h + 1)
        PROVE  q[n] = Tail(Queue)[n]
    <3>1. n + 1 \in 1..N - h /\ h + (n + 1) = (h + 1) + n
      BY <1>1, <1>2
    <3>2. Queue[n + 1] = posted[h + (n + 1)].msg[3]
      BY <1>5, <3>1
    <3> QED
      BY <1>7, <3>1, <3>2
  <2> HIDE DEF q
  <2> QED
    BY <1>7, <1>8, <2>1, SeqEqual
<1>10. l \in Seq(1..7) /\ Len(l) = h + 1
  <2>1. \A n \in 1..h + 1 : posted[n].msg[3] \in 1..7
    BY <1>1, <1>2, <1>3
  <2>2. l \in [1..h + 1 -> 1..7] /\ h + 1 \in Nat
    BY <1>1, <2>1
  <2> HIDE DEF l
  <2> QED
    BY <2>2, IsASeq, LenProperties
<1>11. l = Append(Log, t)
  <2>1. t \in 1..7
    BY <1>1, <1>2, <1>3
  <2>2. /\ Append(Log, t) \in Seq(1..7) /\ Len(Append(Log, t)) = h + 1
        /\ \A n \in 1..h : Append(Log, t)[n] = Log[n]
        /\ Append(Log, t)[h + 1] = t
    <3> HIDE DEF t
    <3> QED
      BY <1>4, <2>1, AppendProperties
  <2>3. ASSUME NEW n \in 1..h + 1
        PROVE  l[n] = Append(Log, t)[n]
    <3>1. n = h + 1 \/ n \in 1..h
      BY <1>1
    <3> QED
      BY <1>5, <2>2, <3>1
  <2> HIDE DEF l, t
  <2> QED
    BY <1>10, <2>2, <2>3, SeqEqual
<1> HIDE DEF q, l, t
<1> QED
  BY <1>1, <1>5, <1>6, <1>9, <1>11 DEF q, l, t, Type

\* A step that changes nothing Dialog sees.
LEMMA UnseenStep ==
  ASSUME UNCHANGED <<dialog, flags, shown, m_hand, posted>>
  PROVE  UNCHANGED DLG!vars
  BY DEF dialog, flags, shown, DLG!vars, DLG!flags, DLG!pane, DLG!queues, Opened, Type, comStateStr, openedWith, devicesHeld

\* What Dialog sees of an open does not change while step and flag stay.
LEMMA OpenStays ==
  ASSUME UNCHANGED <<step, m_commOpened>>
  PROVE  UNCHANGED <<comStateStr, openedWith, devicesHeld>>
  BY DEF Opened, comStateStr, openedWith, devicesHeld

LEMMA QueueStays ==
  ASSUME UNCHANGED <<handled, posted>>
  PROVE  UNCHANGED <<Queue, Log>>
  BY DEF Queue, Log, Type

LEMMA DispatchRefines ==
  ASSUME Typed, Typed', Counted, Counted', OnUserThreadend
  PROVE  DLG!OnUserThreadend
<1> DEFINE t == Type(handled + 1)
<1>1. /\ step # "configure" /\ handled' = handled + 1 /\ UNCHANGED <<posted, m_hand, step>>
      /\ UNCHANGED m_commOpened
      /\ m_openAnswerEd' = IF t \in {1, 2, 3} THEN t # 3 ELSE m_openAnswerEd
      /\ m_checkOn' = IF t \in {4, 5, 6} THEN t # 6 ELSE m_checkOn
      /\ IF t = 7 THEN msgAppend ELSE UNCHANGED m_editOther
      /\ IF <<m_openAnswerEd, m_checkOn>>' = <<m_openAnswerEd, m_checkOn>>
         THEN UNCHANGED title
         ELSE updateState(IF step = "idle" /\ m_commOpened THEN Speed ELSE NotOpen)
  <2>1. handled' = handled + 1 /\ UNCHANGED posted
    BY DEF OnUserThreadend, buffer
  <2>2. Type(handled') = t
    BY <2>1 DEF Type
  <2> HIDE DEF t
  <2> QED
    BY <2>1, <2>2 DEF OnUserThreadend, getMsgOne, hands
<1>2. /\ Queue # <<>> /\ Head(Queue) = t
      /\ Queue' = Tail(Queue) /\ Log' = Append(Log, Head(Queue))
  BY <1>1, QueueDispatch
<1>3. t \in 1..7 /\ Len(Log) = handled /\ handled \in Nat
  <2>1. handled \in Nat /\ handled + 1 \in 1..Len(posted)
    BY <1>1, QueueTypes DEF Typed, TypeOK
  <2> QED
    BY <2>1, QueueTypes DEF Counted
<1>4. (Opened' <=> Opened) /\ comStateStr' = comStateStr
  BY <1>1, OpenStays DEF Opened
<1> HIDE DEF t
<1>5. DLG!getMsgOne(t)
  <2>1. title' = IF <<m_openAnswerEd, m_checkOn>>' = <<m_openAnswerEd, m_checkOn>> THEN title
                 ELSE IF m_commOpened'
                      THEN <<comStateStr', m_openAnswerEd', m_checkOn'>>
                      ELSE <<comStateStr'>>
    BY <1>1, <1>4 DEF updateState, Opened, comStateStr
  <2>2. CASE t \in {1, 2, 3}
    <3>1. /\ m_openAnswerEd' = (t \in {1, 2}) /\ UNCHANGED <<m_checkOn, m_commOpened>>
          /\ UNCHANGED m_editOther
      BY <1>1, <2>2
    <3> QED
      BY <1>4, <2>1, <2>2, <3>1 DEF DLG!getMsgOne, DLG!setOpenAnswerEd, DLG!updateState, DLG!Caption,
         DLG!pane
  <2>3. CASE t \in {4, 5, 6}
    <3>1. /\ m_checkOn' = (t \in {4, 5}) /\ UNCHANGED <<m_openAnswerEd, m_commOpened>>
          /\ UNCHANGED m_editOther
      BY <1>1, <2>3
    <3> QED
      BY <1>4, <2>1, <2>3, <3>1 DEF DLG!getMsgOne, DLG!setCheckOn, DLG!updateState, DLG!Caption,
         DLG!pane
  <2>4. CASE t = 7
    <3>1. UNCHANGED <<m_openAnswerEd, m_checkOn, m_commOpened, title, comStateStr>>
      BY <1>1, <1>4, <2>4
    <3>2. m_editOther' = <<Len(Log) + 1>> \o m_editOther
      BY <1>1, <1>3, <2>4 DEF msgAppend
    <3> QED
      BY <1>4, <2>4, <3>1, <3>2 DEF DLG!getMsgOne, DLG!msgAppend, DLG!flags, Log
  <2> QED
    BY <1>3, <2>2, <2>3, <2>4
<1> QED
  BY <1>1, <1>2, <1>4, <1>5, OpenStays DEF DLG!OnUserThreadend, Queue, Log

LEMMA NextAllowed ==
    Typed /\ Typed' /\ Where /\ Counted /\ Counted' /\ [Next]_vars => [DLG!Next]_(DLG!vars)
<1> SUFFICES ASSUME Typed, Typed', Where, Counted, Counted', [Next]_vars
             PROVE  DLG!Next \/ UNCHANGED DLG!vars
  OBVIOUS
<1> USE DEF DLG!flags, DLG!pane, DLG!queues, comStateStr, openedWith, devicesHeld
<1>1. /\ step # "idle" => m_commOpened
      /\ step \in {"idle", "configure", "openBox"}
      /\ run # "top" => m_hand # INVALID
      /\ m_commOpened \in BOOLEAN
  BY DEF Typed, TypeOK
<1>12. DLG!NotOpen = NotOpen
  BY DEF DLG!NotOpen, NotOpen
<1>2. CASE OpenRefused
  <2>1. /\ step = "idle" /\ ~ Opened /\ m_commOpened' = TRUE /\ step' = "openBox" /\ ~ Opened'
        /\ UNCHANGED <<m_hand, handled, posted, m_editOther, m_openAnswerEd, m_checkOn, title>>
    BY <1>2 DEF OpenRefused, buffer, hands, flags, shown, Opened
  <2>2. DLG!OpenRefused(Speed)
    BY <2>1, QueueStays DEF DLG!OpenRefused, Queue, Log
  <2> QED
    BY <2>2 DEF DLG!Next, DLG!Opening
<1>3. ASSUME NEW h \in Handle, OpenDevice(h)
      PROVE  DLG!Next
  <2>1. /\ step = "idle" /\ ~ Opened /\ m_commOpened' = TRUE /\ step' = "configure" /\ ~ Opened'
        /\ UNCHANGED <<m_hand, handled, posted, m_editOther, m_openAnswerEd, m_checkOn, title>>
    BY <1>3 DEF OpenDevice, buffer, hands, flags, shown, Opened
  <2>2. <<Com(0)>> = Append(<<>>, [kind |-> "com", text |-> Speed,
                                   speed |-> [s \in {Speed} |-> 9600][Speed], rate |-> 0])
    BY DEF Com
  <2>3. DLG!OpenDevice(Speed, "com")
    BY <2>1, <2>2, QueueStays DEF DLG!OpenDevice, Queue, Log, Com
  <2> QED
    BY <2>3 DEF DLG!Next, DLG!Opening
<1>4. CASE Configured
  <2>1. /\ step = "configure" /\ ~ Opened /\ m_commOpened' = TRUE /\ step' = "idle" /\ Opened'
        /\ m_hand' # INVALID
        /\ UNCHANGED <<handled, posted, m_editOther, m_openAnswerEd, m_checkOn>>
        /\ title' = <<Speed, m_openAnswerEd', m_checkOn'>>
    <3>1. m_hand' = opening /\ opening \in Handle
      BY <1>4 DEF Configured, Typed
    <3>2. /\ step = "configure" /\ m_commOpened' = m_commOpened /\ m_commOpened
          /\ step' = "idle"
          /\ UNCHANGED <<handled, posted, m_editOther, m_openAnswerEd, m_checkOn>>
          /\ updateState(Speed)
      BY <1>1, <1>4 DEF Configured, buffer, shown
    <3> QED
      BY <3>1, <3>2, HandlesAssumption DEF Opened, updateState
  <2>2. <<Com(9600)>> = [<<Com(0)>> EXCEPT ![1].rate =
                             DLG!Rate(<<Com(0)>>[1].kind, <<Com(0)>>[1].speed)]
    BY DEF DLG!Rate, Com
  <2>3. DLG!Configured
    BY <1>12, <2>1, <2>2, QueueStays DEF DLG!Configured, DLG!updateState, DLG!Caption, Queue, Log, Com
  <2> QED
    BY <2>3 DEF DLG!Next, DLG!Opening
<1>5. CASE NotConfigured
  <2>1. /\ step = "configure" /\ ~ Opened /\ step' = "openBox" /\ ~ Opened'
        /\ UNCHANGED <<m_commOpened, m_hand, handled, posted, m_editOther, m_openAnswerEd,
                       m_checkOn, title>>
    BY <1>5 DEF NotConfigured, buffer, hands, flags, shown, Opened
  <2>2. <<>> = Tail(<<Com(0)>>)
    OBVIOUS
  <2>3. DLG!NotConfigured
    BY <2>1, <2>2, QueueStays DEF DLG!NotConfigured, Queue, Log, Com
  <2> QED
    BY <2>3 DEF DLG!Next, DLG!Opening
<1>6. CASE OpenBoxClosed
  <2>1. /\ step = "openBox" /\ ~ Opened /\ m_commOpened' = FALSE /\ step' = "idle" /\ ~ Opened'
        /\ title' = <<NotOpen>>
        /\ UNCHANGED <<m_hand, handled, posted, m_editOther, m_openAnswerEd, m_checkOn>>
    BY <1>6 DEF OpenBoxClosed, buffer, hands, shown, Opened, updateState
  <2>2. DLG!OpenBoxClosed
    BY <1>12, <2>1, QueueStays DEF DLG!OpenBoxClosed, DLG!ShowClosed, DLG!updateState, DLG!Caption,
       Queue, Log
  <2> QED
    BY <2>2 DEF DLG!Next, DLG!Opening
<1>7. CASE Close
  <2>1. /\ step = "idle" /\ step' = "idle" /\ Opened /\ m_commOpened' = FALSE /\ ~ Opened'
        /\ title' = <<NotOpen>>
        /\ UNCHANGED <<m_hand, handled, posted, m_editOther, m_openAnswerEd, m_checkOn>>
    BY <1>7 DEF Close, buffer, shown, Opened, updateState
  <2>2. <<>> = Tail(<<Com(9600)>>)
    OBVIOUS
  <2>3. DLG!CloseClicked
    BY <1>12, <2>1, <2>2, QueueStays DEF DLG!CloseClicked, DLG!ShowClosed, DLG!updateState,
       DLG!Caption, Queue, Log, Com
  <2> QED
    BY <2>3 DEF DLG!Next
<1>8. CASE OnUserThreadend
  BY <1>8, DispatchRefines DEF DLG!Next
<1>9. CASE Scan
  <2>1. UNCHANGED <<dialog, flags, shown, m_hand>> /\ run = "scan"
    BY <1>9, ScanStep DEF Scan, hands
  <2>2. ASSUME NEW i \in MBP!MsgStart(ret), MBP!PostMsg(i)
        PROVE  DLG!Next
    <3> DEFINE t == posted'[Len(posted) + 1].msg[3]
    <3>1. /\ Len(posted) < MaxPosted /\ Len(posted') = Len(posted) + 1
          /\ \A k \in 1..Len(posted) : posted'[k] = posted[k]
          /\ t \in 1..7
      BY <2>2, PostCounted
    <3>2. Queue' = Append(Queue, t) /\ Log' = Log
      BY <2>1, <3>1, QueuePost DEF shown
    <3>3. Len(Log) + Len(Queue) < MaxPosted
      BY <3>1, QueueTypes, SMTT(30)
    <3> HIDE DEF t, comStateStr, openedWith, devicesHeld
    <3>4. DLG!PostMessage(t)
      BY <1>1, <2>1, <3>2, <3>3, OpenStays DEF DLG!PostMessage, Queue, Log, dialog, flags,
         shown, Opened
    <3> QED
      BY <3>1, <3>4 DEF DLG!Next
  <2>3. CASE UNCHANGED posted
    BY <2>1, <2>3, UnseenStep
  <2> QED
    BY <1>9, <2>2, <2>3, ScanStep DEF MBP!GetMsgUnknown, MBP!GetMsgDone
<1>10. CASE AddInput
  <2>1. UNCHANGED <<dialog, flags, shown, m_hand, posted>>
    BY <1>10, AddInputStep, TypedFacts DEF AddInput, hands
  <2> QED
    BY <2>1, UnseenStep
<1>11. CASE GetHand \/ (\E k \in 1..MaxChunk : Read(k)) \/ ReadPends \/ ReadNothing
            \/ UNCHANGED vars
  <2>1. UNCHANGED <<dialog, flags, shown, m_hand, posted>>
    BY <1>11 DEF GetHand, Read, ReadPends, ReadNothing, vars, hands, buffer
  <2> QED
    BY <2>1, UnseenStep
<1> QED
  BY <1>2, <1>3, <1>4, <1>5, <1>6, <1>7, <1>8, <1>9, <1>10, <1>11 DEF Next, Run

LEMMA InitAllowed == Init => DLG!Init
<1> SUFFICES ASSUME Init PROVE DLG!Init
  OBVIOUS
<1>1. Typed /\ Counted /\ Len(posted) = 0 /\ handled = 0
  BY InitTyped, InitCounted DEF Init, MB!Init
<1>2. Queue = <<>> /\ Log = <<>>
  BY <1>1, QueueTypes, EmptySeq
<1>3. ~ Opened /\ step = "idle"
  BY DEF Init, Opened
<1>4. DLG!NotOpen = NotOpen
  BY DEF NotOpen, DLG!NotOpen
<1> QED
  BY <1>2, <1>3, <1>4 DEF Init, DLG!Init, Queue, Log, comStateStr, openedWith, devicesHeld

\* The thread, the buffer and the dialog together are a program that Dialog allows:
\* what Dialog assumes of the frames posted (only once a handle was set, of types it
\* knows, dispatched in order) the read path provides.
THEOREM DialogAllowsHolds == Spec => DialogAllows
<1> DEFINE I == Typed /\ Where /\ Counted
<1>1. Init => I /\ DLG!Init
  BY InitTyped, InitWhere, InitCounted, InitAllowed
<1>2. I /\ [Next]_vars => I' /\ [DLG!Next]_(DLG!vars)
  BY NextTyped, NextWhere, NextCounted, NextAllowed
<1> QED
  BY <1>1, <1>2, PTL DEF Spec, DialogAllows
=============================================================================
