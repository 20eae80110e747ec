---------------------------- MODULE DialogProofs ----------------------------
(***************************************************************************)
(* Theorems about Dialog, for any speeds, device kinds, frame types and    *)
(* commands, and any number of frames and commands.                        *)
(***************************************************************************)
EXTENDS Dialog, SequenceTheorems, TLAPS

\* The code found for a speed is that of the speed, or 9600's where it has none.
LEMMA HIDSpeedFinds ==
  ASSUME NEW s
  PROVE  /\ HIDSpeed(s) \in 1..13
         /\ \/ Listed[HIDSpeed(s)] = s
            \/ Listed[HIDSpeed(s)] = 9600 /\ \A r \in 1..13 : Listed[r] # s
<1>1. CASE \E n \in 1..13 : Listed[n] = s
  <2> DEFINE c == CHOOSE n \in 1..13 : Listed[n] = s
  <2>1. c \in 1..13 /\ Listed[c] = s
    BY <1>1
  <2>2. HIDSpeed(s) = c
    BY <1>1 DEF HIDSpeed
  <2> QED
    BY <2>1, <2>2
<1>2. CASE ~ \E n \in 1..13 : Listed[n] = s
  <2>1. HIDSpeed(s) = 6
    BY <1>2 DEF HIDSpeed
  <2>2. Listed[6] = 9600
    BY DEF Listed
  <2> QED
    BY <1>2, <2>1, <2>2
<1> QED
  BY <1>1, <1>2

\* A device that was configured runs at the speed it was configured for.
LEMMA RateRuns ==
  ASSUME NEW s \in Nat, NEW d, d.kind \in {"com", "ch9326", "hid"},
         d.rate = Rate(d.kind, s)
  PROVE  d.rate \in Nat /\ RunsAt(d, s)
<1>1. CASE d.kind = "com"
  BY <1>1 DEF Rate, RunsAt
<1>2. CASE d.kind = "ch9326"
  <2>1. d.rate = HIDSpeed(s)
    BY <1>2 DEF Rate
  <2> QED
    BY <1>2, <2>1, HIDSpeedFinds DEF RunsAt
<1>3. CASE d.kind = "hid"
  BY <1>3 DEF Rate, RunsAt
<1> QED
  BY <1>1, <1>2, <1>3
-----------------------------------------------------------------------------
(***************************************************************************)
(* Types, and button, flag and device.                                     *)
(***************************************************************************)
\* One device, with its fields as they were set, is held while one is.
Device == [kind : Kinds, text : Speeds, speed : Nat, rate : Nat]

Held ==
    /\ TypeOK
    /\ ButtonFollowsDevice
    /\ step = "configure" => speed \in Speeds /\ held[1].text = speed
    /\ held # <<>> => held[1].speed = ttoi[held[1].text]
    /\ step \in {"idle", "notOpenBox"} /\ held # <<>> => RunsAt(held[1], held[1].speed)

\* A sequence of at most one element that is not empty.
LEMMA OneElement ==
  ASSUME NEW S, NEW q \in Seq(S), Len(q) <= 1, q # <<>>
  PROVE  Len(q) = 1 /\ q[1] \in S /\ Head(q) = q[1] /\ Tail(q) = <<>>
<1>1. Len(q) = 1
  <2>1. Len(q) \in Nat /\ Len(q) # 0
    BY EmptySeq, LenProperties
  <2> QED
    BY <2>1
<1>2. q[1] \in S /\ Head(q) = q[1]
  BY <1>1, ElementOfSeq, HeadTailProperties
<1>3. Tail(q) \in Seq(S) /\ Len(Tail(q)) = 0
  BY <1>1, HeadTailProperties
<1> QED
  BY <1>1, <1>2, <1>3, EmptySeq

LEMMA InitHeld == Init => Held
<1> SUFFICES ASSUME Init PROVE Held
  OBVIOUS
<1>1. /\ held \in Seq(Device) /\ Len(held) <= 1
      /\ m_editOther \in Seq(Nat) /\ otherText \in Seq(Nat)
      /\ posted \in Seq(FrameTypes) /\ log \in Seq(FrameTypes) /\ issued \in Seq(Commands)
  BY EmptySeq DEF Init
<1>2. TypeOK
  BY <1>1 DEF Init, TypeOK, Device
<1> QED
  BY <1>2 DEF Init, Held, ButtonFollowsDevice, InOpen

\* What getMsgOne leaves of the types, whichever frame it gets.
LEMMA FrameTypeOK ==
  ASSUME TypeOK, posted # <<>>, getMsgOne(Head(posted)),
         log' = Append(log, Head(posted)), posted' = Tail(posted)
  PROVE  /\ m_commOpened' = m_commOpened /\ m_comStateStr' = m_comStateStr
         /\ m_openAnswerEd' \in BOOLEAN /\ m_checkOn' \in BOOLEAN
         /\ m_editOther' \in Seq(Nat) /\ otherText' \in Seq(Nat)
         /\ posted' \in Seq(FrameTypes) /\ log' \in Seq(FrameTypes)
<1> DEFINE t == Head(posted)
<1>1. t \in FrameTypes /\ Tail(posted) \in Seq(FrameTypes)
  BY HeadTailProperties DEF TypeOK
<1>2. log' \in Seq(FrameTypes)
  BY <1>1, AppendProperties DEF TypeOK
<1>3. <<Len(log) + 1>> \o m_editOther \in Seq(Nat)
  <2>1. Len(log) + 1 \in Nat
    BY LenProperties DEF TypeOK
  <2>2. <<Len(log) + 1>> \in Seq(Nat)
    BY <2>1
  <2> QED
    BY <2>2, ConcatProperties DEF TypeOK
<1>4. CASE t \in {1, 2, 3} /\ setOpenAnswerEd(t \in {1, 2}) /\ UNCHANGED pane
  <2>1. m_openAnswerEd' \in BOOLEAN
    BY <1>4 DEF setOpenAnswerEd
  <2> QED
    BY <1>1, <1>2, <1>4, <2>1 DEF setOpenAnswerEd, pane, TypeOK
<1>5. CASE t \in {4, 5, 6} /\ setCheckOn(t \in {4, 5}) /\ UNCHANGED pane
  <2>1. m_checkOn' \in BOOLEAN
    BY <1>5 DEF setCheckOn
  <2> QED
    BY <1>1, <1>2, <1>5, <2>1 DEF setCheckOn, pane, TypeOK
<1>6. CASE t = 7 /\ msgAppend /\ UNCHANGED <<flags, m_commOpened, m_comStateStr, title>>
  BY <1>1, <1>2, <1>3, <1>6 DEF msgAppend, flags, TypeOK
<1> QED
  BY <1>4, <1>5, <1>6 DEF getMsgOne

\* The types, when the device held is all that changed besides.
LEMMA ClosedTypeOK ==
  ASSUME TypeOK, ShowClosed, held' \in Seq(Device), Len(held') <= 1
  PROVE  TypeOK'
  BY DEF TypeOK, ShowClosed, Device, flags, pane, queues

LEMMA NextHeld == Held /\ [Next]_vars => Held'
<1> SUFFICES ASSUME Held, [Next]_vars PROVE Held'
  OBVIOUS
<1> USE SpeedsAssumption, DeviceKindsAssumption, LimitsAssumption
    DEF Held, ButtonFollowsDevice, InOpen, flags, pane, queues
<1>0. /\ TypeOK
      /\ held \in Seq(Device) /\ Len(held) <= 1
      /\ held # <<>> => /\ Len(held) = 1 /\ held[1] \in Device
                        /\ Head(held) = held[1] /\ Tail(held) = <<>>
      /\ <<>> \in Seq(Device) /\ Len(<<>>) = 0
  BY OneElement, EmptySeq DEF TypeOK, Device
<1>1. CASE CloseClicked
  <2>1. held' = <<>>
    BY <1>0, <1>1 DEF CloseClicked
  <2>2. TypeOK'
    <3>1. held' \in Seq(Device) /\ Len(held') <= 1
      BY <1>0, <2>1
    <3> QED
      BY <1>0, <1>1, <3>1, ClosedTypeOK DEF CloseClicked
  <2> QED
    BY <1>1, <2>1, <2>2 DEF CloseClicked, ShowClosed
<1>2. ASSUME NEW s \in Speeds, OpenRefused(s)
      PROVE  Held'
  BY <1>0, <1>2 DEF OpenRefused, TypeOK
<1>3. ASSUME NEW s \in Speeds, NEW k \in Kinds, OpenDevice(s, k)
      PROVE  Held'
  <2> DEFINE d == [kind |-> k, text |-> s, speed |-> ttoi[s], rate |-> 0]
  <2>1. held = <<>> /\ d \in Device
    BY <1>0, <1>3, ttoiAssumption DEF OpenDevice, Device
  <2>2. held' \in Seq(Device) /\ Len(held') = 1 /\ held'[1] = d /\ held' # <<>>
    BY <1>0, <1>3, <2>1, AppendProperties DEF OpenDevice
  <2>3. TypeOK'
    BY <1>0, <1>3, <2>2 DEF OpenDevice, TypeOK, Device
  <2> QED
    BY <1>3, <2>2, <2>3 DEF OpenDevice
<1>4. CASE Configured
  <2>1. held # <<>>
    BY <1>4 DEF Configured
  <2> DEFINE d == [held[1] EXCEPT !.rate = Rate(held[1].kind, held[1].speed)]
  <2>2. /\ held' = [held EXCEPT ![1] = d] /\ speed \in Speeds /\ held[1].text = speed
        /\ held[1] \in Device /\ held[1].speed = ttoi[speed]
    BY <1>0, <1>4, <2>1 DEF Configured
  <2>3. /\ d.kind = held[1].kind /\ d.text = speed /\ d.speed = ttoi[speed]
        /\ d.rate = Rate(d.kind, ttoi[speed])
    BY <2>2 DEF Device
  <2>4. d.kind \in {"com", "ch9326", "hid"} /\ ttoi[speed] \in Nat
    BY <2>2, <2>3 DEF Device
  <2>5. d.rate \in Nat /\ RunsAt(d, ttoi[speed])
    <3> HIDE DEF d
    <3> QED
      BY <2>3, <2>4, RateRuns
  <2>6. d \in Device
    BY <2>2, <2>5 DEF Device
  <2>7. held' \in Seq(Device) /\ Len(held') = 1 /\ held'[1] = d /\ held' # <<>>
    <3>1. held' \in Seq(Device) /\ Len(held') = Len(held) /\ held'[1] = d
      BY <1>0, <2>1, <2>2, <2>6, ExceptSeq
    <3> QED
      BY <1>0, <2>1, <3>1
  <2>8. TypeOK'
    BY <1>0, <1>4, <2>2, <2>7 DEF Configured, TypeOK, Device
  <2> HIDE DEF d
  <2> QED
    BY <1>4, <2>3, <2>5, <2>7, <2>8 DEF Configured
<1>5. CASE NotConfigured \/ NoAttributes
  <2>1. held' = <<>>
    BY <1>0, <1>5 DEF NotConfigured, NoAttributes
  <2>2. held' \in Seq(Device) /\ Len(held') <= 1
    BY <1>0, <2>1
  <2>3. CASE NotConfigured
    <3>1. /\ UNCHANGED <<m_commOpened, m_openAnswerEd, m_checkOn, m_comStateStr, title,
                         m_editOther, otherText, openText, speed, handSet, posted, log, issued>>
          /\ step' = "openBox" /\ step = "configure"
      BY <2>3 DEF NotConfigured
    <3>2. TypeOK'
      BY <1>0, <2>2, <3>1 DEF TypeOK, Device
    <3> QED
      BY <2>1, <3>1, <3>2
  <2>4. CASE NoAttributes
    <3>1. TypeOK'
      BY <1>0, <2>2, <2>4, ClosedTypeOK DEF NoAttributes
    <3> QED
      BY <2>1, <2>4, <3>1 DEF NoAttributes, ShowClosed
  <2> QED
    BY <1>5, <2>3, <2>4
<1>6. CASE OpenBoxClosed
  BY <1>0, <1>6 DEF OpenBoxClosed, ShowClosed, TypeOK
<1>7. ASSUME NEW c \in Commands, CommandClicked(c)
      PROVE  Held'
  <2>1. issued' \in Seq(Commands)
    BY <1>0, <1>7, AppendProperties DEF CommandClicked, TypeOK
  <2> QED
    BY <1>0, <1>7, <2>1 DEF CommandClicked, TypeOK
<1>8. CASE CommandRefused \/ NotOpenBoxClosed \/ OnEnChangeEdit1 \/ UNCHANGED vars
  BY <1>0, <1>8 DEF CommandRefused, NotOpenBoxClosed, OnEnChangeEdit1, vars, TypeOK
<1>9. ASSUME NEW t \in FrameTypes, PostMessage(t)
      PROVE  Held'
  <2>1. posted' \in Seq(FrameTypes)
    BY <1>0, <1>9, AppendProperties DEF PostMessage, TypeOK
  <2> QED
    BY <1>0, <1>9, <2>1 DEF PostMessage, TypeOK
<1>10. CASE OnUserThreadend
  <2>1. /\ m_commOpened' = m_commOpened /\ m_comStateStr' = m_comStateStr
        /\ m_openAnswerEd' \in BOOLEAN /\ m_checkOn' \in BOOLEAN
        /\ m_editOther' \in Seq(Nat) /\ otherText' \in Seq(Nat)
        /\ posted' \in Seq(FrameTypes) /\ log' \in Seq(FrameTypes)
    BY <1>0, <1>10, FrameTypeOK DEF OnUserThreadend
  <2> QED
    BY <1>0, <1>10, <2>1 DEF OnUserThreadend, TypeOK
<1> QED
  BY <1>1, <1>2, <1>3, <1>4, <1>5, <1>6, <1>7, <1>8, <1>9, <1>10 DEF Next, Opening

\* Types hold, and flag, button and device agree after every way an open or a
\* close can end (OnBnClickedOpen, CWorkThread::open).
THEOREM ButtonFollowsDeviceHolds == Spec => [](TypeOK /\ ButtonFollowsDevice)
<1>1. Held => TypeOK /\ ButtonFollowsDevice
  BY DEF Held
<1> QED
  BY <1>1, InitHeld, NextHeld, PTL DEF Spec
-----------------------------------------------------------------------------
(***************************************************************************)
(* The title.                                                              *)
(***************************************************************************)
\* What a frame of type t makes of the last word on a flag.
LEMMA ReportedAppend ==
  ASSUME log \in Seq(FrameTypes), NEW t \in FrameTypes, log' = Append(log, t),
         NEW types, NEW on \in SUBSET types
  PROVE  /\ t \in types => (Reported(types, on)' <=> t \in on)
         /\ t \notin types => (Reported(types, on)' <=> Reported(types, on))
<1>1. /\ Len(log') = Len(log) + 1 /\ Len(log) \in Nat
      /\ \A n \in 1..Len(log) : log'[n] = log[n]
      /\ log'[Len(log) + 1] = t
  BY AppendProperties, LenProperties
<1>2. Reported(types, on)' <=>
        \E n \in 1..Len(log) + 1 :
            log'[n] \in on /\ \A k \in n + 1..Len(log) + 1 : log'[k] \notin types
  BY <1>1 DEF Reported
<1>3. CASE t \in types
  <2>1. ASSUME NEW n \in 1..Len(log) + 1, \A k \in n + 1..Len(log) + 1 : log'[k] \notin types
        PROVE  n = Len(log) + 1
    <3>1. CASE n <= Len(log)
      <4>1. Len(log) + 1 \in n + 1..Len(log) + 1
        BY <1>1, <3>1
      <4> QED
        BY <1>1, <1>3, <2>1, <4>1
    <3> QED
      BY <1>1, <3>1
  <2>2. Reported(types, on)' <=> t \in on
    <3>1. ASSUME t \in on PROVE Reported(types, on)'
      <4>1. Len(log) + 1 \in 1..Len(log) + 1
            /\ \A k \in (Len(log) + 1) + 1..Len(log) + 1 : log'[k] \notin types
        BY <1>1
      <4> QED
        BY <1>1, <1>2, <3>1, <4>1
    <3>2. ASSUME Reported(types, on)' PROVE t \in on
      BY <1>1, <1>2, <2>1, <3>2
    <3> QED
      BY <3>1, <3>2
  <2> QED
    BY <1>3, <2>2
<1>4. CASE t \notin types
  <2>1. ASSUME Reported(types, on)' PROVE Reported(types, on)
    <3>1. PICK n \in 1..Len(log) + 1 :
            log'[n] \in on /\ \A k \in n + 1..Len(log) + 1 : log'[k] \notin types
      BY <1>2, <2>1
    <3>2. n # Len(log) + 1
      BY <1>1, <1>4, <3>1
    <3>3. n \in 1..Len(log) /\ log[n] \in on
      BY <1>1, <3>1, <3>2
    <3>4. ASSUME NEW k \in n + 1..Len(log) PROVE log[k] \notin types
      <4>1. k \in n + 1..Len(log) + 1 /\ k \in 1..Len(log)
        BY <1>1, <3>3
      <4> QED
        BY <1>1, <3>1, <4>1
    <3> QED
      BY <3>3, <3>4 DEF Reported
  <2>2. ASSUME Reported(types, on) PROVE Reported(types, on)'
    <3>1. PICK n \in 1..Len(log) :
            log[n] \in on /\ \A k \in n + 1..Len(log) : log[k] \notin types
      BY <2>2 DEF Reported
    <3>2. n \in 1..Len(log) + 1 /\ log'[n] \in on
      BY <1>1, <3>1
    <3>3. ASSUME NEW k \in n + 1..Len(log) + 1 PROVE log'[k] \notin types
      <4>1. CASE k = Len(log) + 1
        BY <1>1, <1>4, <4>1
      <4>2. CASE k # Len(log) + 1
        <5>1. k \in n + 1..Len(log) /\ k \in 1..Len(log)
          BY <1>1, <4>2
        <5> QED
          BY <1>1, <3>1, <5>1
      <4> QED
        BY <4>1, <4>2
    <3> QED
      BY <1>2, <3>2, <3>3
  <2> QED
    BY <1>4, <2>1, <2>2
<1> QED
  BY <1>3, <1>4

\* Both flags are what the frames dispatched so far last said.
Answers == Reported({1, 2, 3}, {1, 2})
Checks == Reported({4, 5, 6}, {4, 5})

FlagsReported ==
    /\ m_openAnswerEd <=> Answers
    /\ m_checkOn <=> Checks

\* Outside an open the title is what updateState would write, and the first part
\* of it belongs to the device held.
TitleFresh ==
    ~ InOpen =>
        /\ title = Caption(m_commOpened, m_comStateStr, m_openAnswerEd, m_checkOn)
        /\ m_comStateStr = IF held = <<>> THEN NotOpen ELSE held[1].text

LEMMA InitTitle == Init => FlagsReported /\ TitleFresh
<1> SUFFICES ASSUME Init PROVE FlagsReported /\ TitleFresh
  OBVIOUS
<1>1. ~ Answers /\ ~ Checks
  <2>1. log = <<>> /\ Len(log) = 0
    BY EmptySeq DEF Init
  <2> QED
    BY <2>1 DEF Answers, Checks, Reported
<1> QED
  BY <1>1 DEF Init, FlagsReported, TitleFresh, InOpen, Caption, Answers, Checks, Reported

LEMMA NextFlags == Held /\ FlagsReported /\ [Next]_vars => FlagsReported'
<1> SUFFICES ASSUME TypeOK, FlagsReported, [Next]_vars PROVE FlagsReported'
  BY DEF Held
<1>1. CASE OnUserThreadend
  <2> DEFINE t == Head(posted)
  <2>1. t \in FrameTypes /\ log \in Seq(FrameTypes) /\ log' = Append(log, t)
    BY <1>1, HeadTailProperties DEF OnUserThreadend, TypeOK
  <2>2. /\ t \in {1, 2, 3} => (Answers' <=> t \in {1, 2})
        /\ t \notin {1, 2, 3} => (Answers' <=> Answers)
        /\ t \in {4, 5, 6} => (Checks' <=> t \in {4, 5})
        /\ t \notin {4, 5, 6} => (Checks' <=> Checks)
    BY <2>1, ReportedAppend DEF Answers, Checks
  <2>3. getMsgOne(t)
    BY <1>1 DEF OnUserThreadend
  <2> HIDE DEF t
  <2>4. CASE t \in {1, 2, 3} /\ setOpenAnswerEd(t \in {1, 2})
    <3>1. (m_openAnswerEd' <=> t \in {1, 2}) /\ m_checkOn' = m_checkOn
      BY <2>4 DEF setOpenAnswerEd
    <3> QED
      BY <2>2, <2>4, <3>1 DEF FlagsReported
  <2>5. CASE t \in {4, 5, 6} /\ setCheckOn(t \in {4, 5})
    <3>1. (m_checkOn' <=> t \in {4, 5}) /\ m_openAnswerEd' = m_openAnswerEd
      BY <2>5 DEF setCheckOn
    <3> QED
      BY <2>2, <2>5, <3>1 DEF FlagsReported
  <2>6. CASE t = 7 /\ UNCHANGED flags
    BY <2>2, <2>6 DEF flags, FlagsReported
  <2> QED
    BY <2>3, <2>4, <2>5, <2>6 DEF getMsgOne, flags
<1>2. CASE UNCHANGED <<log, m_openAnswerEd, m_checkOn>>
  BY <1>2 DEF FlagsReported, Answers, Checks, Reported
<1>3. ~ OnUserThreadend => UNCHANGED <<log, m_openAnswerEd, m_checkOn>>
  BY DEF Next, Opening, CloseClicked, ShowClosed, OpenRefused, OpenDevice, Configured,
         NotConfigured, NoAttributes, OpenBoxClosed, CommandClicked, CommandRefused,
         NotOpenBoxClosed, PostMessage, OnEnChangeEdit1, vars, flags, pane, queues
<1> QED
  BY <1>1, <1>2, <1>3

LEMMA NextTitle == Held /\ Held' /\ TitleFresh /\ [Next]_vars => TitleFresh'
<1> SUFFICES ASSUME Held, Held', TitleFresh, [Next]_vars PROVE TitleFresh'
  OBVIOUS
<1> USE DEF TitleFresh, InOpen, Caption, updateState, flags, pane, queues
<1>1. CASE CloseClicked \/ OpenBoxClosed \/ NoAttributes
  <2>1. ShowClosed
    BY <1>1 DEF CloseClicked, OpenBoxClosed, NoAttributes
  <2>2. held' = <<>>
    BY <2>1 DEF Held, ButtonFollowsDevice, ShowClosed
  <2> QED
    BY <2>1, <2>2 DEF ShowClosed
<1>2. CASE (\E s \in Speeds : OpenRefused(s)) \/ NotConfigured
           \/ (\E s \in Speeds, k \in Kinds : OpenDevice(s, k))
  BY <1>2 DEF OpenRefused, NotConfigured, OpenDevice
<1>3. CASE Configured
  <2>1. held # <<>> /\ Len(held) <= 1 /\ held \in Seq(Device) /\ held[1].text = speed
    BY <1>3 DEF Configured, Held, TypeOK, ButtonFollowsDevice, Device
  <2>2. held[1] \in Device /\ Len(held) = 1
    BY <2>1, OneElement
  <2>3. held'[1].text = speed
    BY <1>3, <2>1, <2>2 DEF Configured, Device
  <2>4. held' # <<>>
    BY <1>3 DEF Configured, Held, ButtonFollowsDevice
  <2> QED
    BY <1>3, <2>3, <2>4 DEF Configured
<1>4. CASE (\E c \in Commands : CommandClicked(c)) \/ (\E t \in FrameTypes : PostMessage(t))
           \/ OnEnChangeEdit1 \/ CommandRefused \/ UNCHANGED vars
  BY <1>4 DEF CommandClicked, PostMessage, OnEnChangeEdit1, CommandRefused, vars
<1>5. CASE NotOpenBoxClosed
  BY <1>5 DEF NotOpenBoxClosed
<1>6. CASE OnUserThreadend
  <2>1. /\ getMsgOne(Head(posted))
        /\ step' = step /\ held' = held
    BY <1>6 DEF OnUserThreadend
  <2> DEFINE t == Head(posted)
  <2>2. CASE setOpenAnswerEd(t \in {1, 2})
    BY <2>1, <2>2 DEF setOpenAnswerEd
  <2>3. CASE setCheckOn(t \in {4, 5})
    BY <2>1, <2>3 DEF setCheckOn
  <2>4. CASE UNCHANGED <<flags, m_commOpened, m_comStateStr, title>>
    BY <2>1, <2>4
  <2> QED
    BY <2>1, <2>2, <2>3, <2>4 DEF getMsgOne
<1> QED
  BY <1>1, <1>2, <1>3, <1>4, <1>5, <1>6 DEF Next, Opening

\* Outside an open the title shows the text the device held was opened with and
\* the last word of the frames, boxes and frames in any order, and the device runs
\* at the number _ttoi takes from that text, the speed meant where the text is one
\* of the list's (updateState, wgwDlg.cpp:650, HIDSpeed, common.cpp:5).
THEOREM TitleTellsHolds == Spec => []TitleTells
<1>1. Held /\ FlagsReported /\ TitleFresh => TitleTells
  <2> SUFFICES ASSUME Held, FlagsReported, TitleFresh, ~ InOpen
               PROVE  IF held = <<>> THEN title = <<NotOpen>>
                      ELSE /\ title = <<Head(held).text, Answers, Checks>>
                           /\ RunsAt(Head(held), ttoi[Head(held).text])
                           /\ \A n \in 1..13 : Head(held).text = ComboBox[n] =>
                                                  RunsAt(Head(held), Listed[n])
    BY DEF TitleTells, Answers, Checks
  <2>1. CASE held = <<>>
    BY <2>1 DEF Held, ButtonFollowsDevice, TitleFresh, Caption
  <2>2. CASE held # <<>>
    <3>1. Head(held) = held[1] /\ held[1] \in Device
      BY <2>2, OneElement DEF Held, TypeOK, Device
    <3>2. RunsAt(held[1], ttoi[held[1].text])
      BY <2>2 DEF Held, TypeOK, InOpen
    <3>3. m_commOpened
      BY <2>2 DEF Held, ButtonFollowsDevice
    <3>4. title = <<held[1].text, Answers, Checks>>
      <4>1. title = <<held[1].text, m_openAnswerEd, m_checkOn>>
        BY <2>2, <3>3 DEF TitleFresh, Caption
      <4>2. m_openAnswerEd \in BOOLEAN /\ m_checkOn \in BOOLEAN
        BY DEF Held, TypeOK
      <4>3. m_openAnswerEd = Answers /\ m_checkOn = Checks
        BY <4>2, Zenon DEF FlagsReported, Answers, Checks, Reported
      <4> QED
        BY <4>1, <4>3
    <3>5. ASSUME NEW n \in 1..13, held[1].text = ComboBox[n]
          PROVE  RunsAt(held[1], Listed[n])
      <4>1. held[1].text \in Speeds
        BY <3>1 DEF Device
      <4>2. ttoi[held[1].text] = Listed[n]
        BY <3>5, <4>1, ttoiAssumption
      <4> QED
        BY <3>2, <4>2
    <3> QED
      BY <2>2, <3>1, <3>2, <3>4, <3>5
  <2> QED
    BY <2>1, <2>2
<1> QED
  BY <1>1, InitHeld, NextHeld, InitTitle, NextFlags, NextTitle, PTL DEF Spec
-----------------------------------------------------------------------------
(***************************************************************************)
(* The pane of other messages.                                             *)
(***************************************************************************)
LEMMA NextPane ==
  ASSUME Held, PaneKeepsFrames, otherText = m_editOther, [Next]_vars
  PROVE  PaneKeepsFrames' /\ otherText' = m_editOther'
<1> USE DEF flags, pane, queues
<1>1. CASE OnUserThreadend
  <2> DEFINE t == Head(posted)
             new == Len(log) + 1
  <2>1. /\ t \in FrameTypes /\ log \in Seq(FrameTypes) /\ log' = Append(log, t)
        /\ m_editOther \in Seq(Nat) /\ Len(log) \in Nat
    BY <1>1, HeadTailProperties, LenProperties DEF OnUserThreadend, Held, TypeOK
  <2>2. /\ Len(log') = new /\ log'[new] = t
        /\ \A n \in 1..Len(log) : log'[n] = log[n]
    BY <2>1, AppendProperties
  <2>3. getMsgOne(t)
    BY <1>1 DEF OnUserThreadend
  <2> HIDE DEF t
  <2>4. CASE t # 7 /\ UNCHANGED <<m_editOther, otherText>>
    <3>1. {n \in 1..Len(log') : log'[n] = 7} = {n \in 1..Len(log) : log[n] = 7}
      BY <2>1, <2>2, <2>4
    <3> QED
      BY <2>4, <3>1 DEF PaneKeepsFrames
  <2>5. CASE t = 7 /\ msgAppend
    <3>1. m_editOther' = <<new>> \o m_editOther /\ otherText' = m_editOther'
      BY <2>5 DEF msgAppend
    <3>2. /\ Len(m_editOther') = Len(m_editOther) + 1 /\ Len(m_editOther) \in Nat
          /\ m_editOther'[1] = new
          /\ \A n \in 2..Len(m_editOther) + 1 : m_editOther'[n] = m_editOther[n - 1]
      <4>1. <<new>> \in Seq(Nat) /\ Len(<<new>>) = 1 /\ <<new>>[1] = new
        BY <2>1
      <4> QED
        BY <2>1, <3>1, <4>1, ConcatProperties, LenProperties
    <3>3. \A n \in 1..Len(m_editOther) :
             /\ m_editOther[n] \in Nat /\ m_editOther[n] < new
             /\ m_editOther[n] \in {k \in 1..Len(log) : log[k] = 7}
      BY <2>1, SMTT(30) DEF PaneKeepsFrames
    <3>4. \A a, b \in 1..Len(m_editOther') : a < b => m_editOther'[a] > m_editOther'[b]
      <4> SUFFICES ASSUME NEW a \in 1..Len(m_editOther'), NEW b \in 1..Len(m_editOther'), a < b
                   PROVE  m_editOther'[a] > m_editOther'[b]
        OBVIOUS
      <4>1. /\ b - 1 \in 1..Len(m_editOther) /\ b \in 2..Len(m_editOther) + 1
            /\ m_editOther'[b] = m_editOther[b - 1]
        BY <3>2
      <4>2. CASE a = 1
        BY <2>1, <3>2, <3>3, <4>1, <4>2
      <4>3. CASE a # 1
        <5>1. /\ a - 1 \in 1..Len(m_editOther) /\ a - 1 < b - 1
              /\ m_editOther'[a] = m_editOther[a - 1]
          BY <3>2, <4>3
        <5> QED
          BY <4>1, <5>1 DEF PaneKeepsFrames
      <4> QED
        BY <4>2, <4>3
    <3>5. {m_editOther'[n] : n \in 1..Len(m_editOther')}
              = {m_editOther[n] : n \in 1..Len(m_editOther)} \union {new}
      <4>1. ASSUME NEW n \in 1..Len(m_editOther')
            PROVE  m_editOther'[n] \in {m_editOther[k] : k \in 1..Len(m_editOther)} \union {new}
        <5>1. CASE n = 1
          BY <3>2, <5>1
        <5>2. CASE n # 1
          <6>1. n - 1 \in 1..Len(m_editOther) /\ m_editOther'[n] = m_editOther[n - 1]
            BY <3>2, <5>2
          <6> QED
            BY <6>1
        <5> QED
          BY <5>1, <5>2
      <4>2. ASSUME NEW n \in 1..Len(m_editOther)
            PROVE  m_editOther[n] \in {m_editOther'[k] : k \in 1..Len(m_editOther')}
        <5>1. n + 1 \in 1..Len(m_editOther') /\ m_editOther'[n + 1] = m_editOther[n]
          BY <3>2
        <5> QED
          BY <5>1
      <4>3. new \in {m_editOther'[k] : k \in 1..Len(m_editOther')}
        <5>1. 1 \in 1..Len(m_editOther')
          BY <3>2
        <5> QED
          BY <3>2, <5>1
      <4> QED
        BY <4>1, <4>2, <4>3
    <3>6. {n \in 1..Len(log') : log'[n] = 7} = {n \in 1..Len(log) : log[n] = 7} \union {new}
      BY <2>1, <2>2, <2>5
    <3> QED
      BY <3>1, <3>4, <3>5, <3>6 DEF PaneKeepsFrames
  <2> QED
    BY <2>3, <2>4, <2>5 DEF getMsgOne
<1>2. CASE OnEnChangeEdit1
  BY <1>2 DEF OnEnChangeEdit1, PaneKeepsFrames
<1>3. CASE UNCHANGED <<log, m_editOther, otherText>>
  BY <1>3 DEF PaneKeepsFrames
<1>4. ~ OnUserThreadend /\ ~ OnEnChangeEdit1 => UNCHANGED <<log, m_editOther, otherText>>
  BY DEF Next, Opening, CloseClicked, ShowClosed, OpenRefused, OpenDevice, Configured,
         NotConfigured, NoAttributes, OpenBoxClosed, CommandClicked, CommandRefused,
         NotOpenBoxClosed, PostMessage, vars
<1> QED
  BY <1>1, <1>2, <1>3, <1>4

\* No line of the pane is lost or out of order, whatever is typed into its edit
\* control, because the window text is never behind the lines (DlgOther.cpp:46).
THEOREM PaneKeepsFramesHolds == Spec => []PaneKeepsFrames
<1> DEFINE Shown == PaneKeepsFrames /\ otherText = m_editOther
<1>1. Init => Shown
  <2> SUFFICES ASSUME Init PROVE Shown
    OBVIOUS
  <2>1. m_editOther = <<>> /\ log = <<>> /\ Len(<<>>) = 0
    BY EmptySeq DEF Init
  <2> QED
    BY <2>1 DEF Init, PaneKeepsFrames
<1>2. Held /\ Shown /\ [Next]_vars => Shown'
  BY NextPane
<1>3. Shown => PaneKeepsFrames
  OBVIOUS
<1> QED
  BY <1>1, <1>2, <1>3, InitHeld, NextHeld, PTL DEF Spec
=============================================================================
