-------------------------- MODULE WorkThreadProofs --------------------------
(***************************************************************************)
(* Theorems about WorkThread, for any number of commands, sessions,        *)
(* handles and overlapped reads.                                           *)
(***************************************************************************)
EXTENDS WorkThread, SequenceTheorems, TLAPS

(***************************************************************************)
(* The newest session: no device but its own is open, and Run's copy, once *)
(* made in it, is its pair.                                                *)
(***************************************************************************)
KindOf(isHid) == IF isHid THEN "hid" ELSE "com"

Newest ==
    /\ m_commOpened => Len(sessions) > 0
    /\ Len(sessions) > 0 => sessions[Len(sessions)].hand = m_hand.hand
    /\ \A h \in Handle : device[h] # "none" =>
          /\ m_commOpened /\ h = m_hand.hand
          /\ device[h] \in {KindOf(m_hand.isCH9326), "gone"}
    /\ copied <= Len(sessions)
    /\ copied = Len(sessions) => COMFile = m_hand.hand /\ isCH9326 = m_hand.isCH9326

\* What a device takes, the newest session's device takes.
LEMMA TakenByNewest ==
  ASSUME TypeOK, Newest, NEW h \in Handle, device[h] # "none"
  PROVE  SessionOf(h) = Len(sessions) /\ Len(sessions) \in Nat /\ Len(sessions) > 0
<1>1. /\ Len(sessions) \in Nat /\ Len(sessions) > 0
      /\ sessions[Len(sessions)].hand = h
  BY LenProperties DEF TypeOK, Newest
<1> DEFINE Last(n) == /\ sessions[n].hand = h
                      /\ \A k \in n + 1..Len(sessions) : sessions[k].hand # h
<1>2. Len(sessions) \in 1..Len(sessions) /\ Last(Len(sessions))
  BY <1>1
<1>3. ASSUME NEW n \in 1..Len(sessions), Last(n) PROVE n = Len(sessions)
  <2>1. n < Len(sessions) => Len(sessions) \in n + 1..Len(sessions)
    BY <1>1
  <2> QED
    BY <1>1, <1>3, <2>1
<1> HIDE DEF Last
<1>4. (CHOOSE n \in 1..Len(sessions) : Last(n)) = Len(sessions)
  BY <1>2, <1>3
<1> QED
  BY <1>1, <1>4 DEF SessionOf, Last

LEMMA InitNewest == Init => Newest
<1> SUFFICES ASSUME Init PROVE Newest
  OBVIOUS
<1>1. Len(sessions) = 0 /\ copied = 0 /\ m_commOpened = FALSE
  BY DEF Init
<1>2. COMFile = m_hand.hand /\ isCH9326 = m_hand.isCH9326
  BY DEF Init
<1>3. \A h \in Handle : device[h] = "none"
  BY DEF Init
<1> QED
  BY <1>1, <1>2, <1>3 DEF Newest

LEMMA NextNewest == TypeOK /\ Newest /\ [Next]_vars => Newest'
<1> SUFFICES ASSUME TypeOK, Newest, [Next]_vars PROVE Newest'
  OBVIOUS
<1>0. /\ Len(sessions) \in Nat /\ sessions \in Seq([hand : Handle, kind : Kinds])
      /\ copied \in Nat /\ device \in [Handle -> {"none", "com", "hid", "gone"}]
      /\ m_hand \in [hand : Handle \union {INVALID}, isCH9326 : BOOLEAN]
  BY LenProperties DEF TypeOK
<1>1. ASSUME NEW h \in Handle, NEW k \in Kinds, Open(h, k)
      PROVE  Newest'
  <2>1. /\ Len(sessions') = Len(sessions) + 1
        /\ sessions'[Len(sessions) + 1] = [hand |-> h, kind |-> k]
    BY <1>0, <1>1, AppendProperties DEF Open
  <2>2. /\ m_hand'.hand = h /\ KindOf(m_hand'.isCH9326) = k
        /\ m_commOpened' /\ UNCHANGED copied
    BY <1>1, KindsAssumption DEF Open, setHand, KindOf, origin
  <2>3. \A x \in Handle : device'[x] = IF x = h THEN k ELSE "none"
    BY <1>0, <1>1 DEF Open, Newest
  <2>4. copied <= Len(sessions)
    BY DEF Newest
  <2> QED
    BY <1>0, <2>1, <2>2, <2>3, <2>4 DEF Newest
<1>2. CASE Close
  <2>1. \A x \in Handle : device'[x] = "none"
    BY <1>0, <1>2 DEF Close, Newest
  <2>2. /\ m_commOpened' = FALSE
        /\ UNCHANGED <<m_hand, sessions, copied, COMFile, isCH9326>>
    BY <1>2 DEF Close, shared, local, history, origin
  <2> QED
    BY <2>1, <2>2 DEF Newest
<1>3. CASE Unplug
  <2>1. \A x \in Handle : device'[x] \in {device[x], "gone"} /\ (device'[x] # "none" => device[x] # "none")
    BY <1>0, <1>3 DEF Unplug
  <2>2. UNCHANGED <<m_hand, m_commOpened, sessions, copied, COMFile, isCH9326>>
    BY <1>3 DEF Unplug, shared, local, history, origin
  <2> QED
    BY <2>1, <2>2 DEF Newest
<1>4. CASE GetHand
  <2>1. /\ UNCHANGED <<m_hand, device, m_commOpened, sessions>>
        /\ copied' = Len(sessions) /\ COMFile' = m_hand.hand /\ isCH9326' = m_hand.isCH9326
    BY <1>4 DEF GetHand, shared, world
  <2> QED
    BY <1>0, <2>1 DEF Newest
<1>5. ASSUME UNCHANGED <<m_hand, device, m_commOpened, sessions, copied, COMFile, isCH9326>>
      PROVE  Newest'
  BY <1>5 DEF Newest
<1>6. CASE AddInput \/ AddInputRefused \/ ReadCompletes
  BY <1>5, <1>6 DEF AddInput, AddInputRefused, ReadCompletes, shared, local, world, history, origin
<1>7. CASE WaitHand \/ WaitRead \/ WaitQueue \/ WaitTimeout \/ TakeOnRead \/ TakeOnQueue
  BY <1>5, <1>7 DEF WaitHand, WaitRead, WaitQueue, WaitTimeout, TakeOnRead, TakeOnQueue,
                    shared, world, history, origin
<1>8. CASE WriteHid \/ WriteCom \/ WriteComFails \/ WriteDone \/ ReadNothing \/ ReadCommBlock
  BY <1>5, <1>8 DEF WriteHid, WriteCom, WriteComFails, WriteDone, ReadNothing, ReadCommBlock,
                    shared, world, history, origin
<1>9. CASE RetryHid \/ UNCHANGED vars
  BY <1>5, <1>9 DEF RetryHid, vars, shared, local, world, history, origin
<1> QED
  BY <1>1, <1>2, <1>3, <1>4, <1>6, <1>7, <1>8, <1>9 DEF Next, Dialog, Run
-----------------------------------------------------------------------------
LEMMA InitType == Init => TypeOK
<1> SUFFICES ASSUME Init PROVE TypeOK
  OBVIOUS
<1>1. /\ m_output \in Seq(Nat) /\ output \in Seq(Nat) /\ delivered \in Seq(Nat)
      /\ sessions \in Seq([hand : Handle, kind : Kinds])
      /\ issuedIn \in Seq(Nat) /\ reached \in Seq(Nat)
  BY DEF Init
<1>2. m_hand \in [hand : Handle \union {INVALID}, isCH9326 : BOOLEAN]
  BY DEF Init
<1>3. device \in [Handle -> {"none", "com", "hid", "gone"}]
  BY DEF Init
<1>4. reads \in 0..MaxReads /\ sent \in 0..MaxSent
  BY BoundsAssumption DEF Init
<1> QED
  BY <1>1, <1>2, <1>3, <1>4 DEF Init, TypeOK

LEMMA NextType == TypeOK /\ Newest /\ [Next]_vars => TypeOK'
<1> SUFFICES ASSUME TypeOK, Newest, [Next]_vars PROVE TypeOK'
  OBVIOUS
<1> USE HandleAssumption, KindsAssumption, BoundsAssumption
    DEF TypeOK, shared, local, world, history, origin
<1>0. Len(sessions) \in Nat /\ Append(issuedIn, Len(sessions)) \in Seq(Nat)
  BY LenProperties, AppendProperties
<1>1. ASSUME NEW h \in Handle, NEW k \in Kinds, Open(h, k)
      PROVE  TypeOK'
  <2>1. sessions' \in Seq([hand : Handle, kind : Kinds])
    BY <1>1, AppendProperties DEF Open
  <2> QED
    BY <1>1, <2>1 DEF Open, setHand
<1>2. CASE Close
  <2>1. device' \in [Handle -> {"none", "com", "hid", "gone"}]
    BY <1>2 DEF Close
  <2>2. reads' \in 0..MaxReads
    <3>1. reads' = reads \/ reads' = 0
      BY <1>2 DEF Close
    <3> QED
      BY <3>1
  <2>3. osRead' \in BOOLEAN
    <3>1. osRead' = osRead \/ osRead' = TRUE
      BY <1>2 DEF Close
    <3> QED
      BY <3>1
  <2> QED
    BY <1>2, <2>1, <2>2, <2>3 DEF Close
<1>3. CASE AddInput
  <2>1. sent + 1 \in Nat
    OBVIOUS
  <2>2. m_output' \in Seq(Nat)
    BY <1>3, <2>1, AppendProperties DEF AddInput
  <2> QED
    BY <1>0, <1>3, <2>2 DEF AddInput
<1>4. CASE AddInputRefused
  BY <1>0, <1>4 DEF AddInputRefused
<1>5. CASE Unplug
  BY <1>5 DEF Unplug
<1>6. CASE ReadCompletes
  BY <1>6 DEF ReadCompletes
<1>7. CASE GetHand
  BY <1>0, <1>7 DEF GetHand
<1>8. CASE WaitHand \/ WaitRead \/ WaitQueue \/ WaitTimeout
  <2>1. CASE WaitHand
    BY <2>1 DEF WaitHand
  <2>2. CASE WaitRead
    BY <2>2 DEF WaitRead
  <2>3. CASE WaitQueue
    BY <2>3 DEF WaitQueue
  <2>4. CASE WaitTimeout
    BY <2>4 DEF WaitTimeout
  <2> QED
    BY <1>8, <2>1, <2>2, <2>3, <2>4
<1>9. CASE TakeOnRead \/ TakeOnQueue
  <2>1. output' \in Seq(Nat) /\ m_output' \in Seq(Nat)
    <3>1. output' = m_output /\ m_output' = <<>>
      BY <1>9 DEF TakeOnRead, TakeOnQueue, getInput
    <3>2. m_output \in Seq(Nat)
      BY DEF TypeOK
    <3> QED
      BY <3>1, <3>2, EmptySeq
  <2>2. CASE TakeOnRead
    BY <2>1, <2>2 DEF TakeOnRead, getInput
  <2>3. CASE TakeOnQueue
    BY <2>1, <2>3 DEF TakeOnQueue, getInput
  <2> QED
    BY <1>9, <2>2, <2>3
<1>10. CASE WriteHid \/ WriteCom \/ WriteComFails
  <2>1. output # <<>> /\ output' = Tail(output)
    BY <1>10 DEF WriteHid, WriteCom, WriteComFails, Writes
  <2>2. Head(output) \in Nat /\ output' \in Seq(Nat)
    BY <2>1, HeadTailProperties
  <2>3. Append(delivered, Head(output)) \in Seq(Nat)
    BY <2>2, AppendProperties
  <2>7. ASSUME COMFile \in Handle, device[COMFile] # "none"
        PROVE  Append(reached, SessionOf(COMFile)) \in Seq(Nat)
    BY <2>7, TakenByNewest, AppendProperties
  <2>4. CASE WriteHid
    BY <2>2, <2>3, <2>4, <2>7 DEF WriteHid, Writes
  <2>5. CASE WriteCom
    BY <2>2, <2>3, <2>5, <2>7 DEF WriteCom, Writes
  <2>6. CASE WriteComFails
    BY <2>2, <2>6 DEF WriteComFails
  <2> QED
    BY <1>10, <2>4, <2>5, <2>6
<1>11. CASE RetryHid \/ UNCHANGED vars
  BY <1>11 DEF RetryHid, vars
<1>12. CASE WriteDone \/ ReadNothing
  BY <1>12 DEF WriteDone, ReadNothing
<1>13. CASE ReadCommBlock
  <2>1. reads' \in 0..MaxReads
    <3>1. reads' = reads \/ (reads < MaxReads /\ reads' = reads + 1)
      BY <1>13 DEF ReadCommBlock
    <3> QED
      BY <3>1
  <2>2. osRead' \in BOOLEAN
    <3>1. osRead' = TRUE \/ osRead' = FALSE
      BY <1>13 DEF ReadCommBlock
    <3> QED
      BY <3>1
  <2> QED
    BY <1>13, <2>1, <2>2 DEF ReadCommBlock
<1> QED
  BY <1>1, <1>2, <1>3, <1>4, <1>5, <1>6, <1>7, <1>8, <1>9, <1>10, <1>11, <1>12, <1>13
     DEF Next, Dialog, Run

\* Types hold throughout; in particular Run never waits, writes or reads with
\* INVALID_HANDLE_VALUE, and close is never called on it.
THEOREM TypeInvariant == Spec => []TypeOK
BY InitType, NextType, InitNewest, NextNewest, PTL DEF Spec

LEMMA NewestInvariant == Spec => [](TypeOK /\ Newest)
BY InitType, NextType, InitNewest, NextNewest, PTL DEF Spec

\* The queue event is never consumed without the queue being taken, so no
\* queued command is forgotten, however the dialog and Run interleave.
THEOREM NoLostWakeupHolds == Spec => []NoLostWakeup
<1>1. Init => NoLostWakeup
  BY DEF Init, NoLostWakeup
<1>2. TypeOK /\ NoLostWakeup /\ [Next]_vars => NoLostWakeup'
  <2> SUFFICES ASSUME TypeOK, NoLostWakeup, [Next]_vars PROVE NoLostWakeup'
    OBVIOUS
  <2> USE DEF NoLostWakeup, shared, local
  <2>1. CASE Dialog
    BY <2>1 DEF Dialog, Open, setHand, Close, AddInput, AddInputRefused
  <2>2. CASE Unplug \/ ReadCompletes
    BY <2>2 DEF Unplug, ReadCompletes
  <2>3. CASE GetHand \/ WaitHand \/ WaitRead \/ WaitQueue \/ WaitTimeout
    BY <2>3 DEF GetHand, WaitHand, WaitRead, WaitQueue, WaitTimeout
  <2>4. CASE TakeOnRead \/ TakeOnQueue
    BY <2>4 DEF TakeOnRead, TakeOnQueue, getInput
  <2>5. CASE WriteHid \/ WriteCom \/ WriteComFails \/ WriteDone
    BY <2>5 DEF WriteHid, WriteCom, WriteComFails, WriteDone
  <2>6. CASE ReadNothing \/ ReadCommBlock
    BY <2>6 DEF ReadNothing, ReadCommBlock
  <2>7. CASE RetryHid \/ UNCHANGED vars
    BY <2>7 DEF RetryHid, vars
  <2> QED
    BY <2>1, <2>2, <2>3, <2>4, <2>5, <2>6, <2>7 DEF Next, Run
<1> QED
  BY <1>1, <1>2, TypeInvariant, PTL DEF Spec
-----------------------------------------------------------------------------
(***************************************************************************)
(* Losses.  Inductive: while no COM device was opened the read event is    *)
(* never signalled, so the queue is only taken where it is written, and    *)
(* output is empty when it is assigned.                                    *)
(***************************************************************************)
NoCom == \A n \in 1..Len(sessions) : sessions[n].kind # "com"

HidState ==
    /\ \A h \in Handle : device[h] # "com"
    /\ m_hand.hand # INVALID => m_hand.isCH9326
    /\ COMFile # INVALID => isCH9326
    /\ osRead = FALSE
    /\ reads = 0
    /\ pc # "take0"
    /\ output # <<>> => pc = "write"
    /\ overwritten = {}
    /\ failed = {}

HidInv == NoCom => HidState

LEMMA NextHid == TypeOK /\ HidInv /\ [Next]_vars => HidInv'
<1> SUFFICES ASSUME TypeOK, HidInv, [Next]_vars, NoCom' PROVE HidState'
  BY DEF HidInv
<1> USE HandleAssumption DEF shared, local, world, history
<1>1. ASSUME NEW h \in Handle, NEW k \in Kinds, Open(h, k)
      PROVE  HidState'
  <2>1. sessions \in Seq([hand : Handle, kind : Kinds]) /\ Len(sessions) \in Nat
    BY LenProperties DEF TypeOK
  <2>2. /\ Len(sessions') = Len(sessions) + 1
        /\ sessions'[Len(sessions) + 1] = [hand |-> h, kind |-> k]
        /\ \A n \in 1..Len(sessions) : sessions'[n] = sessions[n]
    BY <1>1, <2>1, AppendProperties DEF Open
  <2>3. NoCom /\ k # "com"
    BY <2>1, <2>2 DEF NoCom
  <2>4. HidState /\ k = "hid"
    BY <2>3, KindsAssumption DEF HidInv
  <2>5. \A x \in Handle : device'[x] # "com"
    BY <1>1, <2>4 DEF Open, HidState, TypeOK
  <2>6. m_hand'.isCH9326
    BY <1>1, <2>4 DEF Open, setHand
  <2> QED
    BY <1>1, <2>4, <2>5, <2>6 DEF Open, HidState
<1>2. sessions' = sessions => HidState
  BY DEF NoCom, HidInv
<1>3. CASE Close
  <2>1. HidState
    BY <1>2, <1>3 DEF Close
  <2>2. \A x \in Handle : device'[x] # "com"
    BY <1>3, <2>1 DEF Close, HidState, TypeOK
  <2> QED
    BY <1>3, <2>1, <2>2 DEF Close, HidState
<1>4. CASE AddInput \/ AddInputRefused
  BY <1>2, <1>4 DEF AddInput, AddInputRefused, HidState
<1>5. CASE Unplug
  <2>1. HidState
    BY <1>2, <1>5 DEF Unplug
  <2>2. \A x \in Handle : device'[x] # "com"
    BY <1>5, <2>1 DEF Unplug, HidState, TypeOK
  <2> QED
    BY <1>5, <2>1, <2>2 DEF Unplug, HidState
<1>6. CASE ReadCompletes
  BY <1>2, <1>6 DEF ReadCompletes, HidState
<1>7. CASE GetHand
  BY <1>2, <1>7 DEF GetHand, HidState
<1>8. CASE WaitHand \/ WaitRead \/ WaitQueue \/ WaitTimeout
  BY <1>2, <1>8 DEF WaitHand, WaitRead, WaitQueue, WaitTimeout, HidState
<1>9. CASE TakeOnRead
  BY <1>2, <1>9 DEF TakeOnRead, HidState
<1>10. CASE TakeOnQueue
  <2>1. HidState /\ output = <<>>
    BY <1>2, <1>10 DEF TakeOnQueue, HidState
  <2>2. overwritten' = {}
    BY <1>10, <2>1 DEF TakeOnQueue, getInput, HidState, Elements
  <2> QED
    BY <1>10, <2>1, <2>2 DEF TakeOnQueue, HidState
<1>11. CASE WriteHid
  BY <1>2, <1>11 DEF WriteHid, Writes, HidState
<1>12. CASE WriteCom \/ WriteComFails
  BY <1>2, <1>12 DEF WriteCom, WriteComFails, HidState, TypeOK
<1>13. CASE WriteDone \/ ReadNothing
  BY <1>2, <1>13 DEF WriteDone, ReadNothing, HidState
<1>14. CASE ReadCommBlock
  BY <1>2, <1>14 DEF ReadCommBlock, HidState, TypeOK
<1>15. CASE RetryHid \/ UNCHANGED vars
  BY <1>2, <1>15 DEF RetryHid, vars, HidState
<1> QED
  BY <1>1, <1>3, <1>4, <1>5, <1>6, <1>7, <1>8, <1>9, <1>10, <1>11, <1>12, <1>13,
     <1>14, <1>15 DEF Next, Dialog, Run

LEMMA HidInvariant == Spec => [](TypeOK /\ HidInv)
<1>1. Init => HidInv
  BY DEF Init, HidInv, HidState
<1> QED
  BY <1>1, NextHid, TypeInvariant, PTL DEF Spec

\* Commands are overwritten or fail only after a COM device was opened: the HID
\* path of Run and WriteCommBlock loses nothing, whatever is closed or unplugged.
THEOREM LossNeedsComHolds == Spec => []LossNeedsCom
<1>1. HidInv => LossNeedsCom
  BY DEF HidInv, HidState, NoCom, LossNeedsCom
<1> QED
  BY <1>1, HidInvariant, PTL
-----------------------------------------------------------------------------
(***************************************************************************)
(* Refinement: output followed by m_output is the queue of CommandQueue.   *)
(***************************************************************************)

\* What the operations do to two sequences seen as one.
LEMMA ConcatAppend ==
  ASSUME NEW S, NEW s \in Seq(S), NEW t \in Seq(S), NEW e \in S
  PROVE  s \o Append(t, e) = Append(s \o t, e)
<1>1. <<e>> \in Seq(S)
  OBVIOUS
<1>2. Append(t, e) = t \o <<e>> /\ Append(s \o t, e) = (s \o t) \o <<e>>
  BY AppendIsConcat, ConcatProperties
<1> QED
  BY <1>1, <1>2, ConcatAssociative

LEMMA DropPrefix ==
  ASSUME NEW S, NEW s \in Seq(S), NEW t \in Seq(S)
  PROVE  SubSeq(s \o t, Len(s) + 1, Len(s \o t)) = t
<1> DEFINE m == Len(s) + 1
           n == Len(s) + Len(t)
           st == s \o t
<1>1. Len(s) \in Nat /\ Len(t) \in Nat
  BY LenProperties
<1>2. /\ st \in Seq(S) /\ Len(st) = n
      /\ \A i \in 1..n : st[i] = IF i <= Len(s) THEN s[i] ELSE t[i - Len(s)]
  BY ConcatProperties
<1> HIDE DEF st
<1>3. \A i \in m..n : st[i] \in S
  BY <1>1, <1>2, ElementOfSeq
<1>4. /\ SubSeq(st, m, n) \in Seq(S)
      /\ Len(SubSeq(st, m, n)) = IF m <= n THEN n - m + 1 ELSE 0
      /\ \A i \in 1..n - m + 1 : SubSeq(st, m, n)[i] = st[m + i - 1]
  BY <1>1, <1>3, SubSeqProperties
<1>5. Len(SubSeq(st, m, n)) = Len(t)
  BY <1>1, <1>4
<1>6. ASSUME NEW i \in 1..Len(t)
      PROVE  SubSeq(st, m, n)[i] = t[i]
  <2>1. SubSeq(st, m, n)[i] = st[m + i - 1]
    BY <1>1, <1>4
  <2>2. m + i - 1 \in 1..n /\ ~ (m + i - 1 <= Len(s)) /\ (m + i - 1) - Len(s) = i
    BY <1>1
  <2>3. st[m + i - 1] = t[(m + i - 1) - Len(s)]
    BY <1>2, <2>2
  <2> QED
    BY <2>1, <2>2, <2>3
<1>7. SubSeq(st, m, n) = t
  BY <1>4, <1>5, <1>6, SeqEqual
<1> QED
  BY <1>2, <1>7 DEF st

LEMMA HeadTailConcat ==
  ASSUME NEW S, NEW s \in Seq(S), NEW t \in Seq(S), s # <<>>
  PROVE  /\ s \o t # <<>>
         /\ Head(s \o t) = Head(s)
         /\ Tail(s \o t) = Tail(s) \o t
<1>1. Len(s) \in Nat \ {0} /\ Len(t) \in Nat
  BY EmptySeq, LenProperties
<1>2. /\ s \o t \in Seq(S) /\ Len(s \o t) = Len(s) + Len(t)
      /\ \A i \in 1..Len(s) + Len(t) : (s \o t)[i] = IF i <= Len(s) THEN s[i] ELSE t[i - Len(s)]
  BY ConcatProperties
<1>3. s \o t # <<>>
  BY <1>1, <1>2, EmptySeq
<1>4. Head(s \o t) = (s \o t)[1] /\ Head(s) = s[1]
  OBVIOUS
<1>5. Head(s \o t) = Head(s)
  BY <1>1, <1>2, <1>4
<1>6. /\ Tail(s) \in Seq(S) /\ Len(Tail(s)) = Len(s) - 1
      /\ \A i \in 1..Len(s) - 1 : Tail(s)[i] = s[i + 1]
  BY HeadTailProperties
<1>7. /\ Tail(s \o t) \in Seq(S) /\ Len(Tail(s \o t)) = Len(s) + Len(t) - 1
      /\ \A i \in 1..Len(s) + Len(t) - 1 : Tail(s \o t)[i] = (s \o t)[i + 1]
  BY <1>2, <1>3, HeadTailProperties
<1>8. /\ Tail(s) \o t \in Seq(S) /\ Len(Tail(s) \o t) = (Len(s) - 1) + Len(t)
      /\ \A i \in 1..(Len(s) - 1) + Len(t) :
            (Tail(s) \o t)[i] = IF i <= Len(s) - 1 THEN Tail(s)[i] ELSE t[i - (Len(s) - 1)]
  BY <1>6, ConcatProperties
<1>9. ASSUME NEW i \in 1..Len(s) + Len(t) - 1
      PROVE  Tail(s \o t)[i] = (Tail(s) \o t)[i]
  <2>1. Tail(s \o t)[i] = IF i + 1 <= Len(s) THEN s[i + 1] ELSE t[(i + 1) - Len(s)]
    BY <1>1, <1>2, <1>7
  <2>2. (Tail(s) \o t)[i] = IF i <= Len(s) - 1 THEN Tail(s)[i] ELSE t[i - (Len(s) - 1)]
    BY <1>1, <1>8
  <2>3. CASE i + 1 <= Len(s)
    BY <1>1, <1>6, <2>1, <2>2, <2>3
  <2>4. CASE ~ (i + 1 <= Len(s))
    <3>1. (i + 1) - Len(s) = i - (Len(s) - 1)
      BY <1>1
    <3> QED
      BY <1>1, <2>1, <2>2, <2>4, <3>1
  <2> QED
    BY <2>3, <2>4
<1>10. Tail(s \o t) = Tail(s) \o t
  <2>1. Len(Tail(s \o t)) = Len(Tail(s) \o t)
    BY <1>1, <1>7, <1>8
  <2> QED
    BY <1>7, <1>8, <1>9, <2>1, SeqEqual
<1> QED
  BY <1>3, <1>5, <1>10

pending == output \o m_output

LEMMA NextKeeps == TypeOK /\ HidInv /\ [Next]_vars => [CQ!Next]_(CQ!vars)
<1> SUFFICES ASSUME TypeOK, HidInv, [Next]_vars
             PROVE  CQ!Next \/ UNCHANGED CQ!vars
  OBVIOUS
<1> USE DEF shared, local, world, history, CQ!vars
<1>1. m_output \in Seq(Nat) /\ output \in Seq(Nat) /\ Len(m_output) \in Nat
      /\ Len(output) \in Nat
  BY LenProperties DEF TypeOK
<1>2. "com" \notin Kinds => HidState
  <2>1. "com" \notin Kinds => NoCom
    <3>1. \A n \in 1..Len(sessions) : sessions[n] \in [hand : Handle, kind : Kinds]
      BY ElementOfSeq DEF TypeOK
    <3> QED
      BY <3>1 DEF NoCom
  <2> QED
    BY <2>1 DEF HidInv
<1>3. CASE UNCHANGED <<sent, output, m_output, delivered>>
  BY <1>3
<1>4. CASE \E h \in Handle, k \in Kinds : Open(h, k)
  BY <1>3, <1>4 DEF Open
<1>5. CASE Close \/ Unplug \/ ReadCompletes
  BY <1>3, <1>5 DEF Close, Unplug, ReadCompletes
<1>6. CASE AddInput
  <2>1. sent + 1 \in Nat
    BY DEF TypeOK
  <2>2. output \o Append(m_output, sent + 1) = Append(output \o m_output, sent + 1)
    BY <1>1, <2>1, ConcatAppend
  <2> QED
    BY <1>6, <2>2 DEF AddInput, CQ!Next, CQ!Accept
<1>7. CASE AddInputRefused
  BY <1>7 DEF AddInputRefused, CQ!Next, CQ!Refuse
<1>8. CASE GetHand \/ WaitHand \/ WaitRead \/ WaitQueue \/ WaitTimeout
  BY <1>3, <1>8 DEF GetHand, WaitHand, WaitRead, WaitQueue, WaitTimeout
<1>9. CASE TakeOnRead \/ TakeOnQueue
  <2>1. /\ output' = m_output /\ m_output' = <<>> /\ sent' = sent /\ delivered' = delivered
    BY <1>9 DEF TakeOnRead, TakeOnQueue, getInput
  <2>2. output' \o m_output' = m_output
    BY <1>1, <2>1, ConcatEmptySeq
  <2>3. CASE output = <<>>
    <3>1. output \o m_output = m_output
      BY <1>1, <2>3, ConcatEmptySeq
    <3> QED
      BY <2>1, <2>2, <3>1
  <2>4. CASE output # <<>>
    <3>1. "com" \in Kinds
      BY <1>2, <1>9, <2>4 DEF TakeOnRead, TakeOnQueue, HidState
    <3>2. SubSeq(pending, Len(output) + 1, Len(pending)) = m_output
      BY <1>1, DropPrefix DEF pending
    <3>3. Len(output) # 0 /\ Len(pending) = Len(output) + Len(m_output)
      BY <1>1, <2>4, EmptySeq, ConcatProperties DEF pending
    <3>4. Len(output) \in 1..Len(pending)
      BY <1>1, <3>3
    <3> QED
      BY <2>1, <2>2, <3>1, <3>2, <3>4 DEF pending, CQ!Next, CQ!GiveUp
  <2> QED
    BY <2>3, <2>4
<1>10. CASE WriteHid \/ WriteCom
  <2>1. /\ output # <<>> /\ output' = Tail(output) /\ m_output' = m_output /\ sent' = sent
        /\ delivered' = Append(delivered, Head(output))
    BY <1>10 DEF WriteHid, WriteCom, Writes
  <2>2. /\ pending # <<>> /\ Head(pending) = Head(output)
        /\ Tail(pending) = output' \o m_output'
    BY <1>1, <2>1, HeadTailConcat DEF pending
  <2> QED
    BY <2>1, <2>2 DEF pending, CQ!Next, CQ!Write
<1>11. CASE WriteComFails
  <2>1. /\ output # <<>> /\ output' = Tail(output) /\ m_output' = m_output /\ sent' = sent
        /\ delivered' = delivered
    BY <1>11 DEF WriteComFails
  <2>2. "com" \in Kinds
    BY <1>2, <1>11, HandleAssumption DEF WriteComFails, HidState, TypeOK
  <2>3. pending # <<>> /\ Tail(pending) = output' \o m_output'
    BY <1>1, <2>1, HeadTailConcat DEF pending
  <2>4. pending \in Seq(Nat)
    BY <1>1, ConcatProperties DEF pending
  <2>5. Tail(pending) = SubSeq(pending, 1 + 1, Len(pending))
    BY <2>3, <2>4, TailIsSubSeq
  <2>6. 1 \in 1..Len(pending)
    BY <2>3, <2>4, EmptySeq
  <2> QED
    BY <2>1, <2>2, <2>3, <2>5, <2>6 DEF pending, CQ!Next, CQ!GiveUp
<1>12. CASE WriteDone \/ ReadNothing \/ ReadCommBlock
  BY <1>3, <1>12 DEF WriteDone, ReadNothing, ReadCommBlock
<1>13. CASE RetryHid \/ UNCHANGED vars
  BY <1>3, <1>13 DEF RetryHid, vars
<1> QED
  BY <1>4, <1>5, <1>6, <1>7, <1>8, <1>9, <1>10, <1>11, <1>12, <1>13 DEF Next, Dialog, Run

\* The work thread implements the command queue: accepted commands reach the
\* devices at most once and in the order they were issued, and where there are
\* only HID devices none is given up.
THEOREM CommandsKeptHolds == Spec => CommandsKept
<1>1. Init => CQ!Init
  <2>1. <<>> \o <<>> = <<>>
    OBVIOUS
  <2> QED
    BY <2>1 DEF Init, CQ!Init
<1> QED
  BY <1>1, NextKeeps, HidInvariant, PTL DEF Spec, CommandsKept, CQ!Spec
-----------------------------------------------------------------------------
(***************************************************************************)
(* Where the commands are.                                                 *)
(***************************************************************************)
Unique(q) == \A i, j \in 1..Len(q) : q[i] = q[j] => i = j

LEMMA AppendElement ==
  ASSUME NEW q \in Seq(Nat), NEW e \in Nat
  PROVE  /\ Elements(Append(q, e)) = Elements(q) \union {e}
         /\ Unique(q) /\ e \notin Elements(q) => Unique(Append(q, e))
<1>1. /\ Len(q) \in Nat /\ Len(Append(q, e)) = Len(q) + 1
      /\ Append(q, e)[Len(q) + 1] = e
      /\ \A n \in 1..Len(q) : Append(q, e)[n] = q[n]
  BY AppendProperties, LenProperties
<1>2. ASSUME NEW x PROVE x \in Elements(Append(q, e)) <=> x \in Elements(q) \/ x = e
  <2>1. \A n : n \in 1..Len(q) + 1 <=> n \in 1..Len(q) \/ n = Len(q) + 1
    BY <1>1
  <2> QED
    BY <1>1, <2>1 DEF Elements
<1>3. ASSUME Unique(q), e \notin Elements(q) PROVE Unique(Append(q, e))
  <2> SUFFICES ASSUME NEW i \in 1..Len(q) + 1, NEW j \in 1..Len(q) + 1,
                      Append(q, e)[i] = Append(q, e)[j]
               PROVE  i = j
    BY <1>1 DEF Unique
  <2>1. \A n \in 1..Len(q) : Append(q, e)[n] # e
    BY <1>1, <1>3 DEF Elements
  <2>2. \A n \in 1..Len(q) + 1 : n \in 1..Len(q) \/ n = Len(q) + 1
    BY <1>1
  <2> QED
    BY <1>1, <1>3, <2>1, <2>2 DEF Unique
<1> QED
  BY <1>2, <1>3

LEMMA TailElement ==
  ASSUME NEW q \in Seq(Nat), q # <<>>, Unique(q)
  PROVE  /\ Elements(Tail(q)) = Elements(q) \ {Head(q)}
         /\ Head(q) \in Elements(q) /\ Unique(Tail(q))
<1>1. /\ Len(q) \in Nat \ {0} /\ Head(q) = q[1] /\ Len(Tail(q)) = Len(q) - 1
      /\ \A n \in 1..Len(Tail(q)) : Tail(q)[n] = q[n + 1]
  BY HeadTailProperties, EmptySeq, LenProperties
<1>2. Head(q) \in Elements(q)
  BY <1>1 DEF Elements
<1>3. ASSUME NEW x PROVE x \in Elements(Tail(q)) <=> x \in Elements(q) /\ x # Head(q)
  <2>1. ASSUME x \in Elements(Tail(q)) PROVE x \in Elements(q) /\ x # Head(q)
    <3>1. PICK n \in 1..Len(q) - 1 : x = q[n + 1]
      BY <1>1, <2>1 DEF Elements
    <3>2. n + 1 \in 1..Len(q) /\ n + 1 # 1 /\ 1 \in 1..Len(q)
      BY <1>1
    <3> QED
      BY <1>1, <3>1, <3>2 DEF Elements, Unique
  <2>2. ASSUME x \in Elements(q), x # Head(q) PROVE x \in Elements(Tail(q))
    <3>1. PICK n \in 1..Len(q) : x = q[n]
      BY <2>2 DEF Elements
    <3>2. n - 1 \in 1..Len(Tail(q)) /\ n - 1 + 1 = n
      BY <1>1, <2>2, <3>1
    <3>3. Tail(q)[n - 1] = x
      BY <1>1, <3>1, <3>2
    <3> QED
      BY <3>2, <3>3 DEF Elements
  <2> QED
    BY <2>1, <2>2
<1>4. Unique(Tail(q))
  <2> SUFFICES ASSUME NEW i \in 1..Len(q) - 1, NEW j \in 1..Len(q) - 1,
                      q[i + 1] = q[j + 1]
               PROVE  i = j
    BY <1>1 DEF Unique
  <2>1. i + 1 \in 1..Len(q) /\ j + 1 \in 1..Len(q)
    BY <1>1
  <2>2. i + 1 = j + 1
    BY <2>1 DEF Unique
  <2> QED
    BY <2>2
<1> QED
  BY <1>2, <1>3, <1>4

LEMMA ConcatElements ==
  ASSUME NEW q \in Seq(Nat), NEW r \in Seq(Nat)
  PROVE  Elements(q \o r) = Elements(q) \union Elements(r)
<1>1. /\ Len(q) \in Nat /\ Len(r) \in Nat /\ Len(q \o r) = Len(q) + Len(r)
      /\ \A n \in 1..Len(q) + Len(r) :
            (q \o r)[n] = IF n <= Len(q) THEN q[n] ELSE r[n - Len(q)]
  BY ConcatProperties, LenProperties
<1>2. ASSUME NEW x \in Elements(q \o r) PROVE x \in Elements(q) \union Elements(r)
  <2>1. PICK n \in 1..Len(q) + Len(r) : x = (q \o r)[n]
    BY <1>1 DEF Elements
  <2>2. CASE n <= Len(q)
    BY <1>1, <2>1, <2>2 DEF Elements
  <2>3. CASE n > Len(q)
    <3>1. n - Len(q) \in 1..Len(r) /\ x = r[n - Len(q)]
      BY <1>1, <2>1, <2>3
    <3> QED
      BY <3>1 DEF Elements
  <2> QED
    BY <1>1, <2>2, <2>3
<1>3. ASSUME NEW x \in Elements(q) PROVE x \in Elements(q \o r)
  <2>1. PICK n \in 1..Len(q) : x = q[n]
    BY DEF Elements
  <2>2. n \in 1..Len(q \o r) /\ (q \o r)[n] = x
    BY <1>1, <2>1
  <2> QED
    BY <2>2 DEF Elements
<1>4. ASSUME NEW x \in Elements(r) PROVE x \in Elements(q \o r)
  <2>1. PICK n \in 1..Len(r) : x = r[n]
    BY DEF Elements
  <2>2. Len(q) + n \in 1..Len(q \o r) /\ (q \o r)[Len(q) + n] = r[Len(q) + n - Len(q)]
    BY <1>1
  <2>3. Len(q) + n - Len(q) = n
    BY <1>1
  <2> QED
    BY <2>1, <2>2, <2>3 DEF Elements
<1> QED
  BY <1>2, <1>3, <1>4

\* No command is in two of these sets.
Apart(a, b, c, d, e, f) ==
    /\ \A x \in a : x \notin b \union c \union d \union e \union f
    /\ \A x \in b : x \notin c \union d \union e \union f
    /\ \A x \in c : x \notin d \union e \union f
    /\ \A x \in d : x \notin e \union f
    /\ \A x \in e : x \notin f

\* Conserved with the two vectors taken apart: neither holds a command twice, so
\* that erasing the first one takes it out of the vector.
Ledger ==
    /\ Unique(output) /\ Unique(m_output)
    /\ Apart(Elements(output), Elements(m_output), Elements(delivered),
             refused, failed, overwritten)
    /\ Elements(output) \union Elements(m_output) \union Elements(delivered)
          \union refused \union failed \union overwritten = 1..sent

LEMMA LedgerConserves == TypeOK /\ Ledger => Conserved
<1> SUFFICES ASSUME TypeOK, Ledger PROVE Conserved
  OBVIOUS
<1>1. Elements(output \o m_output) = Elements(output) \union Elements(m_output)
  BY ConcatElements DEF TypeOK
<1> DEFINE Q == Elements(output \o m_output)
<1>2. /\ Len(Places) = 5 /\ Places[1] = Q /\ Places[2] = Elements(delivered)
      /\ Places[3] = refused /\ Places[4] = failed /\ Places[5] = overwritten
  BY DEF Places
<1>3. \A x : x \in 1..5 <=> x = 1 \/ x = 2 \/ x = 3 \/ x = 4 \/ x = 5
  OBVIOUS
<1>4. Elements(Places) = {Q, Elements(delivered), refused, failed, overwritten}
  <2>1. Elements(Places) = {Places[n] : n \in 1..5}
    BY <1>2 DEF Elements
  <2> HIDE DEF Q
  <2> QED
    BY <1>2, <1>3, <2>1
<1>5. UNION Elements(Places) = 1..sent
  BY <1>1, <1>4 DEF Ledger
<1>6. ASSUME NEW a \in 1..5, NEW b \in 1..5, a # b
      PROVE  Places[a] \intersect Places[b] = {}
  <2>1. /\ \A x \in Q : x \notin Elements(delivered) \union refused \union failed \union overwritten
        /\ \A x \in Elements(delivered) : x \notin refused \union failed \union overwritten
        /\ \A x \in refused : x \notin failed \union overwritten
        /\ \A x \in failed : x \notin overwritten
    BY <1>1 DEF Ledger, Apart
  <2> HIDE DEF Q
  <2>2. CASE a = 1
    BY <1>2, <1>3, <1>6, <2>1, <2>2
  <2>3. CASE a = 2
    BY <1>2, <1>3, <1>6, <2>1, <2>3
  <2>4. CASE a = 3
    BY <1>2, <1>3, <1>6, <2>1, <2>4
  <2>5. CASE a = 4
    BY <1>2, <1>3, <1>6, <2>1, <2>5
  <2>6. CASE a = 5
    BY <1>2, <1>3, <1>6, <2>1, <2>6
  <2> QED
    BY <1>3, <2>2, <2>3, <2>4, <2>5, <2>6
<1> QED
  BY <1>2, <1>5, <1>6 DEF Conserved

LEMMA NextLedger == TypeOK /\ Ledger /\ [Next]_vars => Ledger'
<1> SUFFICES ASSUME TypeOK, Ledger, [Next]_vars PROVE Ledger'
  OBVIOUS
<1>1. /\ m_output \in Seq(Nat) /\ output \in Seq(Nat) /\ delivered \in Seq(Nat)
      /\ sent \in Nat
  BY DEF TypeOK
<1>2. Elements(<<>>) = {} /\ Unique(<<>>)
  BY EmptySeq DEF Elements, Unique
<1>3. sent + 1 \notin 1..sent /\ 1..sent + 1 = 1..sent \union {sent + 1} /\ sent + 1 \in Nat
  BY <1>1
<1>4. CASE AddInput
  <2>1. /\ sent' = sent + 1 /\ m_output' = Append(m_output, sent + 1)
        /\ UNCHANGED <<output, delivered, refused, failed, overwritten>>
    BY <1>4 DEF AddInput, local
  <2>2. sent + 1 \notin Elements(m_output)
    BY <1>3 DEF Ledger
  <2>3. Elements(m_output') = Elements(m_output) \union {sent + 1} /\ Unique(m_output')
    BY <1>1, <1>3, <2>1, <2>2, AppendElement DEF Ledger
  <2> QED
    BY <1>3, <2>1, <2>3 DEF Ledger, Apart
<1>5. CASE AddInputRefused
  <2>1. /\ sent' = sent + 1 /\ refused' = refused \union {sent + 1}
        /\ UNCHANGED <<output, m_output, delivered, failed, overwritten>>
    BY <1>5 DEF AddInputRefused, shared, local
  <2> QED
    BY <1>3, <2>1 DEF Ledger, Apart
<1>6. CASE TakeOnRead \/ TakeOnQueue
  <2>1. /\ output' = m_output /\ m_output' = <<>>
        /\ overwritten' = overwritten \union Elements(output)
        /\ UNCHANGED <<sent, delivered, refused, failed>>
    BY <1>6 DEF TakeOnRead, TakeOnQueue, getInput
  <2>2. Elements(output') = Elements(m_output) /\ Elements(m_output') = {}
    BY <1>2, <2>1
  <2>3. Unique(output') /\ Unique(m_output')
    BY <1>2, <2>1 DEF Ledger
  <2> QED
    BY <2>1, <2>2, <2>3 DEF Ledger, Apart
<1>7. CASE WriteHid \/ WriteCom
  <2>1. /\ output # <<>> /\ output' = Tail(output)
        /\ delivered' = Append(delivered, Head(output))
        /\ UNCHANGED <<m_output, sent, refused, failed, overwritten>>
    BY <1>7 DEF WriteHid, WriteCom, Writes, shared
  <2>2. /\ Elements(output') = Elements(output) \ {Head(output)}
        /\ Head(output) \in Elements(output) /\ Unique(output') /\ Head(output) \in Nat
    BY <1>1, <2>1, TailElement, HeadTailProperties DEF Ledger
  <2>3. Elements(delivered') = Elements(delivered) \union {Head(output)}
    BY <1>1, <2>1, <2>2, AppendElement
  <2> QED
    BY <2>1, <2>2, <2>3 DEF Ledger, Apart
<1>8. CASE WriteComFails
  <2>1. /\ output # <<>> /\ output' = Tail(output)
        /\ failed' = failed \union {Head(output)}
        /\ UNCHANGED <<m_output, sent, delivered, refused, overwritten>>
    BY <1>8 DEF WriteComFails, shared
  <2>2. /\ Elements(output') = Elements(output) \ {Head(output)}
        /\ Head(output) \in Elements(output) /\ Unique(output')
    BY <1>1, <2>1, TailElement DEF Ledger
  <2> QED
    BY <2>1, <2>2 DEF Ledger, Apart
<1>9. ASSUME UNCHANGED <<output, m_output, delivered, refused, failed, overwritten, sent>>
      PROVE  Ledger'
  BY <1>9 DEF Ledger
<1>10. ASSUME NEW h \in Handle, NEW k \in Kinds, Open(h, k) PROVE Ledger'
  BY <1>9, <1>10 DEF Open, setHand, local
<1>11. CASE Close \/ Unplug \/ ReadCompletes
  BY <1>9, <1>11 DEF Close, Unplug, ReadCompletes, shared, local, history
<1>12. CASE GetHand \/ WaitHand \/ WaitRead \/ WaitQueue \/ WaitTimeout
  BY <1>9, <1>12 DEF GetHand, WaitHand, WaitRead, WaitQueue, WaitTimeout, shared, local, history
<1>13. CASE WriteDone \/ ReadNothing \/ ReadCommBlock
  BY <1>9, <1>13 DEF WriteDone, ReadNothing, ReadCommBlock, shared, history
<1>14. CASE RetryHid \/ UNCHANGED vars
  BY <1>9, <1>14 DEF RetryHid, vars, shared, local, history
<1> QED
  BY <1>4, <1>5, <1>6, <1>7, <1>8, <1>10, <1>11, <1>12, <1>13, <1>14
     DEF Next, Dialog, Run

LEMMA LedgerInvariant == Spec => [](TypeOK /\ Ledger)
<1>1. Init => Ledger
  <2>1. Elements(<<>>) = {} /\ Unique(<<>>) /\ 1..0 = {}
    BY EmptySeq DEF Elements, Unique
  <2> QED
    BY <2>1 DEF Init, Ledger, Apart
<1> QED
  BY <1>1, NextLedger, TypeInvariant, PTL DEF Spec

\* Every command issued is queued, in Run's vector, written, refused, failed or
\* overwritten, and in one of these only, for any number of commands, sessions and
\* reused handles (addInput and getInput under m_mutex, WorkThread.cpp:95-122).
THEOREM ConservedHolds == Spec => []Conserved
BY LedgerInvariant, LedgerConserves, PTL
-----------------------------------------------------------------------------
(***************************************************************************)
(* Which session's device a command reaches.                               *)
(***************************************************************************)
\* Commands were issued and taken in sessions there have been, a command in its own
\* session or later, and in the order of sessions.
InOrder ==
    /\ Len(issuedIn) = sent /\ \A n \in 1..sent : issuedIn[n] <= Len(sessions)
    /\ Len(reached) = Len(delivered)
    /\ \A i \in 1..Len(reached) : reached[i] <= Len(sessions)
    /\ \A i \in 1..Len(delivered) : issuedIn[delivered[i]] <= reached[i]
    /\ \A i, j \in 1..Len(reached) : i < j => reached[i] <= reached[j]

LEMMA NextInOrder == TypeOK /\ Newest /\ Ledger /\ InOrder /\ [Next]_vars => InOrder'
<1> SUFFICES ASSUME TypeOK, Newest, Ledger, InOrder, [Next]_vars PROVE InOrder'
  OBVIOUS
<1>1. /\ delivered \in Seq(Nat) /\ issuedIn \in Seq(Nat) /\ reached \in Seq(Nat)
      /\ sessions \in Seq([hand : Handle, kind : Kinds]) /\ output \in Seq(Nat)
      /\ sent \in Nat /\ Len(sessions) \in Nat /\ Len(delivered) \in Nat
      /\ Len(reached) \in Nat /\ Len(issuedIn) \in Nat
  BY LenProperties DEF TypeOK
<1>2. /\ \A i \in 1..Len(delivered) : delivered[i] \in 1..sent
      /\ output # <<>> => Head(output) \in 1..sent
  <2>1. \A i \in 1..Len(delivered) : delivered[i] \in Elements(delivered)
    BY DEF Elements
  <2>2. output # <<>> => Head(output) \in Elements(output)
    BY <1>1, TailElement DEF Ledger
  <2> QED
    BY <2>1, <2>2 DEF Ledger
<1>3. ASSUME NEW h \in Handle, NEW k \in Kinds, Open(h, k) PROVE InOrder'
  <2>1. Len(sessions') = Len(sessions) + 1 /\ UNCHANGED <<sent, delivered, issuedIn, reached>>
    BY <1>1, <1>3, AppendProperties DEF Open, origin
  <2>2. \A n \in 1..sent : issuedIn[n] \in Nat
    BY <1>1, ElementOfSeq DEF InOrder
  <2>3. \A i \in 1..Len(reached) : reached[i] \in Nat
    BY <1>1, ElementOfSeq
  <2> QED
    BY <1>1, <2>1, <2>2, <2>3 DEF InOrder
<1>4. CASE AddInput \/ AddInputRefused
  <2>1. /\ sent' = sent + 1 /\ issuedIn' = Append(issuedIn, Len(sessions))
        /\ UNCHANGED <<sessions, delivered, reached>>
    BY <1>4 DEF AddInput, AddInputRefused
  <2>2. /\ Len(issuedIn') = sent + 1 /\ issuedIn'[sent + 1] = Len(sessions)
        /\ \A n \in 1..sent : issuedIn'[n] = issuedIn[n]
    BY <1>1, <2>1, AppendProperties DEF InOrder
  <2>3. \A n \in 1..sent + 1 : n \in 1..sent \/ n = sent + 1
    BY <1>1
  <2>4. \A n \in 1..sent' : issuedIn'[n] <= Len(sessions')
    BY <1>1, <2>1, <2>2, <2>3 DEF InOrder
  <2>5. \A i \in 1..Len(delivered) : issuedIn'[delivered[i]] <= reached[i]
    BY <1>2, <2>2 DEF InOrder
  <2> QED
    BY <2>1, <2>2, <2>4, <2>5 DEF InOrder
<1>5. CASE WriteHid \/ WriteCom
  <2>1. /\ output # <<>> /\ delivered' = Append(delivered, Head(output))
        /\ reached' = Append(reached, SessionOf(COMFile))
        /\ UNCHANGED <<sent, sessions, issuedIn>>
        /\ COMFile \in Handle /\ device[COMFile] # "none"
    BY <1>5 DEF WriteHid, WriteCom, Writes, TypeOK
  <2>2. SessionOf(COMFile) = Len(sessions)
    BY <2>1, TakenByNewest
  <2>3. Head(output) \in 1..sent /\ Head(output) \in Nat
    BY <1>1, <1>2, <2>1
  <2>4. /\ Len(delivered') = Len(delivered) + 1 /\ delivered'[Len(delivered) + 1] = Head(output)
        /\ \A i \in 1..Len(delivered) : delivered'[i] = delivered[i]
    BY <1>1, <2>1, <2>3, AppendProperties
  <2>5. /\ Len(reached') = Len(delivered) + 1 /\ reached'[Len(delivered) + 1] = Len(sessions)
        /\ \A i \in 1..Len(delivered) : reached'[i] = reached[i]
    BY <1>1, <2>1, <2>2, AppendProperties DEF InOrder
  <2>6. \A i \in 1..Len(delivered) + 1 : i \in 1..Len(delivered) \/ i = Len(delivered) + 1
    BY <1>1
  <2>7. \A i \in 1..Len(reached') : reached'[i] <= Len(sessions')
    BY <1>1, <2>1, <2>5, <2>6 DEF InOrder
  <2>8. \A i \in 1..Len(delivered') : issuedIn'[delivered'[i]] <= reached'[i]
    BY <2>1, <2>3, <2>4, <2>5, <2>6 DEF InOrder
  <2>9. ASSUME NEW i \in 1..Len(reached'), NEW j \in 1..Len(reached'), i < j
        PROVE  reached'[i] <= reached'[j]
    <3>1. i \in 1..Len(delivered) /\ reached'[i] = reached[i] /\ reached[i] <= Len(sessions)
      BY <1>1, <2>5, <2>9 DEF InOrder
    <3> QED
      BY <2>5, <2>6, <2>9, <3>1 DEF InOrder
  <2> QED
    BY <2>1, <2>4, <2>5, <2>7, <2>8, <2>9 DEF InOrder
<1>6. ASSUME UNCHANGED <<sent, sessions, delivered, issuedIn, reached>> PROVE InOrder'
  BY <1>6 DEF InOrder
<1>7. CASE Close \/ Unplug \/ ReadCompletes
  BY <1>6, <1>7 DEF Close, Unplug, ReadCompletes, history, origin
<1>8. CASE GetHand \/ WaitHand \/ WaitRead \/ WaitQueue \/ WaitTimeout
  BY <1>6, <1>8 DEF GetHand, WaitHand, WaitRead, WaitQueue, WaitTimeout, history, origin
<1>9. CASE TakeOnRead \/ TakeOnQueue \/ WriteComFails \/ WriteDone
  BY <1>6, <1>9 DEF TakeOnRead, TakeOnQueue, WriteComFails, WriteDone, history, origin
<1>10. CASE ReadNothing \/ ReadCommBlock \/ RetryHid \/ UNCHANGED vars
  BY <1>6, <1>10 DEF ReadNothing, ReadCommBlock, RetryHid, vars, history, origin
<1> QED
  BY <1>3, <1>4, <1>5, <1>7, <1>8, <1>9, <1>10 DEF Next, Dialog, Run

\* A stale copy of the handle reaches no device but the newest session's: what Run
\* writes with it goes to no session before the command's own, and in the other kind's
\* protocol only until Run copies the pair again (getHand, WorkThread.cpp:243; close
\* and open on a value given out again).
THEOREM StaleCopyBoundedHolds == Spec => []StaleCopyBounded
<1>1. Init => InOrder
  <2> SUFFICES ASSUME Init PROVE InOrder
    OBVIOUS
  <2>1. Len(issuedIn) = 0 /\ Len(reached) = 0 /\ Len(delivered) = 0 /\ sent = 0
    BY DEF Init
  <2> QED
    BY <2>1 DEF InOrder
<1>2. TypeOK /\ Newest /\ InOrder => StaleCopyBounded
  <2> SUFFICES ASSUME TypeOK, Newest, InOrder PROVE StaleCopyBounded
    OBVIOUS
  <2>1. ASSUME COMFile \in Handle, device[COMFile] \in {"com", "hid"}
        PROVE  /\ m_commOpened /\ COMFile = m_hand.hand
               /\ device[COMFile] # (IF isCH9326 THEN "hid" ELSE "com") =>
                    copied < Len(sessions)
    <3>1. /\ m_commOpened /\ COMFile = m_hand.hand
          /\ device[COMFile] = KindOf(m_hand.isCH9326)
      BY <2>1 DEF Newest
    <3>2. /\ copied \in Nat /\ Len(sessions) \in Nat /\ copied <= Len(sessions)
          /\ copied = Len(sessions) => isCH9326 = m_hand.isCH9326
      BY LenProperties DEF TypeOK, Newest
    <3> QED
      BY <3>1, <3>2 DEF KindOf
  <2> QED
    BY <2>1 DEF InOrder, StaleCopyBounded
<1> QED
  BY <1>1, <1>2, NextInOrder, NewestInvariant, LedgerInvariant, PTL DEF Spec
=============================================================================
