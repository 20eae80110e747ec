--------------------------- MODULE MsgBufferProofs ---------------------------
(***************************************************************************)
(* Theorems about MsgBuffer, for every size of the buffer, every size of   *)
(* the pieces and every stream.                                            *)
(***************************************************************************)
EXTENDS MsgBuffer, SequenceTheorems, TLAPS

\* What holds between any two steps: types, and the two ASSERTs of common.cpp.

\* A known message is 3 to 18 bytes long, and is copied whole.
LEMMA MsgLenType ==
    /\ MsgLen \in [MsgTypes -> 3..18]
    /\ MsgTypes \subseteq Byte
  BY DEF MsgLen, MsgTypes, Byte

LEMMA CopyType ==
  ASSUME TypeOK, NEW i \in Nat, Known(i)
  PROVE  /\ Copy(i) \in Seq(Byte \union {Unreceived})
         /\ Len(Copy(i)) = MsgLen[m_buf[i + 2]]
         /\ \A n \in 1..Len(Copy(i)) :
                i + n - 1 \in Index => Copy(i)[n] = m_buf[i + n - 1]
<1> DEFINE L == MsgLen[m_buf[i + 2]]
<1>1. L \in 3..18
  BY MsgLenType DEF Known
<1>2. \A n \in 1..L : (IF i + n - 1 \in Index THEN m_buf[i + n - 1] ELSE Unreceived)
                          \in Byte \union {Unreceived}
  BY DEF TypeOK
<1>3. Copy(i) = [n \in 1..L |-> IF i + n - 1 \in Index THEN m_buf[i + n - 1] ELSE Unreceived]
  BY DEF Copy
<1> HIDE DEF L
<1>4. Copy(i) \in [1..L -> Byte \union {Unreceived}]
  BY <1>2, <1>3
<1>5. Copy(i) \in Seq(Byte \union {Unreceived}) /\ Len(Copy(i)) = L
  BY <1>1, <1>4, IsASeq, LenProperties
<1> QED
  BY <1>1, <1>3, <1>5 DEF L

\* A turn that consumes a message stays within the pending bytes.
LEMMA EnoughBounds ==
  ASSUME Bounds, NEW i, Known(i), Enough(ret, i)
  PROVE  /\ MsgLen[m_buf[i + 2]] \in 3..18
         /\ ret + MsgLen[m_buf[i + 2]] \in Nat
         /\ ret < ret + MsgLen[m_buf[i + 2]]
         /\ ret + MsgLen[m_buf[i + 2]] <= m_len
<1>1. MsgLen[m_buf[i + 2]] \in 3..18
  BY MsgLenType DEF Known
<1>2. MsgLen[m_buf[i + 2]] <= m_len - ret
  BY DEF Enough
<1>3. ret \in Nat /\ m_len \in Nat
  BY DEF Bounds, TypeOK
<1> QED
  BY <1>1, <1>2, <1>3

LEMMA InitBounds == Init => Bounds
<1> SUFFICES ASSUME Init PROVE Bounds
  OBVIOUS
<1>1. stream.bytes \in Seq(Byte)
  BY StreamsAssumption DEF Init
<1>2. Len(stream.bytes) \in Nat
  BY <1>1, LenProperties
<1> QED
  BY <1>2, SizeAssumption DEF Init, Bounds, TypeOK, AssertsHold, Index

LEMMA NextBounds == Bounds /\ [Next]_vars => Bounds'
<1> SUFFICES ASSUME Bounds, [Next]_vars PROVE Bounds'
  OBVIOUS
<1> USE SizeAssumption DEF Bounds, Index
<1>1. stream.bytes \in Seq(Byte) /\ Len(stream.bytes) \in Nat
  BY StreamsAssumption, LenProperties DEF TypeOK
<1>2. ASSUME NEW k \in Chunk, AddInputOverflow(k)
      PROVE  Bounds'
  BY <1>1, <1>2 DEF AddInputOverflow, Chunk, Fits, TypeOK, AssertsHold
<1>3. ASSUME NEW k \in Chunk, AddInputAppend(k)
      PROVE  Bounds'
  <2>2. k \in Nat /\ pos + k <= Len(stream.bytes)
    BY DEF Chunk
  <2>3. \A i \in m_len..m_len + k - 1 : stream.bytes[pos + (i - m_len) + 1] \in Byte
    BY <1>1, <2>2, ElementOfSeq DEF TypeOK
  <2>4. m_buf' \in [Index -> Byte \union {Unreceived}]
    BY <1>3, <2>3 DEF AddInputAppend, TypeOK
  <2> QED
    BY <1>1, <1>3, <2>2, <2>4 DEF AddInputAppend, TypeOK, AssertsHold, Fits
<1>4. ASSUME NEW i \in MsgStart(ret), PostMsg(i)
      PROVE  Bounds'
  <2>1. pc = "scan" /\ Known(i) /\ Enough(ret, i)
    BY <1>4 DEF PostMsg
  <2>2. i \in Nat /\ ret <= i /\ i + 3 <= m_len
    BY DEF MsgStart, TypeOK
  <2>4. [at |-> Base + i, msg |-> Copy(i)] \in [at : Nat, msg : Seq(Byte \union {Unreceived})]
    BY <1>1, <2>1, <2>2, CopyType DEF Base, TypeOK, AssertsHold
  <2>5. posted' \in Seq([at : Nat, msg : Seq(Byte \union {Unreceived})])
    BY <1>4, <2>4, AppendProperties DEF PostMsg, TypeOK
  <2>6. ret' \in Nat /\ ret' <= m_len
    BY <1>4, EnoughBounds DEF PostMsg
  <2> QED
    BY <1>4, <2>1, <2>5, <2>6 DEF PostMsg, TypeOK, AssertsHold
<1>5. ASSUME NEW i \in MsgStart(ret), DropMsg(i)
      PROVE  Bounds'
  <2>1. pc = "scan" /\ Known(i) /\ Enough(ret, i)
    BY <1>5 DEF DropMsg
  <2>3. ret' \in Nat /\ ret' <= m_len
    BY <1>5, EnoughBounds DEF DropMsg
  <2> QED
    BY <1>5, <2>1, <2>3 DEF DropMsg, TypeOK, AssertsHold
<1>6. CASE GetMsgDone
  BY <1>6 DEF GetMsgDone, Rest, TypeOK, AssertsHold
<1>7. ASSUME NEW i \in MsgStart(ret), GetMsgUnknown(i)
      PROVE  Bounds'
  BY <1>7 DEF GetMsgUnknown, TypeOK, AssertsHold
<1>8. CASE UNCHANGED vars
  BY <1>8 DEF vars, TypeOK, AssertsHold
<1> QED
  BY <1>2, <1>3, <1>4, <1>5, <1>6, <1>7, <1>8 DEF Next, GetMsg

\* msgBuffer never consumes more than is pending and never fills its last byte
\* (the ASSERTs at common.cpp:150 and 178), on any input whatever.
THEOREM BoundsInvariant == Spec => []Bounds
  BY InitBounds, NextBounds, PTL DEF Spec, Bounds
-----------------------------------------------------------------------------
(***************************************************************************)
(* The pending bytes, and what is left when addInput returns.              *)
(***************************************************************************)
LEMMA InitPending == Init => PendingIsSuffix /\ Drained
  BY DEF Init, PendingIsSuffix, Drained, MsgStart

LEMMA NextPending == Bounds /\ PendingIsSuffix /\ [Next]_vars => PendingIsSuffix'
<1> SUFFICES ASSUME Bounds, PendingIsSuffix, [Next]_vars PROVE PendingIsSuffix'
  OBVIOUS
<1>1. m_len \in Nat /\ ret \in Nat /\ pos \in Nat /\ ret <= m_len /\ m_len < m_size
  BY StreamsAssumption, LenProperties DEF Bounds, TypeOK, AssertsHold
<1>2. m_size \in Nat
  BY SizeAssumption
<1>3. ASSUME NEW k \in Chunk, AddInputOverflow(k)
      PROVE  PendingIsSuffix'
  BY <1>3 DEF AddInputOverflow, PendingIsSuffix
<1>4. ASSUME NEW k \in Chunk, AddInputAppend(k)
      PROVE  PendingIsSuffix'
  <2>1. k \in Nat /\ m_len' = m_len + k /\ pos' = pos + k /\ stream' = stream /\ Base' = Base
    BY <1>1, <1>4, SizeAssumption DEF AddInputAppend, Chunk, Base
  <2>2. ASSUME NEW i \in 0..m_len' - 1
        PROVE  m_buf'[i] = stream.bytes[Base + i + 1]
    <3>1. i \in Index
      BY <1>1, <1>2, <1>4, <2>1 DEF AddInputAppend, Fits, Index
    <3>2. CASE i < m_len
      BY <1>1, <1>4, <2>1, <3>1, <3>2 DEF AddInputAppend, PendingIsSuffix
    <3>3. CASE i >= m_len
      <4>1. m_buf'[i] = stream.bytes[pos + (i - m_len) + 1]
        BY <1>1, <1>4, <2>1, <3>1, <3>3 DEF AddInputAppend
      <4> QED
        BY <1>1, <2>1, <4>1 DEF Base
    <3> QED
      BY <1>1, <2>1, <3>2, <3>3
  <2> QED
    BY <2>1, <2>2 DEF PendingIsSuffix
<1>5. ASSUME NEW i \in MsgStart(ret), PostMsg(i) \/ DropMsg(i)
      PROVE  PendingIsSuffix'
  BY <1>5 DEF PostMsg, DropMsg, PendingIsSuffix, Base
<1>6. CASE GetMsgDone
  <2>1. m_len' = m_len - ret /\ pos' = pos /\ stream' = stream /\ Base' = Base + ret
    BY <1>1, <1>6 DEF GetMsgDone, Base
  <2>2. ASSUME NEW i \in 0..m_len' - 1
        PROVE  m_buf'[i] = stream.bytes[Base + ret + i + 1]
    <3>1. i \in Index /\ i + ret \in 0..m_len - 1
      BY <1>1, <1>2, <2>1 DEF Index
    <3>2. m_buf'[i] = m_buf[i + ret]
      BY <1>1, <1>6, <2>1, <3>1 DEF GetMsgDone, Rest
    <3>3. m_buf[i + ret] = stream.bytes[Base + (i + ret) + 1]
      BY <3>1 DEF PendingIsSuffix
    <3> QED
      BY <1>1, <3>1, <3>2, <3>3 DEF Base
  <2> QED
    BY <2>1, <2>2 DEF PendingIsSuffix
<1>7. ASSUME NEW i \in MsgStart(ret), GetMsgUnknown(i)
      PROVE  PendingIsSuffix'
  BY <1>7 DEF GetMsgUnknown, PendingIsSuffix
<1>8. CASE UNCHANGED vars
  BY <1>8 DEF vars, PendingIsSuffix, Base
<1> QED
  BY <1>3, <1>4, <1>5, <1>6, <1>7, <1>8 DEF Next, GetMsg

LEMMA NextDrained == Bounds /\ Drained /\ [Next]_vars => Drained'
<1> SUFFICES ASSUME Bounds, Drained, [Next]_vars, pc' = "idle",
                    NEW i \in MsgStart(0)'
             PROVE  m_buf'[i + 2] \in MsgTypes /\ m_len' < MsgLen[m_buf'[i + 2]]
  BY DEF Drained
<1>1. m_len \in Nat /\ ret \in Nat /\ ret <= m_len /\ m_len < m_size /\ m_size \in Nat
  BY SizeAssumption DEF Bounds, TypeOK, AssertsHold
<1>2. i \in 0..m_len' - 3
  BY DEF MsgStart
<1>3. ASSUME NEW k \in Chunk, AddInputOverflow(k)
      PROVE  FALSE
  BY <1>2, <1>3 DEF AddInputOverflow
<1>4. ASSUME NEW k \in Chunk, AddInputAppend(k)
      PROVE  FALSE
  BY <1>4 DEF AddInputAppend
<1>5. ASSUME NEW j \in MsgStart(ret), PostMsg(j) \/ DropMsg(j)
      PROVE  FALSE
  BY <1>5 DEF PostMsg, DropMsg
<1>6. CASE GetMsgDone
  <2>1. m_len' = m_len - ret
    BY <1>6 DEF GetMsgDone
  <2>2. \A j \in 0..m_len' - 1 : m_buf'[j] = m_buf[j + ret]
    BY <1>1, <1>6, <2>1 DEF GetMsgDone, Rest, Index
  <2>3. i + ret \in ret..m_len - 3 /\ m_buf[i + ret] = MSG_BEGIN
    BY <1>1, <1>2, <2>1, <2>2 DEF MsgStart
  <2>4. ASSUME NEW j \in ret..(i + ret) - 1
        PROVE  m_buf[j] # MSG_BEGIN
    <3>1. j - ret \in 0..i - 1 /\ j - ret \in 0..m_len' - 1 /\ (j - ret) + ret = j
      BY <1>1, <1>2, <2>1
    <3> QED
      BY <2>2, <3>1 DEF MsgStart
  <2>5. i + ret \in MsgStart(ret)
    BY <2>3, <2>4 DEF MsgStart
  <2>6. m_buf[(i + ret) + 2] = m_buf'[i + 2]
    BY <1>1, <1>2, <2>1, <2>2
  <2>7. Known(i + ret) /\ ~ Enough(ret, i + ret)
    BY <1>6, <2>5 DEF GetMsgDone
  <2>8. m_buf'[i + 2] \in MsgTypes /\ MsgLen[m_buf'[i + 2]] \in 3..18
    BY <2>6, <2>7, MsgLenType DEF Known
  <2>9. ~ (MsgLen[m_buf'[i + 2]] <= m_len')
    BY <2>1, <2>6, <2>7 DEF Enough
  <2> QED
    BY <1>1, <2>1, <2>8, <2>9
<1>7. ASSUME NEW j \in MsgStart(ret), GetMsgUnknown(j)
      PROVE  FALSE
  BY <1>2, <1>7 DEF GetMsgUnknown
<1>8. CASE UNCHANGED vars
  BY <1>8 DEF vars, Drained, MsgStart
<1> QED
  BY <1>3, <1>4, <1>5, <1>6, <1>7, <1>8 DEF Next, GetMsg

\* The pending bytes are always the last bytes received: appending, memmove and
\* the two resets of common.cpp:164 and 145 never leave a hole or a stale byte.
THEOREM PendingInvariant == Spec => []PendingIsSuffix
<1>1. Init => Bounds /\ PendingIsSuffix
  BY InitBounds, InitPending
<1>2. (Bounds /\ PendingIsSuffix) /\ [Next]_vars => (Bounds /\ PendingIsSuffix)'
  BY NextBounds, NextPending
<1> QED
  BY <1>1, <1>2, PTL DEF Spec

\* addInput never returns while a message it could deliver is still pending.
THEOREM DrainedInvariant == Spec => []Drained
<1>1. Init => Bounds /\ Drained
  BY InitBounds, InitPending
<1>2. (Bounds /\ Drained) /\ [Next]_vars => (Bounds /\ Drained)'
  BY NextBounds, NextDrained
<1> QED
  BY <1>1, <1>2, PTL DEF Spec
\* What processMsg copies of a message that has arrived is what was received.
LEMMA CopyReceived ==
  ASSUME Bounds, PendingIsSuffix, NEW i \in Nat, Known(i), i + MsgLen[m_buf[i + 2]] <= m_len
  PROVE  Copy(i) = SubSeq(stream.bytes, Base + i + 1, Base + i + MsgLen[m_buf[i + 2]])
<1> DEFINE c == Base + i
           L == MsgLen[m_buf[i + 2]]
           sub == SubSeq(stream.bytes, c + 1, c + L)
<1>1. /\ m_len \in Nat /\ pos \in Nat /\ pos <= Len(stream.bytes)
      /\ Len(stream.bytes) \in Nat /\ m_len <= pos /\ m_len < m_size /\ m_size \in Nat
      /\ stream.bytes \in Seq(Byte)
  BY StreamsAssumption, LenProperties, SizeAssumption DEF Bounds, TypeOK, AssertsHold
<1>2. L \in 3..18 /\ i + L <= m_len
  BY MsgLenType DEF Known
<1>3. /\ Copy(i) \in Seq(Byte \union {Unreceived}) /\ Len(Copy(i)) = L
      /\ \A n \in 1..L : i + n - 1 \in Index => Copy(i)[n] = m_buf[i + n - 1]
  BY CopyType DEF Bounds, L
<1> HIDE DEF L
<1>4. c \in Nat /\ c + L <= pos
  BY <1>1, <1>2 DEF Base
<1>5. /\ sub \in Seq(Byte) /\ Len(sub) = L
      /\ \A n \in 1..L : sub[n] = stream.bytes[c + n]
  <2>1. \A x \in c + 1..c + L : stream.bytes[x] \in Byte
    <3>1. \A x \in 1..Len(stream.bytes) : stream.bytes[x] \in Byte
      BY <1>1, ElementOfSeq
    <3>2. c + 1..c + L \subseteq 1..Len(stream.bytes)
      BY <1>1, <1>2, <1>4
    <3> QED
      BY <3>1, <3>2
  <2> HIDE DEF c
  <2>2. /\ sub \in Seq(Byte)
        /\ Len(sub) = IF c + 1 <= c + L THEN (c + L) - (c + 1) + 1 ELSE 0
        /\ \A n \in 1..(c + L) - (c + 1) + 1 : sub[n] = stream.bytes[(c + 1) + n - 1]
    BY <1>2, <1>4, <2>1, SubSeqProperties
  <2> QED
    BY <1>2, <1>4, <2>2
<1>6. ASSUME NEW n \in 1..L
      PROVE  Copy(i)[n] = sub[n]
  <2>1. i + n - 1 \in 0..m_len - 1 /\ i + n - 1 \in Index
    BY <1>1, <1>2 DEF Index
  <2>2. m_buf[i + n - 1] = stream.bytes[Base + (i + n - 1) + 1]
    BY <2>1 DEF PendingIsSuffix
  <2>3. Base + (i + n - 1) + 1 = c + n
    BY <1>1, <1>2 DEF Base
  <2> QED
    BY <1>3, <1>5, <2>1, <2>2, <2>3
<1>7. sub \in Seq(Byte \union {Unreceived})
  BY <1>5
<1> HIDE DEF sub
<1>8. Copy(i) = sub
  BY <1>3, <1>5, <1>6, <1>7, SeqEqual
<1> QED
  BY <1>8 DEF sub, L
-----------------------------------------------------------------------------
(***************************************************************************)
(* The order of the messages.  Inductive: no begin byte that is still to   *)
(* be searched lies before a message already posted.                       *)
(***************************************************************************)
SearchIsAhead ==
    \A b \in 1..Len(posted) :
        /\ posted[b].at <= pos
        /\ \A j \in ret..m_len - 1 : m_buf[j] = MSG_BEGIN => posted[b].at <= Base + j

Order == PostedInOrder /\ SearchIsAhead

\* Every message posted has an offset, a number.
LEMMA PostedType ==
  ASSUME TypeOK
  PROVE  /\ Len(posted) \in Nat
         /\ \A b \in 1..Len(posted) : posted[b].at \in Nat
<1>1. \A b \in 1..Len(posted) :
          posted[b] \in [at : Nat, msg : Seq(Byte \union {Unreceived})]
  BY ElementOfSeq DEF TypeOK
<1> QED
  BY <1>1, LenProperties DEF TypeOK

LEMMA InitOrder == Init => Order
  BY DEF Init, Order, PostedInOrder, SearchIsAhead

LEMMA NextOrder == Bounds /\ Order /\ [Next]_vars => Order'
<1> SUFFICES ASSUME Bounds, Order, [Next]_vars PROVE Order'
  OBVIOUS
<1>1. /\ m_len \in Nat /\ ret \in Nat /\ pos \in Nat /\ m_size \in Nat
      /\ ret <= m_len /\ m_len <= pos /\ m_len < m_size
      /\ pc = "idle" => ret = 0
  BY StreamsAssumption, LenProperties, SizeAssumption DEF Bounds, TypeOK, AssertsHold
<1>2. Len(posted) \in Nat /\ \A b \in 1..Len(posted) : posted[b].at \in Nat
  BY PostedType DEF Bounds
<1>3. posted' = posted => PostedInOrder'
  BY DEF Order, PostedInOrder
<1>4. ASSUME NEW k \in Chunk, AddInputOverflow(k)
      PROVE  Order'
  <2>1. k \in Nat /\ pos' = pos + k /\ m_len' = 0 /\ ret' = 0 /\ posted' = posted
    BY <1>1, <1>4, SizeAssumption DEF AddInputOverflow, Chunk
  <2>2. \A b \in 1..Len(posted) : posted[b].at <= pos + k
    BY <1>1, <1>2, <2>1 DEF Order, SearchIsAhead
  <2>3. SearchIsAhead'
    BY <2>1, <2>2 DEF SearchIsAhead
  <2> QED
    BY <1>3, <2>1, <2>3 DEF Order
<1>5. ASSUME NEW k \in Chunk, AddInputAppend(k)
      PROVE  Order'
  <2>1. /\ k \in Nat /\ m_len' = m_len + k /\ m_len' < m_size /\ pos' = pos + k
        /\ ret = 0 /\ ret' = 0 /\ Base' = Base /\ posted' = posted
    BY <1>1, <1>5, SizeAssumption DEF AddInputAppend, Chunk, Base, Fits
  <2>2. ASSUME NEW b \in 1..Len(posted), NEW j \in 0..m_len' - 1, m_buf'[j] = MSG_BEGIN
        PROVE  posted[b].at <= Base + j
    <3>1. CASE j < m_len
      <4>1. m_buf'[j] = m_buf[j]
        BY <1>1, <1>5, <2>1, <3>1 DEF AddInputAppend, Index
      <4> QED
        BY <1>1, <2>1, <2>2, <3>1, <4>1 DEF Order, SearchIsAhead
    <3>2. CASE j >= m_len
      <4>1. posted[b].at <= pos /\ pos <= Base + j /\ posted[b].at \in Nat
        BY <1>1, <1>2, <3>2 DEF Order, SearchIsAhead, Base
      <4> QED
        BY <1>1, <4>1 DEF Base
    <3> QED
      BY <1>1, <2>1, <3>1, <3>2
  <2> QED
    BY <1>1, <1>2, <1>3, <2>1, <2>2 DEF Order, SearchIsAhead
<1>6. ASSUME NEW i \in MsgStart(ret), PostMsg(i)
      PROVE  Order'
  <2> DEFINE n == Len(posted)
  <2>1. /\ i \in ret..m_len - 3 /\ m_buf[i] = MSG_BEGIN
        /\ \A j \in ret..i - 1 : m_buf[j] # MSG_BEGIN
    BY DEF MsgStart
  <2>2. ret' \in Nat /\ ret < ret' /\ ret' <= m_len
    BY <1>1, <1>6, EnoughBounds DEF PostMsg
  <2>3. /\ Len(posted') = n + 1
        /\ posted'[n + 1].at = Base + i
        /\ \A b \in 1..n : posted'[b] = posted[b]
    BY <1>2, <1>6, AppendProperties DEF PostMsg, Bounds, TypeOK
  <2>4. \A b \in 1..n : posted[b].at <= Base + i
    BY <1>1, <2>1 DEF Order, SearchIsAhead
  <2>5. m_len' = m_len /\ m_buf' = m_buf /\ pos' = pos /\ Base' = Base
    BY <1>6 DEF PostMsg, Base
  <2>6. PostedInOrder'
    <3> HIDE DEF n
    <3>1. SUFFICES ASSUME NEW a \in 1..n + 1, NEW b \in 1..n + 1, a < b
                   PROVE  posted'[a].at <= posted'[b].at
      BY <2>3 DEF PostedInOrder
    <3>2. n \in Nat /\ a \in 1..n
      BY <1>2, <3>1 DEF n
    <3>3. CASE b \in 1..n
      <4>1. posted[a].at <= posted[b].at
        BY <3>1, <3>2, <3>3 DEF n, Order, PostedInOrder
      <4> QED
        BY <2>3, <3>2, <3>3, <4>1
    <3>4. CASE b = n + 1
      <4>1. posted[a].at <= Base + i
        BY <2>4, <3>2
      <4> QED
        BY <2>3, <3>2, <3>4, <4>1
    <3> QED
      BY <3>2, <3>3, <3>4
  <2>7. ASSUME NEW b \in 1..n + 1
        PROVE  /\ posted'[b].at <= pos
               /\ \A j \in ret'..m_len - 1 : m_buf[j] = MSG_BEGIN => posted'[b].at <= Base + j
    <3>1. CASE b \in 1..n
      BY <1>1, <1>2, <2>2, <2>3, <3>1 DEF Order, SearchIsAhead
    <3>2. CASE b = n + 1
      <4>1. \A j \in ret'..m_len - 1 : m_buf[j] = MSG_BEGIN => i <= j
        BY <1>1, <2>1, <2>2
      <4> QED
        BY <1>1, <2>1, <2>2, <2>3, <3>2, <4>1 DEF Base
    <3> QED
      BY <1>2, <3>1, <3>2
  <2>8. SearchIsAhead'
    BY <2>3, <2>5, <2>7 DEF SearchIsAhead
  <2> QED
    BY <2>6, <2>8 DEF Order
<1>7. ASSUME NEW i \in MsgStart(ret), DropMsg(i)
      PROVE  Order'
  <2>1. ret' \in Nat /\ ret < ret' /\ ret' <= m_len
    BY <1>1, <1>7, EnoughBounds DEF DropMsg
  <2>2. UNCHANGED <<m_buf, m_len, pos, posted>> /\ Base' = Base
    BY <1>7 DEF DropMsg, Base
  <2> QED
    BY <1>1, <1>3, <2>1, <2>2 DEF Order, SearchIsAhead
<1>8. CASE GetMsgDone
  <2>1. /\ m_len' = m_len - ret /\ ret' = 0 /\ pos' = pos /\ posted' = posted
        /\ Base' = Base + ret
    BY <1>1, <1>8 DEF GetMsgDone, Base
  <2>2. \A j \in 0..m_len' - 1 : m_buf'[j] = m_buf[j + ret]
    BY <1>1, <1>8, <2>1 DEF GetMsgDone, Rest, Index
  <2>3. ASSUME NEW b \in 1..Len(posted), NEW j \in 0..m_len' - 1, m_buf'[j] = MSG_BEGIN
        PROVE  posted[b].at <= Base' + j
    <3>1. j + ret \in ret..m_len - 1 /\ m_buf[j + ret] = MSG_BEGIN
      BY <1>1, <2>1, <2>2, <2>3
    <3>2. posted[b].at <= Base + (j + ret)
      BY <3>1 DEF Order, SearchIsAhead
    <3>3. Base \in Int
      BY <1>1 DEF Base
    <3> QED
      BY <1>1, <1>2, <2>1, <3>2, <3>3
  <2> QED
    BY <1>1, <1>3, <2>1, <2>3 DEF Order, SearchIsAhead
<1>9. ASSUME NEW i \in MsgStart(ret), GetMsgUnknown(i)
      PROVE  Order'
  <2>1. m_len' = 0 /\ ret' = 0 /\ pos' = pos /\ posted' = posted
    BY <1>9 DEF GetMsgUnknown
  <2> QED
    BY <1>1, <1>3, <2>1 DEF Order, SearchIsAhead
<1>10. CASE UNCHANGED vars
  BY <1>3, <1>10 DEF vars, Order, SearchIsAhead, Base
<1> QED
  BY <1>4, <1>5, <1>6, <1>7, <1>8, <1>9, <1>10 DEF Next, GetMsg

\* Whatever noise, overflow, unknown types or failures there are, messages are
\* posted in the order in which they begin in the stream (getMsg, common.cpp:145).
THEOREM OrderInvariant == Spec => []PostedInOrder
<1>1. Init => Bounds /\ Order
  BY InitBounds, InitOrder
<1>2. (Bounds /\ Order) /\ [Next]_vars => (Bounds /\ Order)'
  BY NextBounds, NextOrder
<1>3. Order => PostedInOrder
  BY DEF Order
<1> QED
  BY <1>1, <1>2, <1>3, PTL DEF Spec
-----------------------------------------------------------------------------
(***************************************************************************)
(* Repeated messages.  Inductive: a message that begins where the search   *)
(* goes on, or later, has noise of its own length before it.               *)
(***************************************************************************)
NoiseBefore(m) ==
    \A n \in 0..Len(m.msg) - 1 : m.at - n >= 1 /\ stream.bytes[m.at - n] # MSG_BEGIN

SearchIsPast ==
    \A a \in 1..Len(posted) : posted[a].at < Base + ret \/ NoiseBefore(posted[a])

Repeats == SearchIsPast /\ RepeatedOnlyAfterNoise

LEMMA BaseGrows ==
  ASSUME NEW l \in Nat, NEW r \in Nat, NEW p \in Nat, r <= l, l <= p,
         NEW k \in Nat, NEW d \in Nat, d <= l + k - r
  PROVE  (p + k) - d \in Nat /\ p - l + r <= (p + k) - d
  OBVIOUS

LEMMA NextRepeats == Bounds /\ PendingIsSuffix /\ Repeats /\ [Next]_vars => Repeats'
<1> SUFFICES ASSUME Bounds, PendingIsSuffix, Repeats, [Next]_vars PROVE Repeats'
  OBVIOUS
<1>1. /\ m_len \in Nat /\ ret \in Nat /\ pos \in Nat /\ Base \in Nat
      /\ ret <= m_len /\ m_len <= pos /\ (pc = "idle" => ret = 0)
  BY StreamsAssumption, LenProperties DEF Bounds, TypeOK, AssertsHold, Base
<1>2. Len(posted) \in Nat /\ \A b \in 1..Len(posted) : posted[b].at \in Nat
  BY PostedType DEF Bounds
<1>3. ASSUME posted' = posted, stream' = stream, Base' + ret' \in Nat,
             Base + ret <= Base' + ret'
      PROVE  Repeats'
  <2>1. SearchIsPast'
    BY <1>1, <1>2, <1>3 DEF Repeats, SearchIsPast, NoiseBefore
  <2>2. RepeatedOnlyAfterNoise'
    BY <1>3 DEF Repeats, RepeatedOnlyAfterNoise
  <2> QED
    BY <2>1, <2>2 DEF Repeats
<1>4. ASSUME NEW k \in Chunk, AddInputOverflow(k) \/ AddInputAppend(k)
      PROVE  Repeats'
  <2>1. /\ k \in Nat /\ pos' = pos + k /\ ret = 0 /\ ret' = 0
        /\ m_len' \in Nat /\ m_len' <= m_len + k
    BY <1>1, <1>4, SizeAssumption DEF AddInputOverflow, AddInputAppend, Chunk
  <2>2. posted' = posted /\ stream' = stream
    BY <1>4 DEF AddInputOverflow, AddInputAppend
  <2>3. Base' = pos' - m_len' /\ Base = pos - m_len
    BY DEF Base
  <2>4. Base' + ret' \in Nat /\ Base + ret <= Base' + ret'
    <3>1. m_len' <= m_len + k - ret
      BY <1>1, <2>1
    <3>2. (pos + k) - m_len' \in Nat /\ pos - m_len + ret <= (pos + k) - m_len'
      BY <1>1, <2>1, <3>1, BaseGrows
    <3>3. Base' = (pos + k) - m_len' /\ Base = pos - m_len
      BY <2>1, <2>3
    <3>4. Base' + ret' = Base'
      BY <2>1, <3>2, <3>3
    <3> QED
      BY <3>2, <3>3, <3>4
  <2> QED
    BY <1>3, <2>2, <2>4
<1>5. ASSUME NEW i \in MsgStart(ret), PostMsg(i)
      PROVE  Repeats'
  <2> DEFINE l == Len(posted)
             m == [at |-> Base + i, msg |-> Copy(i)]
             L == MsgLen[m_buf[i + 2]]
  <2>1. /\ i \in Nat /\ ret <= i /\ i < m_len
        /\ \A j \in ret..i - 1 : m_buf[j] # MSG_BEGIN
    BY <1>1 DEF MsgStart
  <2>2. /\ L \in 3..18 /\ ret' = ret + L /\ Len(Copy(i)) = L
        /\ Copy(i) \in Seq(Byte \union {Unreceived})
    BY <1>1, <1>5, <2>1, EnoughBounds, CopyType DEF PostMsg, Bounds
  <2>3. /\ UNCHANGED <<m_len, stream, pos>> /\ Base' = Base
        /\ posted' = Append(posted, m)
    BY <1>5 DEF PostMsg, Base
  <2>4. /\ Len(posted') = l + 1 /\ posted'[l + 1] = m
        /\ \A a \in 1..l : posted'[a] = posted[a]
    <3>1. m \in [at : Nat, msg : Seq(Byte \union {Unreceived})]
      BY <1>1, <2>1, <2>2
    <3> QED
      BY <2>3, <3>1, AppendProperties DEF Bounds, TypeOK
  <2>5. m.at = Base + i /\ Len(m.msg) = L /\ m.at \in Nat
    BY <1>1, <2>1, <2>2
  <2> HIDE DEF m, l, L
  <2>6. l \in Nat /\ (\A x : x \in 1..l + 1 <=> x \in 1..l \/ x = l + 1)
        /\ \A a \in 1..l : posted[a].at \in Nat
    BY <1>2 DEF l
  <2>7. m.at < Base + ret' \/ NoiseBefore(m)
    <3> SUFFICES ASSUME Base + ret' <= m.at, NEW n \in 0..L - 1
                 PROVE  m.at - n >= 1 /\ stream.bytes[m.at - n] # MSG_BEGIN
      BY <1>1, <2>2, <2>5 DEF NoiseBefore
    <3>1. i - 1 - n \in ret..i - 1 /\ i - 1 - n \in 0..m_len - 1
      BY <1>1, <2>1, <2>2, <2>5
    <3>2. PICK j \in ret..i - 1 : j = i - 1 - n
      BY <3>1
    <3>3. m_buf[j] # MSG_BEGIN /\ m_buf[j] = stream.bytes[Base + j + 1]
      BY <2>1, <3>1, <3>2 DEF PendingIsSuffix
    <3>4. Base + j + 1 = m.at - n /\ m.at - n >= 1
      BY <1>1, <2>1, <2>5, <3>1, <3>2
    <3> QED
      BY <3>3, <3>4
  <2>8. ASSUME NEW a \in 1..l
        PROVE  posted[a].at < Base + ret' \/ NoiseBefore(posted[a])
    <3>1. posted[a].at < Base + ret \/ NoiseBefore(posted[a])
      BY DEF Repeats, SearchIsPast, l
    <3> QED
      BY <1>1, <2>2, <2>6, <3>1
  <2>9. \A x : NoiseBefore(x)' <=> NoiseBefore(x)
    BY <2>3 DEF NoiseBefore
  <2>10. SearchIsPast'
    <3>1. ASSUME NEW a \in 1..l + 1
          PROVE  posted'[a].at < Base' + ret' \/ NoiseBefore(posted'[a])
      BY <2>3, <2>4, <2>6, <2>7, <2>8
    <3> QED
      BY <2>3, <2>4, <3>1 DEF SearchIsPast, NoiseBefore
  <2>11. ASSUME NEW a \in 1..l + 1, NEW b \in 1..l + 1, a < b,
                posted'[a].at = posted'[b].at
         PROVE  NoiseBefore(posted'[a])
    <3>1. a \in 1..l /\ posted'[a] = posted[a]
      BY <2>4, <2>6, <2>11
    <3>2. CASE b \in 1..l
      <4>1. posted[a].at = posted[b].at
        BY <2>4, <2>11, <3>1, <3>2
      <4>2. NoiseBefore(posted[a])
        BY <2>11, <3>1, <3>2, <4>1 DEF Repeats, RepeatedOnlyAfterNoise, NoiseBefore, l
      <4> QED
        BY <3>1, <4>2
    <3>3. CASE b = l + 1
      <4>1. posted[a].at = Base + i
        BY <2>4, <2>5, <2>11, <3>1, <3>3
      <4>2. ~ (posted[a].at < Base + ret)
        BY <1>1, <2>1, <4>1
      <4>3. NoiseBefore(posted[a])
        BY <3>1, <4>2 DEF Repeats, SearchIsPast, l
      <4> QED
        BY <3>1, <4>3
    <3> QED
      BY <2>6, <3>2, <3>3
  <2>12. RepeatedOnlyAfterNoise'
    BY <2>3, <2>4, <2>11 DEF RepeatedOnlyAfterNoise, NoiseBefore
  <2> QED
    BY <2>10, <2>12 DEF Repeats
<1>6. ASSUME NEW i \in MsgStart(ret), DropMsg(i)
      PROVE  Repeats'
  <2>1. ret' \in Nat /\ ret < ret' /\ UNCHANGED <<posted, stream>> /\ Base' = Base
    BY <1>1, <1>6, EnoughBounds DEF DropMsg, Base
  <2>2. Base' + ret' \in Nat /\ Base + ret <= Base' + ret'
    BY <1>1, <2>1 DEF Base
  <2> QED
    BY <1>3, <2>1, <2>2
<1>7. CASE GetMsgDone \/ \E i \in MsgStart(ret) : GetMsgUnknown(i)
  <2>1. /\ m_len' \in Nat /\ m_len' <= m_len - ret /\ ret' = 0
        /\ UNCHANGED <<pos, posted, stream>>
    BY <1>1, <1>7 DEF GetMsgDone, GetMsgUnknown
  <2>2. Base' = pos' - m_len' /\ Base = pos - m_len
    BY DEF Base
  <2>3. Base' + ret' \in Nat /\ Base + ret <= Base' + ret'
    <3>1. m_len' <= m_len + 0 - ret
      BY <1>1, <2>1
    <3>2. (pos + 0) - m_len' \in Nat /\ pos - m_len + ret <= (pos + 0) - m_len'
      BY <1>1, <2>1, <3>1, BaseGrows
    <3>3. Base' = (pos + 0) - m_len' /\ Base = pos - m_len
      BY <1>1, <2>1, <2>2
    <3>4. Base' + ret' = Base'
      BY <2>1, <3>2, <3>3
    <3> QED
      BY <3>2, <3>3, <3>4
  <2> QED
    BY <1>3, <2>1, <2>3
<1>8. CASE UNCHANGED vars
  BY <1>1, <1>3, <1>8 DEF vars, Base
<1> QED
  BY <1>4, <1>5, <1>6, <1>7, <1>8 DEF Next, GetMsg

\* A frame can reach the dialog twice only if noise as long as the frame, with no
\* begin byte in it, lies right before it, whatever else goes wrong (processMsg
\* measures from where the search began, common.cpp:101).
THEOREM RepeatedOnlyAfterNoiseHolds == Spec => []RepeatedOnlyAfterNoise
<1> DEFINE I == Bounds /\ PendingIsSuffix /\ Repeats
<1>1. Init => I
  BY InitBounds, InitPending DEF Init, Repeats, SearchIsPast, RepeatedOnlyAfterNoise
<1>2. I /\ [Next]_vars => I'
  BY NextBounds, NextPending, NextRepeats
<1>3. I => RepeatedOnlyAfterNoise
  BY DEF Repeats
<1> QED
  BY <1>1, <1>2, <1>3, PTL DEF Spec
-----------------------------------------------------------------------------
(***************************************************************************)
(* Streams of frames.  Inductive: the search always begins at the first    *)
(* byte of a frame, and at most 17 bytes stay behind between two calls.    *)
(***************************************************************************)
AtFrame ==
    /\ Base + ret \in stream.cuts
    /\ pc = "idle" => m_len < 18

Framed == Bounds /\ PendingIsSuffix /\ AtFrame

\* Where bytes are pending, the search finds the frame it stands on.
LEMMA FindsFrame ==
  ASSUME FramesOnly, Framed, ret < m_len
  PROVE  LET c == Base + ret IN
         /\ c \in stream.cuts \ {Len(stream.bytes)}
         /\ m_buf[ret] = MSG_BEGIN
         /\ MsgStart(ret) \subseteq {ret}
         /\ ret + 3 <= m_len => /\ MsgStart(ret) = {ret}
                                /\ m_buf[ret + 2] = stream.bytes[c + 3]
                                /\ Known(ret)
<1> DEFINE c == Base + ret
<1>1. /\ m_len \in Nat /\ ret \in Nat /\ pos \in Nat /\ pos <= Len(stream.bytes)
      /\ Len(stream.bytes) \in Nat /\ m_len <= pos
  BY StreamsAssumption, LenProperties DEF Framed, Bounds, TypeOK, AssertsHold
<1>2. c \in stream.cuts \ {Len(stream.bytes)}
  BY <1>1 DEF Framed, AtFrame, Base
<1>3. stream.bytes[c + 1] = MSG_BEGIN /\ stream.bytes[c + 3] \in MsgTypes
  BY <1>2 DEF FramesOnly, Aligned, Framed, Bounds, TypeOK
<1>4. m_buf[ret] = MSG_BEGIN
  BY <1>1, <1>3 DEF Framed, PendingIsSuffix
<1>5. MsgStart(ret) \subseteq {ret}
  BY <1>1, <1>4 DEF MsgStart
<1>6. ASSUME ret + 3 <= m_len
      PROVE  /\ MsgStart(ret) = {ret}
             /\ m_buf[ret + 2] = stream.bytes[c + 3]
             /\ Known(ret)
  <2>1. ret \in MsgStart(ret)
    BY <1>1, <1>4, <1>6 DEF MsgStart
  <2>2. m_buf[ret + 2] = stream.bytes[Base + (ret + 2) + 1]
    BY <1>1, <1>6 DEF Framed, PendingIsSuffix
  <2>3. Base + (ret + 2) + 1 = c + 3
    BY <1>1 DEF Base
  <2> QED
    BY <1>3, <1>5, <2>1, <2>2, <2>3 DEF Known
<1> QED
  BY <1>2, <1>4, <1>5, <1>6

\* A message cut off such a stream is the frame that begins there.
LEMMA CutsFrame ==
  ASSUME FramesOnly, Framed, NEW i \in MsgStart(ret), Enough(ret, i)
  PROVE  LET c == Base + ret
             e == Base + ret + MsgLen[m_buf[i + 2]]
         IN /\ i = ret
            /\ Known(i)
            /\ e \in FD!FrameEnd(c)
            /\ e <= pos
            /\ Copy(i) = SubSeq(stream.bytes, c + 1, e)
<1> DEFINE c == Base + ret
           L == MsgLen[m_buf[i + 2]]
<1>1. /\ m_len \in Nat /\ ret \in Nat /\ pos \in Nat /\ pos <= Len(stream.bytes)
      /\ Len(stream.bytes) \in Nat /\ m_len <= pos /\ m_len < m_size /\ m_size \in Nat
      /\ stream.bytes \in Seq(Byte)
  BY StreamsAssumption, LenProperties, SizeAssumption
     DEF Framed, Bounds, TypeOK, AssertsHold
<1>2. i \in ret..m_len - 3
  BY DEF MsgStart
<1>3. ret < m_len /\ ret + 3 <= m_len
  BY <1>1, <1>2
<1>4. /\ c \in stream.cuts \ {Len(stream.bytes)}
      /\ i = ret /\ Known(i) /\ m_buf[i + 2] = stream.bytes[c + 3]
  <2>1. /\ c \in stream.cuts \ {Len(stream.bytes)}
        /\ MsgStart(ret) = {ret} /\ Known(ret) /\ m_buf[ret + 2] = stream.bytes[c + 3]
    BY <1>3, FindsFrame
  <2> QED
    BY <2>1
<1>5. L \in 3..18 /\ ret + L \in Nat /\ ret + L <= m_len
  BY <1>4, EnoughBounds DEF Framed
<1>6. /\ c + L \in stream.cuts
      /\ \A x \in stream.cuts : x <= c \/ c + L <= x
  BY <1>4 DEF FramesOnly, Aligned, Framed, Bounds, TypeOK
<1>. HIDE DEF L
<1>7. c \in Nat /\ c + L <= pos
  BY <1>1, <1>5 DEF Base
<1>8. Copy(i) = SubSeq(stream.bytes, c + 1, c + L)
  BY <1>1, <1>2, <1>4, <1>5, CopyReceived DEF Framed, L
<1>9. c + L > c
  BY <1>5, <1>7
<1> QED
  BY <1>4, <1>6, <1>7, <1>8, <1>9 DEF FD!FrameEnd, L

LEMMA InitFramed == FramesOnly /\ Init => Framed
<1> SUFFICES ASSUME FramesOnly, Init PROVE Framed
  OBVIOUS
<1>1. 0 \in stream.cuts
  BY DEF FramesOnly, Aligned, Init
<1> QED
  BY <1>1, InitBounds, InitPending DEF Framed, AtFrame, Init, Base

\* Between two calls the pending bytes leave room for the next piece.
LEMMA AlwaysFits ==
  ASSUME FramesOnly, Framed, pc = "idle", NEW k \in Chunk
  PROVE  Fits(k)
  BY SizeAssumption DEF FramesOnly, Framed, AtFrame, Bounds, TypeOK, Chunk, Fits

LEMMA NeverUnknown ==
  ASSUME FramesOnly, Framed, NEW i \in MsgStart(ret)
  PROVE  Known(i)
<1>1. m_len \in Nat /\ ret \in Nat
  BY DEF Framed, Bounds, TypeOK
<1>2. ret < m_len /\ ret + 3 <= m_len
  BY <1>1 DEF MsgStart
<1>3. MsgStart(ret) = {ret} /\ Known(ret)
  BY <1>2, FindsFrame
<1> QED
  BY <1>3

LEMMA NextFramed == FramesOnly /\ Framed /\ [Next]_vars => Framed'
<1> SUFFICES ASSUME FramesOnly, Framed, [Next]_vars PROVE Framed'
  OBVIOUS
<1> SUFFICES AtFrame'
  BY NextBounds, NextPending DEF Framed
<1>2. /\ m_len \in Nat /\ ret \in Nat /\ pos \in Nat /\ ret <= m_len /\ m_len <= pos
      /\ pc = "idle" => ret = 0
  BY StreamsAssumption, LenProperties DEF Framed, Bounds, TypeOK, AssertsHold
<1>3. ASSUME NEW k \in Chunk, AddInputOverflow(k)
      PROVE  AtFrame'
  BY <1>3, AlwaysFits DEF AddInputOverflow
<1>4. ASSUME NEW k \in Chunk, AddInputAppend(k)
      PROVE  AtFrame'
  <2>1. Base' + ret' = Base + ret /\ stream' = stream /\ pc' = "scan"
    BY <1>2, <1>4, SizeAssumption DEF AddInputAppend, Chunk, Base
  <2> QED
    BY <2>1 DEF Framed, AtFrame
<1>5. ASSUME NEW i \in MsgStart(ret), PostMsg(i) \/ DropMsg(i)
      PROVE  AtFrame'
  <2>1. /\ Known(i) /\ Enough(ret, i) /\ ret' = ret + MsgLen[m_buf[i + 2]]
        /\ stream' = stream /\ pc' = "scan" /\ Base' = Base
    BY <1>5 DEF PostMsg, DropMsg, Base
  <2>2. Base + ret + MsgLen[m_buf[i + 2]] \in stream.cuts
    BY <2>1, CutsFrame DEF FD!FrameEnd
  <2>3. MsgLen[m_buf[i + 2]] \in 3..18
    BY <2>1, EnoughBounds DEF Framed
  <2>4. Base' + ret' = Base + ret + MsgLen[m_buf[i + 2]]
    <3> DEFINE L == MsgLen[m_buf[i + 2]]
    <3> HIDE DEF L
    <3>1. L \in 3..18 /\ ret' = ret + L
      BY <2>1, <2>3 DEF L
    <3>2. Base' + ret' = Base + ret + L
      BY <1>2, <2>1, <3>1 DEF Base
    <3> QED
      BY <3>2 DEF L
  <2> QED
    BY <2>1, <2>2, <2>4 DEF AtFrame
<1>6. CASE GetMsgDone
  <2>1. m_len' = m_len - ret /\ Base' + ret' = Base + ret /\ stream' = stream
    BY <1>2, <1>6 DEF GetMsgDone, Base
  <2>2. m_len - ret < 18
    <3>1. CASE m_len < ret + 3
      BY <1>2, <3>1
    <3>2. CASE ret + 3 <= m_len
      <4>1. MsgStart(ret) = {ret} /\ Known(ret)
        BY <1>2, <3>2, FindsFrame
      <4>2. ~ (MsgLen[m_buf[ret + 2]] <= m_len - ret) /\ MsgLen[m_buf[ret + 2]] \in 3..18
        BY <1>6, <4>1, MsgLenType DEF GetMsgDone, Enough, Known
      <4> QED
        BY <1>2, <4>2
    <3> QED
      BY <1>2, <3>1, <3>2
  <2>3. m_len' < 18
    BY <1>2, <2>1, <2>2
  <2>4. Base' + ret' \in stream'.cuts
    BY <2>1 DEF Framed, AtFrame
  <2> QED
    BY <2>3, <2>4 DEF AtFrame
<1>7. ASSUME NEW i \in MsgStart(ret), GetMsgUnknown(i)
      PROVE  AtFrame'
  BY <1>7, NeverUnknown DEF GetMsgUnknown
<1>8. CASE UNCHANGED vars
  <2>1. Base' = Base /\ UNCHANGED <<pc, ret, stream, m_len>>
    BY <1>8 DEF vars, Base
  <2> QED
    BY <1>2, <2>1 DEF Framed, AtFrame
<1> QED
  BY <1>3, <1>4, <1>5, <1>6, <1>7, <1>8 DEF Next, GetMsg

\* On a stream of frames neither the overflow reset nor the discarding of an
\* unknown type is ever taken, as long as a piece and 17 bytes fit (with 2048
\* bytes, reads of at most 1024 do).
THEOREM NothingDiscardedHolds ==
  ASSUME FramesOnly
  PROVE  Spec => NothingDiscarded
<1>1. Init => Framed
  BY InitFramed
<1>2. Framed /\ [Next]_vars => Framed'
  BY NextFramed
<1>3. Framed => /\ \A k \in Chunk : ~ AddInputOverflow(k)
                /\ \A i \in MsgStart(ret) : ~ GetMsgUnknown(i)
  BY AlwaysFits, NeverUnknown DEF AddInputOverflow, GetMsgUnknown
<1> QED
  BY <1>1, <1>2, <1>3, PTL DEF Spec, NothingDiscarded

\* The messages as FrameDelivery sees them.
Delivered == [n \in 1..Len(posted) |-> posted[n].msg]

LEMMA DeliveredAppend ==
  ASSUME TypeOK, NEW m, m \in [at : Nat, msg : Seq(Byte \union {Unreceived})],
         posted' = Append(posted, m)
  PROVE  Delivered' = Append(Delivered, m.msg)
<1> DEFINE S == Seq(Byte \union {Unreceived})
           n == Len(posted)
<1>1. n \in Nat /\ posted \in Seq([at : Nat, msg : S])
  BY LenProperties DEF TypeOK
<1>2. /\ posted' \in Seq([at : Nat, msg : S]) /\ Len(posted') = n + 1
      /\ posted'[n + 1] = m /\ \A k \in 1..n : posted'[k] = posted[k]
  BY <1>1, AppendProperties
<1>3. \A k \in 1..n : posted[k].msg \in S
  <2>1. \A k \in 1..n : posted[k] \in [at : Nat, msg : S]
    BY <1>1, ElementOfSeq
  <2> QED
    BY <2>1
<1>4. Delivered \in Seq(S) /\ Len(Delivered) = n
  BY <1>1, <1>3, IsASeq DEF Delivered
<1>5. /\ Append(Delivered, m.msg) \in Seq(S) /\ Len(Append(Delivered, m.msg)) = n + 1
      /\ Append(Delivered, m.msg)[n + 1] = m.msg
      /\ \A k \in 1..n : Append(Delivered, m.msg)[k] = Delivered[k]
  BY <1>4, AppendProperties
<1>6. Delivered' = [k \in 1..n + 1 |-> posted'[k].msg]
  BY <1>2 DEF Delivered
<1>7. \A k \in 1..n + 1 : posted'[k].msg \in S
  BY <1>2, <1>3
<1>8. Delivered' \in Seq(S) /\ Len(Delivered') = n + 1
  <2>1. n + 1 \in Nat
    BY <1>1
  <2>2. Delivered' \in [1..n + 1 -> S]
    BY <1>6, <1>7
  <2> HIDE DEF n, S, Delivered
  <2> QED
    BY <2>1, <2>2, IsASeq, LenProperties
<1>9. ASSUME NEW k \in 1..n + 1
      PROVE  Delivered'[k] = Append(Delivered, m.msg)[k]
  <2>1. CASE k = n + 1
    BY <1>2, <1>5, <1>6, <2>1
  <2>2. CASE k \in 1..n
    BY <1>2, <1>5, <1>6, <2>2 DEF Delivered
  <2>3. k = n + 1 \/ k \in 1..n
    BY <1>1
  <2> QED
    BY <2>1, <2>2, <2>3
<1> HIDE DEF S, n
<1> QED
  BY <1>5, <1>8, <1>9, SeqEqual

LEMMA InitRefines == FramesOnly /\ Init => FD!Init
  BY DEF Init, FD!Init, Base

LEMMA NextRefines == FramesOnly /\ Framed /\ [Next]_vars => [FD!Next]_(FD!vars)
<1> SUFFICES ASSUME FramesOnly, Framed, [Next]_vars
             PROVE  FD!Next \/ UNCHANGED FD!vars
  OBVIOUS
<1> USE DEF FD!vars
<1>1. /\ m_len \in Nat /\ ret \in Nat /\ pos \in Nat /\ ret <= m_len /\ m_len <= pos
      /\ pc = "idle" => ret = 0
      /\ pos <= Len(stream.bytes) /\ Len(stream.bytes) \in Nat
  BY StreamsAssumption, LenProperties DEF Framed, Bounds, TypeOK, AssertsHold
<1>2. ASSUME NEW k \in Chunk, AddInputOverflow(k)
      PROVE  FALSE
  BY <1>2, AlwaysFits DEF AddInputOverflow
<1>3. ASSUME NEW k \in Chunk, AddInputAppend(k)
      PROVE  FD!Arrive
  <2>1. /\ pos' \in pos..Len(stream.bytes) /\ Base' + ret' = Base + ret
        /\ stream' = stream /\ posted' = posted
    BY <1>1, <1>3, SizeAssumption DEF AddInputAppend, Chunk, Base
  <2> QED
    BY <2>1 DEF FD!Arrive
<1>4. ASSUME NEW i \in MsgStart(ret), PostMsg(i) \/ DropMsg(i)
      PROVE  FD!Deliver \/ FD!Lose
  <2> DEFINE e == Base + ret + MsgLen[m_buf[i + 2]]
  <2>1. /\ Enough(ret, i) /\ ret' = ret + MsgLen[m_buf[i + 2]]
        /\ stream' = stream /\ pos' = pos /\ Base' = Base
    BY <1>4 DEF PostMsg, DropMsg, Base
  <2>2. /\ i = ret /\ Known(i) /\ e \in FD!FrameEnd(Base + ret) /\ e <= pos
        /\ Copy(i) = SubSeq(stream.bytes, Base + ret + 1, e)
    BY <2>1, CutsFrame
  <2>3. MsgLen[m_buf[i + 2]] \in 3..18
    BY <2>1, <2>2, EnoughBounds DEF Framed
  <2>4. Base' + ret' = e
    <3> DEFINE L == MsgLen[m_buf[i + 2]]
    <3> HIDE DEF L
    <3>1. L \in 3..18 /\ ret' = ret + L
      BY <2>1, <2>3 DEF L
    <3>2. Base' + ret' = Base + ret + L
      BY <1>1, <2>1, <3>1 DEF Base
    <3> QED
      BY <3>2 DEF L
  <2> HIDE DEF e
  <2>5. CASE PostMsg(i)
    <3> DEFINE m == [at |-> Base + i, msg |-> Copy(i)]
    <3>1. m \in [at : Nat, msg : Seq(Byte \union {Unreceived})]
      <4>1. Copy(i) \in Seq(Byte \union {Unreceived})
        BY <1>1, <2>2, CopyType DEF Framed, Bounds
      <4>2. Base + i \in Nat
        BY <1>1, <2>2 DEF Base
      <4> QED
        BY <4>1, <4>2
    <3>2. posted' = Append(posted, m)
      BY <2>5 DEF PostMsg
    <3>3. Delivered' = Append(Delivered, Copy(i))
      BY <3>1, <3>2, DeliveredAppend DEF Framed, Bounds
    <3> QED
      BY <2>1, <2>2, <2>4, <3>3 DEF FD!Deliver, Delivered
  <2>6. CASE DropMsg(i)
    BY <2>1, <2>2, <2>4, <2>6 DEF DropMsg, FD!Lose
  <2> QED
    BY <1>4, <2>5, <2>6
<1>5. CASE GetMsgDone
  BY <1>1, <1>5 DEF GetMsgDone, Base
<1>6. ASSUME NEW i \in MsgStart(ret), GetMsgUnknown(i)
      PROVE  FALSE
  BY <1>6, NeverUnknown DEF GetMsgUnknown
<1>7. CASE UNCHANGED vars
  BY <1>7 DEF vars, Base
<1> QED
  BY <1>2, <1>3, <1>4, <1>5, <1>6, <1>7 DEF Next, GetMsg, FD!Next

\* msgBuffer implements FrameDelivery: on a stream of frames the dialog is sent
\* every frame once, in order, byte for byte, however the bytes are cut up.
THEOREM FrameDeliveryImplemented ==
  ASSUME FramesOnly
  PROVE  Spec => DeliversFrames
<1>1. Init => Framed /\ FD!Init
  BY InitFramed, InitRefines
<1>2. Framed /\ [Next]_vars => Framed' /\ [FD!Next]_(FD!vars)
  BY NextFramed, NextRefines
<1> QED
  BY <1>1, <1>2, PTL DEF Spec, DeliversFrames, FD!Spec
=============================================================================
