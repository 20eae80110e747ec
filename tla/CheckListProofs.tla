--------------------------- MODULE CheckListProofs ---------------------------
(***************************************************************************)
(* Theorems about CheckList, for every set of frames and every bound on    *)
(* the clock and the frames.                                               *)
(***************************************************************************)
EXTENDS CheckList, SequenceTheorems, FiniteSetTheorems, TLAPS

\* What processMsgCheck reads of a frame.
LEMMA FrameFacts ==
  ASSUME NEW f \in Frames
  PROVE  /\ idOf(f) \in Ids
         /\ codeerr(f) \in BOOLEAN
         /\ electricity(f) \in 0..6
  BY DEF Ids, codeerr, electricity

\* The items and rows the handlers make.
LEMMA NewItemFacts ==
  ASSUME NEW f \in Frames, Len(m_listCheck) \in Nat
  PROVE  /\ newItem(f) \in Item
         /\ newItem(f).nindex = Len(m_listCheck)
         /\ newItem(f).firstTime = 0 /\ newItem(f).lastTime = 0
         /\ Packets(newItem(f)) = 1
<1>1. electricity(f) \in 0..6
  BY FrameFacts
<1> QED
  BY <1>1 DEF newItem, Item, Packets

LEMMA TouchedFacts ==
  ASSUME NEW c \in Item, NEW f \in Frames, now \in Nat
  PROVE  /\ touched(c, f) \in Item
         /\ touched(c, f).nindex = c.nindex
         /\ touched(c, f).firstTime = IF c.firstTime = 0 THEN now ELSE c.firstTime
         /\ touched(c, f).lastTime = IF c.firstTime = 0 THEN c.lastTime ELSE now
         /\ Packets(touched(c, f)) = Packets(c) + 1
<1> DEFINE fst == IF c.firstTime = 0 THEN now ELSE c.firstTime
           lst == IF c.firstTime = 0 THEN c.lastTime ELSE now
           cnt == IF codeerr(f) THEN c.count ELSE c.count + 1
           err == IF codeerr(f) THEN c.errCount + 1 ELSE c.errCount
<1>1. /\ c.firstTime \in Nat /\ c.lastTime \in Nat /\ c.count \in Nat
      /\ c.errCount \in Nat /\ c.electricity \in 0..6 /\ c.nindex \in Nat
  BY DEF Item
<1>2. touched(c, f) = [firstTime |-> fst, lastTime |-> lst, count |-> cnt,
                       errCount |-> err, electricity |-> c.electricity,
                       nindex |-> c.nindex]
  <2>1. touched(c, f) = [c EXCEPT !.firstTime = fst, !.lastTime = lst,
                                  !.count = cnt, !.errCount = err]
    BY Zenon DEF touched
  <2> HIDE DEF fst, lst, cnt, err
  <2> QED
    BY <2>1 DEF Item
<1>3. fst \in Nat /\ lst \in Nat /\ cnt \in Nat /\ err \in Nat
  BY <1>1
<1>4. cnt + err = (c.count + c.errCount) + 1
  BY <1>1
<1> HIDE DEF fst, lst, cnt, err
<1>5. touched(c, f) \in Item
  BY <1>1, <1>2, <1>3 DEF Item
<1>6. Packets(touched(c, f)) = Packets(c) + 1
  BY <1>2, <1>4 DEF Packets
<1> QED
  BY <1>2, <1>5, <1>6 DEF fst, lst

LEMMA RowFacts ==
  ASSUME NEW id \in Ids, NEW c \in Item
  PROVE  row(id, c) \in Row /\ row(id, c).id = id
  BY DEF row, Row, Item

(***************************************************************************)
(* Types, and the table as a copy of the map.  The two go together: that   *)
(* updateCheck writes to a row there is needs nindex to be one.            *)
(***************************************************************************)
Mirror == TypeOK /\ RowsMirrorMap

LEMMA InitMirror == Init => Mirror
  BY DEF Init, Mirror, TypeOK, RowsMirrorMap

LEMMA LogType ==
  ASSUME TypeOK, NEW f \in Frames, receive(f)
  PROVE  /\ log' \in Seq([id : Ids, ok : BOOLEAN, at : Nat])
         /\ now' = now
  BY FrameFacts DEF TypeOK, receive

LEMMA NextMirror == Mirror /\ [Next]_vars => Mirror'
<1> SUFFICES ASSUME Mirror, [Next]_vars PROVE Mirror'
  OBVIOUS
<1>1. /\ Len(m_listCheck) \in Nat /\ m_listCheck \in Seq(Row)
      /\ now \in Nat /\ DOMAIN m_checkMap \subseteq Ids
      /\ \A i \in DOMAIN m_checkMap : m_checkMap[i] \in Item
  BY LenProperties DEF Mirror, TypeOK
<1>2. ASSUME NEW f \in Frames, InsertCheck(f)
      PROVE  Mirror'
  <2> DEFINE id == idOf(f)
             c == newItem(f)
             n == Len(m_listCheck)
  <2>1. id \in Ids /\ id \notin DOMAIN m_checkMap /\ c \in Item /\ c.nindex = n
    BY <1>1, <1>2, FrameFacts, NewItemFacts DEF InsertCheck
  <2>2. row(id, c) \in Row /\ row(id, c).id = id
    BY <2>1, RowFacts
  <2>3. /\ DOMAIN m_checkMap' = DOMAIN m_checkMap \union {id}
        /\ m_checkMap'[id] = c
        /\ \A i \in DOMAIN m_checkMap : m_checkMap'[i] = m_checkMap[i]
    <3>1. m_checkMap' = Put(id, c)
      BY <1>2 DEF InsertCheck
    <3> HIDE DEF id, c
    <3> QED
      BY <2>1, <3>1 DEF Put
  <2>4. m_listCheck' = Append(m_listCheck, row(id, c))
    BY <1>2 DEF InsertCheck
  <2> HIDE DEF id, c
  <2>5. /\ m_listCheck' \in Seq(Row) /\ Len(m_listCheck') = n + 1
        /\ m_listCheck'[n + 1] = row(id, c)
        /\ \A k \in 1..n : m_listCheck'[k] = m_listCheck[k]
    BY <1>1, <2>2, <2>4, AppendProperties
  <2>6. TypeOK'
    <3>1. log' \in Seq([id : Ids, ok : BOOLEAN, at : Nat]) /\ now' = now
      BY <1>2, LogType DEF InsertCheck, Mirror
    <3> QED
      BY <1>1, <2>1, <2>3, <2>5, <3>1 DEF TypeOK, Mirror
  <2>7. RowsMirrorMap'
    <3>1. ASSUME NEW i \in DOMAIN m_checkMap'
          PROVE  /\ m_checkMap'[i].nindex < Len(m_listCheck')
                 /\ m_listCheck'[m_checkMap'[i].nindex + 1] = row(i, m_checkMap'[i])
      <4>1. CASE i = id
        BY <1>1, <2>1, <2>3, <2>5, <4>1
      <4>2. CASE i \in DOMAIN m_checkMap
        <5>1. /\ m_checkMap[i].nindex \in Nat /\ m_checkMap[i].nindex < n
              /\ m_listCheck[m_checkMap[i].nindex + 1] = row(i, m_checkMap[i])
          BY <1>1, <4>2 DEF Mirror, RowsMirrorMap, Item
        <5> QED
          BY <1>1, <2>3, <2>5, <4>2, <5>1
      <4> QED
        BY <2>3, <4>1, <4>2
    <3>2. ASSUME NEW k \in 1..Len(m_listCheck')
          PROVE  /\ m_listCheck'[k].id \in DOMAIN m_checkMap'
                 /\ m_checkMap'[m_listCheck'[k].id].nindex = k - 1
      <4>1. CASE k = n + 1
        BY <1>1, <2>1, <2>2, <2>3, <2>5, <4>1
      <4>2. CASE k \in 1..n
        BY <2>3, <2>5, <4>2 DEF Mirror, RowsMirrorMap
      <4> QED
        BY <1>1, <2>5, <4>1, <4>2
    <3> QED
      BY <3>1, <3>2 DEF RowsMirrorMap
  <2> QED
    BY <2>6, <2>7 DEF Mirror
<1>3. ASSUME NEW f \in Frames, InsertFails(f) \/ IgnoreCheck(f)
      PROVE  Mirror'
  <2>1. receive(f) /\ UNCHANGED <<m_checkMap, m_listCheck>>
    BY <1>3 DEF InsertFails, IgnoreCheck
  <2>2. log' \in Seq([id : Ids, ok : BOOLEAN, at : Nat]) /\ now' = now
    BY <2>1, LogType DEF Mirror
  <2> QED
    BY <2>1, <2>2 DEF Mirror, TypeOK, RowsMirrorMap
<1>4. ASSUME NEW f \in Frames, UpdateCheck(f)
      PROVE  Mirror'
  <2> DEFINE id == idOf(f)
             c == touched(m_checkMap[id], f)
             n == Len(m_listCheck)
  <2>1. id \in DOMAIN m_checkMap /\ id \in Ids
    BY <1>4, FrameFacts DEF UpdateCheck
  <2>2. c \in Item /\ c.nindex = m_checkMap[id].nindex
    BY <1>1, <2>1, TouchedFacts
  <2>3. row(id, c) \in Row /\ row(id, c).id = id
    BY <2>1, <2>2, RowFacts
  <2>4. /\ DOMAIN m_checkMap' = DOMAIN m_checkMap
        /\ m_checkMap'[id] = c
        /\ \A i \in DOMAIN m_checkMap : i # id => m_checkMap'[i] = m_checkMap[i]
    <3>1. m_checkMap' = Put(id, c)
      BY <1>4 DEF UpdateCheck
    <3> HIDE DEF id, c
    <3> QED
      BY <2>1, <3>1 DEF Put
  <2>5. m_listCheck' = [m_listCheck EXCEPT ![c.nindex + 1] = row(id, c)]
    BY <1>4 DEF UpdateCheck, updateCheck
  <2>6. c.nindex \in Nat /\ c.nindex < n
    BY <2>1, <2>2 DEF Item, Mirror, RowsMirrorMap
  <2> HIDE DEF id, c
  <2>7. /\ m_listCheck' \in Seq(Row) /\ Len(m_listCheck') = n
        /\ m_listCheck'[c.nindex + 1] = row(id, c)
        /\ \A k \in 1..n : k # c.nindex + 1 => m_listCheck'[k] = m_listCheck[k]
    BY <1>1, <2>3, <2>5, <2>6, ExceptSeq
  <2>8. TypeOK'
    <3>1. log' \in Seq([id : Ids, ok : BOOLEAN, at : Nat]) /\ now' = now
      BY <1>4, LogType DEF UpdateCheck, Mirror
    <3> QED
      BY <1>1, <2>2, <2>4, <2>7, <3>1 DEF TypeOK, Mirror
  <2>9. RowsMirrorMap'
    <3>1. \A k \in 1..n : m_listCheck[k].id = id <=> k = c.nindex + 1
      <4>1. \A k \in 1..n : m_listCheck[k].id = id => k = c.nindex + 1
        BY <1>1, <2>2 DEF Mirror, RowsMirrorMap
      <4>2. m_listCheck[c.nindex + 1].id = id
        BY <1>1, <2>1, <2>2, RowFacts DEF Mirror, RowsMirrorMap
      <4> QED
        BY <4>1, <4>2
    <3>2. ASSUME NEW i \in DOMAIN m_checkMap'
          PROVE  /\ m_checkMap'[i].nindex < Len(m_listCheck')
                 /\ m_listCheck'[m_checkMap'[i].nindex + 1] = row(i, m_checkMap'[i])
      <4>1. CASE i = id
        BY <1>1, <2>4, <2>6, <2>7, <4>1
      <4>2. CASE i # id
        <5> DEFINE k == m_checkMap[i].nindex + 1
        <5>1. /\ k \in 1..n /\ m_listCheck[k] = row(i, m_checkMap[i])
              /\ m_checkMap'[i] = m_checkMap[i]
          <6>1. /\ m_checkMap[i].nindex \in Nat /\ m_checkMap[i].nindex < n
                /\ m_listCheck[m_checkMap[i].nindex + 1] = row(i, m_checkMap[i])
            BY <1>1, <2>4 DEF Mirror, RowsMirrorMap, Item
          <6> QED
            BY <1>1, <2>4, <4>2, <6>1
        <5>2. m_listCheck[k].id = i
          BY <1>1, <2>4, <5>1, RowFacts
        <5>3. k # c.nindex + 1
          BY <3>1, <4>2, <5>1, <5>2
        <5>4. m_checkMap[i].nindex \in Nat
          BY <1>1, <2>4 DEF Item
        <5> QED
          BY <1>1, <2>7, <5>1, <5>3, <5>4
      <4> QED
        BY <4>1, <4>2
    <3>3. ASSUME NEW k \in 1..Len(m_listCheck')
          PROVE  /\ m_listCheck'[k].id \in DOMAIN m_checkMap'
                 /\ m_checkMap'[m_listCheck'[k].id].nindex = k - 1
      <4>1. CASE k = c.nindex + 1
        BY <2>1, <2>3, <2>4, <2>6, <2>7, <4>1
      <4>2. CASE k # c.nindex + 1
        <5>1. m_listCheck'[k] = m_listCheck[k] /\ m_listCheck[k].id # id
          BY <2>7, <3>1, <4>2
        <5>2. /\ m_listCheck[k].id \in DOMAIN m_checkMap
              /\ m_checkMap[m_listCheck[k].id].nindex = k - 1
          BY <2>7 DEF Mirror, RowsMirrorMap
        <5> QED
          BY <2>4, <5>1, <5>2
      <4> QED
        BY <4>1, <4>2
    <3> QED
      BY <3>2, <3>3 DEF RowsMirrorMap
  <2> QED
    BY <2>8, <2>9 DEF Mirror
<1>5. CASE OnWgwClear
  BY <1>5 DEF OnWgwClear, Mirror, TypeOK, RowsMirrorMap
<1>6. CASE Tick
  <2>1. now' \in Nat \ {0} /\ UNCHANGED <<m_checkMap, m_listCheck, log>>
    BY <1>1, <1>6 DEF Tick
  <2> QED
    BY <2>1 DEF Mirror, TypeOK, RowsMirrorMap
<1>7. CASE UNCHANGED vars
  BY <1>7 DEF vars, Mirror, TypeOK, RowsMirrorMap
<1> QED
  BY <1>2, <1>3, <1>4, <1>5, <1>6, <1>7 DEF Next, processMsgCheck

\* Every variable has its type, and the list control shows the map: every item
\* in the row it remembers, every row the item of its card (DlgCheck.cpp:54-92).
THEOREM MirrorInvariant == Spec => [](TypeOK /\ RowsMirrorMap)
<1>1. Mirror => TypeOK /\ RowsMirrorMap
  BY DEF Mirror
<1> QED
  BY <1>1, InitMirror, NextMirror, PTL DEF Spec

(***************************************************************************)
(* Counts and times.  That a time shown is never ahead of the clock is     *)
(* what makes a counted frame advance the last time.                       *)
(***************************************************************************)
Times ==
    /\ TimesFollowCounts
    /\ \A i \in DOMAIN m_checkMap :
          m_checkMap[i].firstTime <= now /\ m_checkMap[i].lastTime <= now

\* One item's share of Times.
TimesOf(c, t) ==
    /\ Packets(c) >= 1
    /\ c.firstTime = 0 <=> Packets(c) = 1
    /\ c.lastTime = 0 <=> Packets(c) <= 2
    /\ Packets(c) >= 3 => /\ c.firstTime <= c.lastTime
                          /\ Packets(c) - 3 <= c.lastTime - c.firstTime
    /\ c.firstTime <= t /\ c.lastTime <= t

LEMMA TimesByItem == Times <=> \A i \in DOMAIN m_checkMap : TimesOf(m_checkMap[i], now)
  BY DEF Times, TimesFollowCounts, TimesOf

LEMMA TimesByItemNext ==
    Times' <=> \A i \in DOMAIN m_checkMap' : TimesOf(m_checkMap'[i], now')
  BY DEF Times, TimesFollowCounts, TimesOf

\* A frame counted in another second keeps an item's times and counts in step.
LEMMA TouchedTimes ==
  ASSUME NEW c \in Item, NEW f \in Frames, now \in Nat \ {0},
         TimesOf(c, now), c.lastTime # now
  PROVE  TimesOf(touched(c, f), now)
<1> DEFINE d == touched(c, f)
<1>1. /\ d.firstTime = IF c.firstTime = 0 THEN now ELSE c.firstTime
      /\ d.lastTime = IF c.firstTime = 0 THEN c.lastTime ELSE now
      /\ Packets(d) = Packets(c) + 1
  BY TouchedFacts
<1>2. c.firstTime \in Nat /\ c.lastTime \in Nat /\ Packets(c) \in Nat
  BY DEF Item, Packets
<1> SUFFICES TimesOf(d, now)
  OBVIOUS
<1> HIDE DEF d
<1>3. CASE Packets(c) = 1
  <2>1. c.firstTime = 0 /\ c.lastTime = 0
    BY <1>2, <1>3 DEF TimesOf
  <2>2. d.firstTime = now /\ d.lastTime = 0 /\ Packets(d) = 2
    BY <1>1, <1>3, <2>1
  <2> QED
    BY <2>2 DEF TimesOf
<1>4. CASE Packets(c) = 2
  <2>1. c.firstTime # 0 /\ c.firstTime <= now
    BY <1>2, <1>4 DEF TimesOf
  <2>2. d.firstTime = c.firstTime /\ d.lastTime = now /\ Packets(d) = 3
    BY <1>1, <1>4, <2>1
  <2> QED
    BY <1>2, <2>1, <2>2 DEF TimesOf
<1>5. CASE Packets(c) >= 3
  <2>1. /\ c.firstTime # 0 /\ c.lastTime < now /\ c.firstTime <= c.lastTime
        /\ Packets(c) - 3 <= c.lastTime - c.firstTime
    BY <1>2, <1>5 DEF TimesOf
  <2>2. d.firstTime = c.firstTime /\ d.lastTime = now /\ Packets(d) = Packets(c) + 1
    BY <1>1, <2>1
  <2>3. (Packets(c) + 1) - 3 <= now - c.firstTime
    BY <1>2, <2>1
  <2> QED
    BY <1>2, <1>5, <2>1, <2>2, <2>3 DEF TimesOf
<1> QED
  BY <1>2, <1>3, <1>4, <1>5 DEF TimesOf

LEMMA InitTimes == Init => Times
  BY DEF Init, Times, TimesFollowCounts

LEMMA NextTimes == Mirror /\ Times /\ [Next]_vars => Times'
<1> SUFFICES ASSUME Mirror, Times, [Next]_vars PROVE Times'
  OBVIOUS
<1>1. /\ now \in Nat \ {0} /\ Len(m_listCheck) \in Nat
      /\ \A i \in DOMAIN m_checkMap : m_checkMap[i] \in Item
  BY LenProperties DEF Mirror, TypeOK
<1>2. \A i \in DOMAIN m_checkMap : TimesOf(m_checkMap[i], now)
  BY TimesByItem
<1>3. ASSUME NEW f \in Frames, InsertCheck(f)
      PROVE  Times'
  <2> DEFINE c == newItem(f)
  <2>1. c \in Item /\ c.firstTime = 0 /\ c.lastTime = 0 /\ Packets(c) = 1
    BY <1>1, NewItemFacts
  <2>2. TimesOf(c, now)
    <3> HIDE DEF c
    <3> QED
      BY <1>1, <2>1 DEF TimesOf
  <2>3. /\ now' = now
        /\ \A i \in DOMAIN m_checkMap' :
              m_checkMap'[i] = c \/ (i \in DOMAIN m_checkMap /\ m_checkMap'[i] = m_checkMap[i])
    <3>1. m_checkMap' = Put(idOf(f), c) /\ now' = now
      BY <1>3 DEF InsertCheck, receive
    <3> HIDE DEF c
    <3> QED
      BY <3>1 DEF Put
  <2> HIDE DEF c
  <2> QED
    BY <1>2, <2>2, <2>3, TimesByItemNext
<1>4. ASSUME NEW f \in Frames, UpdateCheck(f)
      PROVE  Times'
  <2> DEFINE id == idOf(f)
             c == touched(m_checkMap[id], f)
  <2>1. TimesOf(c, now)
    BY <1>1, <1>2, <1>4, TouchedTimes DEF UpdateCheck
  <2>2. /\ now' = now
        /\ \A i \in DOMAIN m_checkMap' :
              m_checkMap'[i] = c \/ (i \in DOMAIN m_checkMap /\ m_checkMap'[i] = m_checkMap[i])
    <3>1. m_checkMap' = Put(id, c) /\ now' = now /\ id \in DOMAIN m_checkMap
      BY <1>4 DEF UpdateCheck, receive
    <3> HIDE DEF c, id
    <3> QED
      BY <3>1 DEF Put
  <2> HIDE DEF c
  <2> QED
    BY <1>2, <2>1, <2>2, TimesByItemNext
<1>5. ASSUME NEW f \in Frames, InsertFails(f) \/ IgnoreCheck(f)
      PROVE  Times'
  BY <1>5 DEF InsertFails, IgnoreCheck, receive, Times, TimesFollowCounts
<1>6. CASE OnWgwClear
  BY <1>6 DEF OnWgwClear, Times, TimesFollowCounts
<1>7. CASE Tick
  <2>1. now' = now + 1 /\ m_checkMap' = m_checkMap
    BY <1>7 DEF Tick
  <2>2. \A i \in DOMAIN m_checkMap : TimesOf(m_checkMap[i], now + 1)
    BY <1>1, <1>2 DEF TimesOf, Item
  <2> QED
    BY <2>1, <2>2, TimesByItemNext
<1>8. CASE UNCHANGED vars
  BY <1>8 DEF vars, Times, TimesFollowCounts
<1> QED
  BY <1>3, <1>4, <1>5, <1>6, <1>7, <1>8 DEF Next, processMsgCheck

\* The first and last time lag behind the counts as described there, and from
\* the third counted frame on at most one frame a second is counted (:130-143).
THEOREM TimesFollowCountsHolds == Spec => []TimesFollowCounts
<1>1. Times => TimesFollowCounts
  BY DEF Times
<1> QED
  BY <1>1, InitMirror, NextMirror, InitTimes, NextTimes, PTL DEF Spec

(***************************************************************************)
(* The last time, against the history of frames.                           *)
(***************************************************************************)
LEMMA LogAppend ==
  ASSUME TypeOK, NEW f \in Frames, receive(f)
  PROVE  /\ Len(log) \in Nat /\ Len(log') = Len(log) + 1
         /\ log'[Len(log) + 1] = [id |-> idOf(f), ok |-> ~ codeerr(f), at |-> now]
         /\ \A n \in 1..Len(log) : log'[n] = log[n]
         /\ now' = now
<1> DEFINE e == [id |-> idOf(f), ok |-> ~ codeerr(f), at |-> now]
<1>1. e \in [id : Ids, ok : BOOLEAN, at : Nat]
  BY FrameFacts DEF TypeOK
<1>2. log' = Append(log, e) /\ now' = now
  BY DEF receive
<1> HIDE DEF e
<1>3. log \in Seq([id : Ids, ok : BOOLEAN, at : Nat])
  BY DEF TypeOK
<1>4. /\ Len(log) \in Nat /\ Len(log') = Len(log) + 1 /\ log'[Len(log) + 1] = e
      /\ \A n \in 1..Len(log) : log'[n] = log[n]
  BY <1>1, <1>2, <1>3, AppendProperties, LenProperties
<1> QED
  BY <1>2, <1>4 DEF e

Latest ==
    /\ LastTimeIsLatest
    /\ \A n \in 1..Len(log) : log[n].at <= now

LEMMA InitLatest == Init => Latest
  BY DEF Init, Latest, LastTimeIsLatest

LEMMA NextLatest == Mirror /\ Times /\ Latest /\ [Next]_vars => Latest'
<1> SUFFICES ASSUME Mirror, Times, Latest, [Next]_vars PROVE Latest'
  OBVIOUS
<1>1. /\ TypeOK /\ now \in Nat \ {0} /\ Len(m_listCheck) \in Nat
      /\ \A i \in DOMAIN m_checkMap : m_checkMap[i] \in Item
  BY LenProperties DEF Mirror, TypeOK
<1>2. \A n \in 1..Len(log) : log[n].at <= now /\ log[n].at \in Nat
  <2>1. \A n \in 1..Len(log) : log[n] \in [id : Ids, ok : BOOLEAN, at : Nat]
    BY <1>1, ElementOfSeq DEF TypeOK
  <2> QED
    BY <2>1 DEF Latest
<1>3. ASSUME NEW f \in Frames, receive(f),
             \A i \in DOMAIN m_checkMap' :
                 \/ m_checkMap'[i].lastTime = 0
                 \/ m_checkMap'[i].lastTime = now
                 \/ i # idOf(f) /\ i \in DOMAIN m_checkMap /\ m_checkMap'[i] = m_checkMap[i]
      PROVE  Latest'
  <2>1. /\ Len(log) \in Nat /\ Len(log') = Len(log) + 1 /\ now' = now
        /\ log'[Len(log) + 1] = [id |-> idOf(f), ok |-> ~ codeerr(f), at |-> now]
        /\ \A n \in 1..Len(log) : log'[n] = log[n]
    BY <1>1, <1>3, LogAppend
  <2>2. log'[Len(log) + 1].id = idOf(f) /\ log'[Len(log) + 1].at = now
    BY <2>1
  <2>3. \A n \in 1..Len(log') : n = Len(log) + 1 \/ n \in 1..Len(log)
    BY <2>1
  <2>4. \A n \in 1..Len(log') : log'[n].at <= now'
    BY <1>1, <1>2, <2>1, <2>2, <2>3
  <2>5. ASSUME NEW i \in DOMAIN m_checkMap', NEW n \in 1..Len(log'),
               m_checkMap'[i].lastTime # 0, log'[n].id = i
        PROVE  log'[n].at <= m_checkMap'[i].lastTime
    <3>1. CASE m_checkMap'[i].lastTime = now
      BY <2>1, <2>4, <3>1
    <3>2. CASE i # idOf(f) /\ i \in DOMAIN m_checkMap /\ m_checkMap'[i] = m_checkMap[i]
      <4>1. n \in 1..Len(log) /\ log'[n] = log[n]
        BY <2>1, <2>2, <2>3, <2>5, <3>2
      <4> QED
        BY <2>5, <3>2, <4>1 DEF Latest, LastTimeIsLatest
    <3> QED
      BY <1>3, <2>5, <3>1, <3>2
  <2> QED
    BY <2>4, <2>5 DEF Latest, LastTimeIsLatest
<1>4. ASSUME NEW f \in Frames, InsertCheck(f)
      PROVE  Latest'
  <2> DEFINE id == idOf(f)
             c == newItem(f)
  <2>1. c.lastTime = 0
    BY <1>1, NewItemFacts
  <2>2. m_checkMap' = Put(id, c) /\ receive(f) /\ id \notin DOMAIN m_checkMap
    BY <1>4 DEF InsertCheck
  <2>3. \A i \in DOMAIN m_checkMap' :
            \/ m_checkMap'[i].lastTime = 0
            \/ i # id /\ i \in DOMAIN m_checkMap /\ m_checkMap'[i] = m_checkMap[i]
    <3> HIDE DEF id, c
    <3> QED
      BY <2>1, <2>2 DEF Put
  <2> QED
    BY <1>3, <2>2, <2>3
<1>5. ASSUME NEW f \in Frames, UpdateCheck(f)
      PROVE  Latest'
  <2> DEFINE id == idOf(f)
             c == touched(m_checkMap[id], f)
  <2>1. m_checkMap' = Put(id, c) /\ receive(f) /\ id \in DOMAIN m_checkMap
    BY <1>5 DEF UpdateCheck
  <2>2. c.lastTime = 0 \/ c.lastTime = now
    <3>1. m_checkMap[id].firstTime = 0 => m_checkMap[id].lastTime = 0
      <4>1. m_checkMap[id] \in Item
        BY <1>1, <2>1
      <4> QED
        BY <2>1, <4>1 DEF Times, TimesFollowCounts, Item, Packets
    <3> QED
      BY <1>1, <2>1, <3>1, TouchedFacts
  <2>3. \A i \in DOMAIN m_checkMap' :
            \/ m_checkMap'[i].lastTime = 0
            \/ m_checkMap'[i].lastTime = now
            \/ i # id /\ i \in DOMAIN m_checkMap /\ m_checkMap'[i] = m_checkMap[i]
    <3> HIDE DEF id, c
    <3> QED
      BY <2>1, <2>2 DEF Put
  <2> QED
    BY <1>3, <2>1, <2>3
<1>6. ASSUME NEW f \in Frames, InsertFails(f)
      PROVE  Latest'
  <2>1. receive(f) /\ m_checkMap' = m_checkMap /\ idOf(f) \notin DOMAIN m_checkMap
    BY <1>6 DEF InsertFails
  <2> QED
    BY <1>3, <2>1
<1>7. ASSUME NEW f \in Frames, IgnoreCheck(f)
      PROVE  Latest'
  <2>1. /\ receive(f) /\ m_checkMap' = m_checkMap
        /\ m_checkMap[idOf(f)].lastTime = now
    BY <1>7 DEF IgnoreCheck
  <2> QED
    BY <1>3, <2>1
<1>8. CASE OnWgwClear
  BY <1>8 DEF OnWgwClear, Latest, LastTimeIsLatest
<1>9. CASE Tick
  <2>1. now' = now + 1 /\ UNCHANGED <<m_checkMap, log>>
    BY <1>9 DEF Tick
  <2> QED
    BY <1>1, <1>2, <2>1 DEF Latest, LastTimeIsLatest
<1>10. CASE UNCHANGED vars
  BY <1>10 DEF vars, Latest, LastTimeIsLatest
<1> QED
  BY <1>4, <1>5, <1>6, <1>7, <1>8, <1>9, <1>10 DEF Next, processMsgCheck

\* A last time shown is that of the card's latest frame, ignored ones included.
THEOREM LastTimeIsLatestHolds == Spec => []LastTimeIsLatest
<1>1. Latest => LastTimeIsLatest
  BY DEF Latest
<1> QED
  BY <1>1, InitMirror, NextMirror, InitTimes, NextTimes, InitLatest, NextLatest,
     PTL DEF Spec

(***************************************************************************)
(* The counts, against the history of frames.                              *)
(***************************************************************************)
LEMMA FramesFinite ==
  ASSUME TypeOK, NEW i, NEW ok
  PROVE  IsFiniteSet(FramesOf(i, ok)) /\ Cardinality(FramesOf(i, ok)) \in Nat
<1>1. Len(log) \in Nat
  BY LenProperties DEF TypeOK
<1>2. IsFiniteSet(1..Len(log))
  BY <1>1, FS_Interval
<1>3. FramesOf(i, ok) \in SUBSET (1..Len(log))
  BY DEF FramesOf
<1> QED
  BY <1>2, <1>3, FS_Subset, FS_CardinalityType

\* A frame received adds one to the frames of its card and kind.
LEMMA FramesGrow ==
  ASSUME TypeOK, NEW f \in Frames, receive(f), NEW i, NEW ok \in BOOLEAN
  PROVE  Cardinality(FramesOf(i, ok)') =
             IF i = idOf(f) /\ ok = ~ codeerr(f)
             THEN Cardinality(FramesOf(i, ok)) + 1
             ELSE Cardinality(FramesOf(i, ok))
<1> DEFINE n == Len(log)
           S == FramesOf(i, ok)
<1>1. /\ n \in Nat /\ Len(log') = n + 1
      /\ log'[n + 1] = [id |-> idOf(f), ok |-> ~ codeerr(f), at |-> now]
      /\ \A k \in 1..n : log'[k] = log[k]
  BY LogAppend
<1>2. log'[n + 1].id = idOf(f) /\ log'[n + 1].ok = ~ codeerr(f)
  BY <1>1
<1>3. IsFiniteSet(S) /\ n + 1 \notin S
  <2>1. IsFiniteSet(S)
    BY FramesFinite
  <2>2. n + 1 \notin 1..n
    BY <1>1
  <2>3. S \subseteq 1..n
    BY DEF FramesOf
  <2> QED
    BY <2>1, <2>2, <2>3
<1>4. CASE i = idOf(f) /\ ok = ~ codeerr(f)
  <2>1. FramesOf(i, ok)' = S \union {n + 1}
    BY <1>1, <1>2, <1>4 DEF FramesOf
  <2> HIDE DEF S, n
  <2>2. Cardinality(S \union {n + 1}) = Cardinality(S) + 1
    BY <1>3, FS_AddElement
  <2> QED
    BY <1>4, <2>1, <2>2 DEF S
<1>5. CASE ~ (i = idOf(f) /\ ok = ~ codeerr(f))
  <2>1. FramesOf(i, ok)' = S
    <3>1. \A k \in 1..n + 1 : k = n + 1 \/ k \in 1..n
      BY <1>1
    <3> QED
      BY <1>1, <1>2, <1>5, <3>1 DEF FramesOf
  <2> QED
    BY <1>5, <2>1
<1> QED
  BY <1>4, <1>5

\* One item's share of NotOvercounted.
CountsOf(c, good, bad) == c.count <= good /\ c.errCount <= bad

LEMMA InitCounts == Init => NotOvercounted
  BY DEF Init, NotOvercounted

LEMMA NextCounts == Mirror /\ NotOvercounted /\ [Next]_vars => NotOvercounted'
<1> SUFFICES ASSUME Mirror, NotOvercounted, [Next]_vars PROVE NotOvercounted'
  OBVIOUS
<1>1. /\ TypeOK /\ now \in Nat /\ Len(m_listCheck) \in Nat
      /\ \A i \in DOMAIN m_checkMap : m_checkMap[i] \in Item
  BY LenProperties DEF Mirror, TypeOK
<1>2. ASSUME NEW f \in Frames, receive(f),
             \A i \in DOMAIN m_checkMap' :
                 \/ i \in DOMAIN m_checkMap /\ m_checkMap'[i] = m_checkMap[i]
                 \/ /\ i = idOf(f) /\ i \in DOMAIN m_checkMap
                    /\ m_checkMap'[i] = touched(m_checkMap[i], f)
                 \/ i = idOf(f) /\ m_checkMap'[i] = newItem(f)
      PROVE  NotOvercounted'
  <2> SUFFICES ASSUME NEW i \in DOMAIN m_checkMap'
               PROVE  CountsOf(m_checkMap'[i], Cardinality(FramesOf(i, TRUE)'),
                               Cardinality(FramesOf(i, FALSE)'))
    BY DEF NotOvercounted, CountsOf
  <2> DEFINE good == Cardinality(FramesOf(i, TRUE))
             bad == Cardinality(FramesOf(i, FALSE))
             goodNext == Cardinality(FramesOf(i, TRUE)')
             badNext == Cardinality(FramesOf(i, FALSE)')
  <2>1. good \in Nat /\ bad \in Nat
    BY <1>1, FramesFinite
  <2>2. /\ goodNext = IF i = idOf(f) /\ TRUE = ~ codeerr(f) THEN good + 1 ELSE good
        /\ badNext = IF i = idOf(f) /\ FALSE = ~ codeerr(f) THEN bad + 1 ELSE bad
    BY <1>1, <1>2, FramesGrow
  <2>3. i \in DOMAIN m_checkMap =>
            /\ m_checkMap[i].count \in Nat /\ m_checkMap[i].count <= good
            /\ m_checkMap[i].errCount \in Nat /\ m_checkMap[i].errCount <= bad
    BY <1>1 DEF NotOvercounted, Item
  <2> SUFFICES CountsOf(m_checkMap'[i], goodNext, badNext)
    OBVIOUS
  <2> HIDE DEF good, bad, goodNext, badNext
  <2>4. codeerr(f) \in BOOLEAN
    BY FrameFacts
  <2>5. CASE i \in DOMAIN m_checkMap /\ m_checkMap'[i] = m_checkMap[i]
    BY <2>1, <2>2, <2>3, <2>4, <2>5 DEF CountsOf
  <2>6. CASE /\ i = idOf(f) /\ i \in DOMAIN m_checkMap
             /\ m_checkMap'[i] = touched(m_checkMap[i], f)
    <3> DEFINE c == m_checkMap[i]
    <3>1. /\ touched(c, f).count = IF codeerr(f) THEN c.count ELSE c.count + 1
          /\ touched(c, f).errCount = IF codeerr(f) THEN c.errCount + 1 ELSE c.errCount
      BY <1>1, <2>6 DEF touched, Item
    <3> QED
      BY <2>1, <2>2, <2>3, <2>4, <2>6, <3>1 DEF CountsOf
  <2>7. CASE i = idOf(f) /\ m_checkMap'[i] = newItem(f)
    <3>1. /\ newItem(f).count = IF codeerr(f) THEN 0 ELSE 1
          /\ newItem(f).errCount = IF codeerr(f) THEN 1 ELSE 0
      BY DEF newItem
    <3> QED
      BY <2>1, <2>2, <2>4, <2>7, <3>1 DEF CountsOf
  <2> QED
    BY <1>2, <2>5, <2>6, <2>7
<1>3. ASSUME NEW f \in Frames, InsertCheck(f)
      PROVE  NotOvercounted'
  <2> DEFINE id == idOf(f)
             c == newItem(f)
  <2>1. m_checkMap' = Put(id, c) /\ receive(f)
    BY <1>3 DEF InsertCheck
  <2>2. \A i \in DOMAIN m_checkMap' :
            \/ i \in DOMAIN m_checkMap /\ m_checkMap'[i] = m_checkMap[i]
            \/ i = id /\ m_checkMap'[i] = c
    <3> HIDE DEF id, c
    <3> QED
      BY <2>1 DEF Put
  <2> QED
    BY <1>2, <2>1, <2>2
<1>4. ASSUME NEW f \in Frames, UpdateCheck(f)
      PROVE  NotOvercounted'
  <2> DEFINE id == idOf(f)
             c == touched(m_checkMap[id], f)
  <2>1. m_checkMap' = Put(id, c) /\ receive(f) /\ id \in DOMAIN m_checkMap
    BY <1>4 DEF UpdateCheck
  <2>2. \A i \in DOMAIN m_checkMap' :
            \/ i \in DOMAIN m_checkMap /\ m_checkMap'[i] = m_checkMap[i]
            \/ i = id /\ i \in DOMAIN m_checkMap /\ m_checkMap'[i] = c
    <3> HIDE DEF id, c
    <3> QED
      BY <2>1 DEF Put
  <2> QED
    BY <1>2, <2>1, <2>2
<1>5. ASSUME NEW f \in Frames, InsertFails(f) \/ IgnoreCheck(f)
      PROVE  NotOvercounted'
  <2>1. receive(f) /\ m_checkMap' = m_checkMap
    BY <1>5 DEF InsertFails, IgnoreCheck
  <2> QED
    BY <1>2, <2>1
<1>6. CASE OnWgwClear
  BY <1>6 DEF OnWgwClear, NotOvercounted
<1>7. CASE Tick \/ UNCHANGED vars
  <2>1. UNCHANGED <<m_checkMap, log>>
    BY <1>7 DEF Tick, vars
  <2> QED
    BY <2>1 DEF NotOvercounted, FramesOf
<1> QED
  BY <1>3, <1>4, <1>5, <1>6, <1>7 DEF Next, processMsgCheck

\* No frame is counted twice, and none as of the other kind (:116-143).
THEOREM NotOvercountedHolds == Spec => []NotOvercounted
  BY InitMirror, NextMirror, InitCounts, NextCounts, PTL DEF Spec
=============================================================================
