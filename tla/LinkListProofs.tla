---------------------------- MODULE LinkListProofs ----------------------------
(***************************************************************************)
(* Theorems about LinkList, for any ports, devices, peers and any number   *)
(* of connections.                                                         *)
(***************************************************************************)
EXTENDS LinkList, SequenceTheorems, FiniteSetTheorems, TLAPS

\* PeersAccounted with its sets named; connections are numbers.
Announced ==
    LET queued == ToSet(queue)
    IN /\ names \in Seq(Peers \union {Garbage}) /\ queue \in Seq(Nat)
       /\ queued \union shown \union wiped \union unposted = 1..Len(names)
       /\ \A n \in queued : n \notin shown \union wiped \union unposted
       /\ \A n \in shown : n \notin wiped \union unposted
       /\ \A n \in wiped : n \notin unposted
       /\ \A a, b \in 1..Len(queue) : a < b => queue[a] < queue[b]
       /\ \A n \in shown \union wiped, q \in queued : n < q

LEMMA AnnouncedAccounts == Announced => PeersAccounted
<1> SUFFICES ASSUME Announced PROVE PeersAccounted
  OBVIOUS
<1> DEFINE queued == ToSet(queue)
           places == <<queued, shown, wiped, unposted>>
<1>1. /\ queued \union shown \union wiped \union unposted = 1..Len(names)
      /\ \A n \in queued : n \notin shown \union wiped \union unposted
      /\ \A n \in shown : n \notin wiped \union unposted
      /\ \A n \in wiped : n \notin unposted
      /\ \A a, b \in 1..Len(queue) : a < b => queue[a] < queue[b]
      /\ \A n \in shown \union wiped, q \in queued : n < q
  BY DEF Announced
<1> HIDE DEF queued
<1>2. /\ Len(places) = 4 /\ places[1] = queued /\ places[2] = shown
      /\ places[3] = wiped /\ places[4] = unposted
  OBVIOUS
<1>3. \A x : x \in 1..4 <=> x = 1 \/ x = 2 \/ x = 3 \/ x = 4
  OBVIOUS
<1>4. ToSet(places) = {queued, shown, wiped, unposted}
  <2>1. ToSet(places) = {places[n] : n \in 1..4}
    BY <1>2 DEF ToSet
  <2> QED
    BY <1>2, <1>3, <2>1
<1>5. UNION ToSet(places) = 1..Len(names)
  BY <1>1, <1>4
<1>6. ASSUME NEW a \in 1..4, NEW b \in 1..4, a # b
      PROVE  places[a] \intersect places[b] = {}
  <2>1. CASE a = 1
    BY <1>1, <1>2, <1>3, <1>6, <2>1
  <2>2. CASE a = 2
    BY <1>1, <1>2, <1>3, <1>6, <2>2
  <2>3. CASE a = 3
    BY <1>1, <1>2, <1>3, <1>6, <2>3
  <2>4. CASE a = 4
    BY <1>1, <1>2, <1>3, <1>6, <2>4
  <2> QED
    BY <1>3, <2>1, <2>2, <2>3, <2>4
<1> QED
  BY <1>1, <1>5, <1>6 DEF PeersAccounted, queued

\* A number above all others at the end of a queue leaves it in order.
LEMMA AppendInOrder ==
  ASSUME NEW q \in Seq(Nat), NEW e \in Nat, \A n \in ToSet(q) : n < e,
         \A a, b \in 1..Len(q) : a < b => q[a] < q[b]
  PROVE  /\ Append(q, e) \in Seq(Nat)
         /\ ToSet(Append(q, e)) = ToSet(q) \union {e}
         /\ \A a, b \in 1..Len(Append(q, e)) : a < b => Append(q, e)[a] < Append(q, e)[b]
<1>1. /\ Len(q) \in Nat /\ Len(Append(q, e)) = Len(q) + 1 /\ Append(q, e) \in Seq(Nat)
      /\ Append(q, e)[Len(q) + 1] = e
      /\ \A n \in 1..Len(q) : Append(q, e)[n] = q[n]
  BY AppendProperties, LenProperties
<1>2. \A n : n \in 1..Len(q) + 1 <=> n \in 1..Len(q) \/ n = Len(q) + 1
  BY <1>1
<1>3. ASSUME NEW x PROVE x \in ToSet(Append(q, e)) <=> x \in ToSet(q) \/ x = e
  BY <1>1, <1>2 DEF ToSet
<1>4. ASSUME NEW a \in 1..Len(q) + 1, NEW b \in 1..Len(q) + 1, a < b
      PROVE  Append(q, e)[a] < Append(q, e)[b]
  <2>1. a \in 1..Len(q) /\ q[a] \in ToSet(q)
    BY <1>1, <1>4 DEF ToSet
  <2> QED
    BY <1>1, <1>2, <1>4, <2>1
<1> QED
  BY <1>1, <1>3, <1>4

\* The number at the head of an ordered queue is below the others, and leaves.
LEMMA TailInOrder ==
  ASSUME NEW q \in Seq(Nat), q # <<>>,
         \A a, b \in 1..Len(q) : a < b => q[a] < q[b]
  PROVE  /\ Tail(q) \in Seq(Nat) /\ Head(q) \in Nat /\ Head(q) \in ToSet(q)
         /\ ToSet(Tail(q)) = ToSet(q) \ {Head(q)}
         /\ \A n \in ToSet(Tail(q)) : Head(q) < n
         /\ \A a, b \in 1..Len(Tail(q)) : a < b => Tail(q)[a] < Tail(q)[b]
<1>1. /\ Len(q) \in Nat \ {0} /\ Head(q) = q[1] /\ Len(Tail(q)) = Len(q) - 1
      /\ Tail(q) \in Seq(Nat) /\ Head(q) \in Nat
      /\ \A n \in 1..Len(Tail(q)) : Tail(q)[n] = q[n + 1]
  BY HeadTailProperties, EmptySeq, LenProperties
<1>2. Head(q) \in ToSet(q)
  BY <1>1 DEF ToSet
<1>3. ASSUME NEW n \in ToSet(Tail(q)) PROVE n \in ToSet(q) /\ Head(q) < n
  <2>1. PICK a \in 1..Len(q) - 1 : n = q[a + 1]
    BY <1>1 DEF ToSet
  <2>2. a + 1 \in 1..Len(q) /\ 1 \in 1..Len(q) /\ 1 < a + 1
    BY <1>1
  <2> QED
    BY <1>1, <2>1, <2>2 DEF ToSet
<1>4. ASSUME NEW n \in ToSet(q), n # Head(q) PROVE n \in ToSet(Tail(q))
  <2>1. PICK a \in 1..Len(q) : n = q[a]
    BY DEF ToSet
  <2>2. a - 1 \in 1..Len(Tail(q)) /\ a - 1 + 1 = a
    BY <1>1, <1>4, <2>1
  <2>3. PICK k \in 1..Len(Tail(q)) : k = a - 1
    BY <2>2
  <2>4. Tail(q)[k] = n
    BY <1>1, <2>1, <2>2, <2>3
  <2>5. DOMAIN Tail(q) = 1..Len(Tail(q))
    BY <1>1, LenProperties
  <2> QED
    BY <2>4, <2>5, Zenon DEF ToSet
<1>5. Head(q) \notin ToSet(Tail(q))
  BY <1>1, <1>3
<1>6. ASSUME NEW a \in 1..Len(q) - 1, NEW b \in 1..Len(q) - 1, a < b
      PROVE  q[a + 1] < q[b + 1]
  <2>1. a + 1 \in 1..Len(q) /\ b + 1 \in 1..Len(q) /\ a + 1 < b + 1
    BY <1>1, <1>6
  <2> QED
    BY <2>1
<1> QED
  BY <1>1, <1>2, <1>3, <1>4, <1>5, <1>6

LEMMA NextAnnounced == Announced /\ [Next]_vars => Announced'
<1> SUFFICES ASSUME Announced, [Next]_vars PROVE Announced'
  OBVIOUS
<1> DEFINE queued == ToSet(queue)
<1>1. /\ names \in Seq(Peers \union {Garbage}) /\ queue \in Seq(Nat) /\ Len(names) \in Nat
      /\ queued \union shown \union wiped \union unposted = 1..Len(names)
      /\ \A n \in queued : n \notin shown \union wiped \union unposted
      /\ \A n \in shown : n \notin wiped \union unposted
      /\ \A n \in wiped : n \notin unposted
      /\ \A a, b \in 1..Len(queue) : a < b => queue[a] < queue[b]
      /\ \A n \in shown \union wiped, q \in queued : n < q
  BY LenProperties DEF Announced
<1>2. ASSUME UNCHANGED <<names, queue, shown, wiped, unposted>>
      PROVE  Announced'
  BY <1>2 DEF Announced
<1>3. ASSUME NEW p \in Peers, NEW reset \in BOOLEAN, listener_cb(p, reset)
      PROVE  Announced'
  <2>1. PICK name \in getPeerName(p, reset) : names' = Append(names, name)
    BY <1>3 DEF listener_cb
  <2>2. name \in Peers \union {Garbage}
    BY DEF getPeerName
  <2>3. /\ names' \in Seq(Peers \union {Garbage}) /\ Len(names') = Len(names) + 1
        /\ UNCHANGED <<shown, wiped>>
    BY <1>1, <1>3, <2>1, <2>2, AppendProperties DEF listener_cb, box
  <2>4. /\ Link \in Nat /\ 1..Len(names') = 1..Len(names) \union {Link}
        /\ \A n \in 1..Len(names) : n < Link
    BY <1>1, <2>3 DEF Link
  <2>5. CASE queue' = Append(queue, Link) /\ UNCHANGED unposted
    <3>1. \A n \in queued : n < Link
      BY <1>1, <2>4
    <3>2. /\ queue' \in Seq(Nat) /\ ToSet(queue') = queued \union {Link}
          /\ \A a, b \in 1..Len(queue') : a < b => queue'[a] < queue'[b]
      BY <1>1, <2>4, <2>5, <3>1, AppendInOrder
    <3>3. \A n \in shown \union wiped \union unposted : n < Link /\ n # Link
      BY <1>1, <2>4
    <3> HIDE DEF queued
    <3> QED
      BY <1>1, <2>3, <2>4, <2>5, <3>2, <3>3 DEF Announced
  <2>6. CASE unposted' = unposted \union {Link} /\ UNCHANGED queue
    <3>1. \A n \in queued \union shown \union wiped \union unposted : n # Link
      BY <1>1, <2>4
    <3> QED
      BY <1>1, <2>3, <2>4, <2>6, <3>1 DEF Announced
  <2> QED
    BY <1>3, <2>5, <2>6 DEF listener_cb
<1>4. CASE OnUsernNewLink
  <2>1. /\ queue # <<>> /\ queue' = Tail(queue) /\ shown' = shown \union {Head(queue)}
        /\ UNCHANGED <<names, wiped, unposted>>
    BY <1>4 DEF OnUsernNewLink, tcp
  <2>2. /\ queue' \in Seq(Nat) /\ Head(queue) \in queued
        /\ ToSet(queue') = queued \ {Head(queue)}
        /\ \A n \in ToSet(queue') : Head(queue) < n
        /\ \A a, b \in 1..Len(queue') : a < b => queue'[a] < queue'[b]
    BY <1>1, <2>1, TailInOrder
  <2> HIDE DEF queued
  <2> QED
    BY <1>1, <2>1, <2>2 DEF Announced
<1>5. CASE EnumPorts
  <2>1. wiped' = wiped \union shown /\ shown' = {} /\ UNCHANGED <<names, queue, unposted>>
    BY <1>5 DEF EnumPorts, tcp
  <2>2. ToSet(queue') = queued
    BY <2>1
  <2> HIDE DEF queued
  <2> QED
    BY <1>1, <2>1, <2>2 DEF Announced
<1>6. CASE BeginThread \/ OnBnClickedLink \/ EnumThrows \/ InitSelDev
  BY <1>2, <1>6 DEF BeginThread, OnBnClickedLink, EnumThrows, InitSelDev, GetDevicePath,
                    GetDevicePathFails, CreateFileFails, CreateFile, tcp, box
<1>7. CASE listener_cbBreaks \/ Closed
  BY <1>2, <1>7 DEF listener_cbBreaks, Closed, conn_eventcb, box
<1>8. CASE System
  BY <1>2, <1>8 DEF System, PeerLeaves, HidPlugged, HidUnplugged, HidTaken, PortsChange,
                    tcp, box
<1>9. CASE UNCHANGED vars
  BY <1>2, <1>9 DEF vars, tcp, box
<1> QED
  BY <1>3, <1>4, <1>5, <1>6, <1>7, <1>8, <1>9 DEF Next, Scan

LEMMA InitAnnounced == Init => Announced
<1> SUFFICES ASSUME Init PROVE Announced
  OBVIOUS
<1>1. /\ names \in Seq(Peers \union {Garbage}) /\ queue \in Seq(Nat)
      /\ Len(names) = 0 /\ Len(queue) = 0
  BY EmptySeq DEF Init
<1>2. ToSet(queue) = {} /\ 1..Len(names) = {}
  BY <1>1 DEF ToSet
<1> QED
  BY <1>1, <1>2 DEF Init, Announced

\* Every connection accepted is announced once and in order, or its message could
\* not be posted: none is both in the queue and in the box, and none is added again
\* after a rescan (listener_cb, tcpServer.cpp:101; OnUsernNewLink, wgwDlg.cpp:733).
THEOREM PeersAccountedHolds == Spec => []PeersAccounted
BY InitAnnounced, NextAnnounced, AnnouncedAccounts, PTL DEF Spec
-----------------------------------------------------------------------------
(***************************************************************************)
(* The list of devices: an entry put in or taken out, and its length.      *)
(***************************************************************************)
LEMMA InsertAtEntries ==
  ASSUME NEW S, NEW s \in Seq(S), NEW e \in S, NEW i \in 1..Len(s) + 1
  PROVE  /\ InsertAt(s, i, e) \in Seq(S)
         /\ Len(InsertAt(s, i, e)) = Len(s) + 1
         /\ \A k \in 1..Len(s) + 1 :
              /\ k < i => InsertAt(s, i, e)[k] = s[k]
              /\ k = i => InsertAt(s, i, e)[k] = e
              /\ k > i => InsertAt(s, i, e)[k] = s[k - 1]
<1> DEFINE front == SubSeq(s, 1, i - 1)
           back == SubSeq(s, i, Len(s))
<1>1. Len(s) \in Nat /\ i \in Nat /\ i - 1 \in 0..Len(s)
  BY LenProperties
<1>2. /\ front \in Seq(S) /\ Len(front) = i - 1
      /\ \A k \in 1..i - 1 : front[k] = s[k]
  <2>1. /\ 1 \in 1..Len(s) + 1 /\ i - 1 \in 1 - 1..Len(s)
        /\ (IF 1 <= i - 1 THEN i - 1 - 1 + 1 ELSE 0) = i - 1
    BY <1>1
  <2> QED
    BY <1>1, <2>1, SubSeqProperties
<1>3. /\ back \in Seq(S) /\ Len(back) = Len(s) - i + 1
      /\ \A k \in 1..Len(s) - i + 1 : back[k] = s[i + k - 1]
  <2>1. Len(s) \in i - 1..Len(s)
    BY <1>1
  <2> QED
    BY <1>1, <2>1, SubSeqProperties
<1> HIDE DEF front, back
<1>4. /\ <<e>> \in Seq(S) /\ Len(<<e>>) = 1 /\ <<e>>[1] = e
  OBVIOUS
<1>5. /\ front \o <<e>> \in Seq(S) /\ Len(front \o <<e>>) = i
      /\ \A k \in 1..i : (front \o <<e>>)[k] = IF k < i THEN s[k] ELSE e
  BY <1>1, <1>2, <1>4, ConcatProperties
<1> DEFINE head == front \o <<e>>
<1>6. InsertAt(s, i, e) = head \o back
  BY DEF InsertAt, front, back
<1> HIDE DEF head
<1>7. /\ head \in Seq(S) /\ Len(head) = i
      /\ \A k \in 1..i : head[k] = IF k < i THEN s[k] ELSE e
  BY <1>5 DEF head
<1>8. /\ head \o back \in Seq(S) /\ Len(head \o back) = Len(s) + 1
      /\ \A k \in 1..Len(s) + 1 :
           (head \o back)[k] = IF k <= i THEN head[k] ELSE back[k - i]
  BY <1>1, <1>3, <1>7, ConcatProperties
<1>9. ASSUME NEW k \in 1..Len(s) + 1, k > i PROVE (head \o back)[k] = s[k - 1]
  <2>1. k - i \in 1..Len(s) - i + 1 /\ i + (k - i) - 1 = k - 1 /\ ~(k <= i)
    BY <1>1, <1>9
  <2> QED
    BY <1>3, <1>8, <2>1
<1>10. ASSUME NEW k \in 1..Len(s) + 1
       PROVE  /\ k < i => (head \o back)[k] = s[k]
              /\ k = i => (head \o back)[k] = e
  <2>1. k <= i => k \in 1..i /\ (head \o back)[k] = head[k]
    BY <1>1, <1>8
  <2> QED
    BY <1>1, <1>7, <2>1
<1> QED
  BY <1>6, <1>8, <1>9, <1>10

LEMMA RemoveAtEntries ==
  ASSUME NEW S, NEW s \in Seq(S), NEW i \in 1..Len(s)
  PROVE  /\ RemoveAt(s, i) \in Seq(S)
         /\ Len(RemoveAt(s, i)) = Len(s) - 1
         /\ \A k \in 1..Len(s) - 1 :
              /\ k < i => RemoveAt(s, i)[k] = s[k]
              /\ k >= i => RemoveAt(s, i)[k] = s[k + 1]
<1> DEFINE front == SubSeq(s, 1, i - 1)
           back == SubSeq(s, i + 1, Len(s))
<1>1. Len(s) \in Nat /\ i \in Nat /\ i - 1 \in 0..Len(s)
  BY LenProperties
<1>2. /\ front \in Seq(S) /\ Len(front) = i - 1
      /\ \A k \in 1..i - 1 : front[k] = s[k]
  <2>1. /\ 1 \in 1..Len(s) + 1 /\ i - 1 \in 1 - 1..Len(s)
        /\ (IF 1 <= i - 1 THEN i - 1 - 1 + 1 ELSE 0) = i - 1
    BY <1>1
  <2> QED
    BY <1>1, <2>1, SubSeqProperties
<1>3. /\ back \in Seq(S) /\ Len(back) = Len(s) - i
      /\ \A k \in 1..Len(s) - i : back[k] = s[i + k]
  <2>1. /\ Len(s) \in i + 1 - 1..Len(s) /\ i + 1 \in 1..Len(s) + 1
        /\ (IF i + 1 <= Len(s) THEN Len(s) - (i + 1) + 1 ELSE 0) = Len(s) - i
        /\ \A k \in 1..Len(s) - i : i + 1 + k - 1 = i + k
    BY <1>1
  <2> QED
    BY <1>1, <2>1, SubSeqProperties, SMTT(30)
<1>4. RemoveAt(s, i) = front \o back
  BY DEF RemoveAt
<1> HIDE DEF front, back
<1>5. /\ front \o back \in Seq(S) /\ Len(front \o back) = Len(s) - 1
      /\ \A k \in 1..Len(s) - 1 :
           (front \o back)[k] = IF k <= i - 1 THEN front[k] ELSE back[k - (i - 1)]
  <2>1. /\ front \o back \in Seq(S) /\ Len(front \o back) = Len(front) + Len(back)
        /\ \A k \in 1..Len(front) + Len(back) :
             (front \o back)[k] = IF k <= Len(front) THEN front[k] ELSE back[k - Len(front)]
    BY <1>2, <1>3, ConcatProperties
  <2>2. Len(front) = i - 1 /\ Len(front) + Len(back) = Len(s) - 1
    BY <1>1, <1>2, <1>3
  <2> QED
    BY <2>1, <2>2
<1>6. ASSUME NEW k \in 1..Len(s) - 1, k >= i PROVE (front \o back)[k] = s[k + 1]
  <2>1. k - (i - 1) \in 1..Len(s) - i /\ i + (k - (i - 1)) = k + 1 /\ ~(k <= i - 1)
    BY <1>1, <1>6
  <2> QED
    BY <1>3, <1>5, <2>1
<1> QED
  BY <1>1, <1>2, <1>4, <1>5, <1>6

\* A list without duplicates is no longer than there are devices.
LEMMA ListFits ==
  ASSUME NEW s \in Seq(Hids), IsInjective(s)
  PROVE  Len(s) <= Cardinality(Hids) /\ Cardinality(Hids) \in Nat
<1>1. Len(s) \in Nat /\ s \in [1..Len(s) -> Hids]
  BY LenProperties
<1>2. s \in Injection(1..Len(s), Hids)
  BY <1>1 DEF Injection
<1>3. Cardinality(1..Len(s)) <= Cardinality(Hids)
  BY <1>2, HidsAssumption, FS_Injection
<1>4. Cardinality(1..Len(s)) = Len(s)
  <2>1. \A n \in Nat : Cardinality(1..n) = n
    BY FS_Interval
  <2> QED
    BY <1>1, <2>1
<1> QED
  BY <1>3, <1>4, HidsAssumption, FS_CardinalityType
-----------------------------------------------------------------------------
(***************************************************************************)
(* The scan for devices.                                                   *)
(***************************************************************************)
\* TypeOK by parts, and why deviceNo stays in range: while InitSelDev holds a path,
\* the index it was got with is below the number of devices, though the list may have
\* shrunk.
PeersTyped ==
    /\ listener \in {"none", "on", "ended"}
    /\ names \in Seq(Peers \union {Garbage})
    /\ conns \subseteq 1..Len(names) /\ gone \subseteq 1..Len(names)

BoxTyped ==
    /\ IsABag(items)
    /\ BagToSet(items) \subseteq Ports \union Hids \union Peers \union {Garbage}
    /\ ports \subseteq Ports

ListTyped ==
    /\ hids \in Seq(Hids) /\ IsInjective(hids)
    /\ busy \subseteq Hids

IndexTyped ==
    /\ step \in {"idle", "enum", "path", "create"}
    /\ deviceNo \in Nat /\ deviceNo <= Cardinality(Hids)
    /\ buf \in Hids \union {NoPath}
    /\ step = "create" => deviceNo < Cardinality(Hids) /\ buf \in Hids

Typed == PeersTyped /\ BoxTyped /\ ListTyped /\ IndexTyped

LEMMA TypedTypeOK == Typed => TypeOK
<1> SUFFICES ASSUME Typed PROVE TypeOK
  OBVIOUS
<1>1. ToSet(hids) \subseteq Hids
  BY LenProperties DEF Typed, ListTyped, ToSet
<1>2. Cardinality(Hids) \in Nat
  BY HidsAssumption, FS_CardinalityType
<1>3. deviceNo \in 0..Cardinality(Hids)
  BY <1>2 DEF Typed, IndexTyped
<1> QED
  BY <1>1, <1>3 DEF Typed, PeersTyped, BoxTyped, ListTyped, IndexTyped, TypeOK

\* One more name in a bag.
LEMMA AddedToBag ==
  ASSUME NEW b, IsABag(b), NEW x
  PROVE  /\ IsABag(b (+) SetToBag({x}))
         /\ BagToSet(b (+) SetToBag({x})) = BagToSet(b) \union {x}
BY DEF IsABag, BagToSet, SetToBag, (+)

LEMMA NextPeersTyped == PeersTyped /\ [Next]_vars => PeersTyped'
<1> SUFFICES ASSUME PeersTyped, [Next]_vars PROVE PeersTyped'
  OBVIOUS
<1>1. ASSUME UNCHANGED tcp PROVE PeersTyped'
  BY <1>1 DEF PeersTyped, tcp
<1>2. ASSUME NEW p \in Peers, NEW reset \in BOOLEAN, listener_cb(p, reset)
      PROVE  PeersTyped'
  <2>1. PICK name \in getPeerName(p, reset) : names' = Append(names, name)
    BY <1>2 DEF listener_cb
  <2>2. name \in Peers \union {Garbage}
    BY DEF getPeerName
  <2>3. /\ names' \in Seq(Peers \union {Garbage}) /\ Len(names') = Len(names) + 1
        /\ Len(names) \in Nat
    BY <2>1, <2>2, AppendProperties, LenProperties DEF PeersTyped
  <2>4. 1..Len(names') = 1..Len(names) \union {Link}
    BY <2>3 DEF Link
  <2> QED
    BY <1>2, <2>3, <2>4 DEF listener_cb, PeersTyped
<1>3. CASE BeginThread \/ EnumThrows \/ listener_cbBreaks \/ Closed
  BY <1>3 DEF BeginThread, EnumThrows, listener_cbBreaks, Closed, conn_eventcb, PeersTyped
<1>4. ASSUME NEW n \in conns \ gone, PeerLeaves(n) PROVE PeersTyped'
  BY <1>4 DEF PeerLeaves, PeersTyped
<1>5. CASE OnBnClickedLink \/ EnumPorts \/ InitSelDev \/ OnUsernNewLink
  BY <1>1, <1>5 DEF OnBnClickedLink, EnumPorts, InitSelDev, GetDevicePath,
                    GetDevicePathFails, CreateFileFails, CreateFile, OnUsernNewLink
<1>6. CASE System
  BY <1>1, <1>4, <1>6 DEF System, HidPlugged, HidUnplugged, HidTaken, PortsChange
<1>7. CASE UNCHANGED vars
  BY <1>1, <1>7 DEF vars
<1> QED
  BY <1>2, <1>3, <1>5, <1>6, <1>7 DEF Next, Scan

LEMMA NextListTyped == ListTyped /\ [Next]_vars => ListTyped'
<1> SUFFICES ASSUME ListTyped, [Next]_vars PROVE ListTyped'
  OBVIOUS
<1>1. ASSUME UNCHANGED <<hids, busy>> PROVE ListTyped'
  BY <1>1 DEF ListTyped
<1>2. /\ hids \in Seq(Hids) /\ Len(hids) \in Nat /\ DOMAIN hids = 1..Len(hids)
      /\ \A a, b \in 1..Len(hids) : hids[a] = hids[b] => a = b
  BY LenProperties DEF ListTyped, IsInjective
<1>3. ASSUME NEW d \in Hids, NEW i \in 1..Len(hids) + 1, HidPlugged(d, i)
      PROVE  ListTyped'
  <2>1. /\ hids' = InsertAt(hids, i, d) /\ UNCHANGED busy
        /\ \A a \in 1..Len(hids) : hids[a] # d
    BY <1>2, <1>3 DEF HidPlugged, ToSet
  <2>2. /\ hids' \in Seq(Hids) /\ Len(hids') = Len(hids) + 1
        /\ DOMAIN hids' = 1..Len(hids) + 1
        /\ \A k \in 1..Len(hids) + 1 : /\ k < i => hids'[k] = hids[k]
                                       /\ k = i => hids'[k] = d
                                       /\ k > i => hids'[k] = hids[k - 1]
    <3>1. /\ InsertAt(hids, i, d) \in Seq(Hids)
          /\ Len(InsertAt(hids, i, d)) = Len(hids) + 1
          /\ \A k \in 1..Len(hids) + 1 :
               /\ k < i => InsertAt(hids, i, d)[k] = hids[k]
               /\ k = i => InsertAt(hids, i, d)[k] = d
               /\ k > i => InsertAt(hids, i, d)[k] = hids[k - 1]
      <4>1. \A s \in Seq(Hids) : \A e \in Hids : \A j \in 1..Len(s) + 1 :
              /\ InsertAt(s, j, e) \in Seq(Hids)
              /\ Len(InsertAt(s, j, e)) = Len(s) + 1
              /\ \A k \in 1..Len(s) + 1 :
                   /\ k < j => InsertAt(s, j, e)[k] = s[k]
                   /\ k = j => InsertAt(s, j, e)[k] = e
                   /\ k > j => InsertAt(s, j, e)[k] = s[k - 1]
        BY InsertAtEntries
      <4> QED
        BY <1>2, <4>1
    <3> QED
      BY <2>1, <3>1, LenProperties
  <2>3. ASSUME NEW a \in 1..Len(hids) + 1, NEW b \in 1..Len(hids) + 1, hids'[a] = hids'[b]
        PROVE  a = b
    <3>1. /\ a < i => a \in 1..Len(hids)
          /\ a > i => a - 1 \in 1..Len(hids)
          /\ b < i => b \in 1..Len(hids)
          /\ b > i => b - 1 \in 1..Len(hids)
      BY <1>2
    <3> DEFINE old(k) == IF k < i THEN k ELSE k - 1
    <3>2. ASSUME NEW k \in {a, b}, k # i
          PROVE  old(k) \in 1..Len(hids) /\ hids'[k] = hids[old(k)]
      BY <2>2, <3>1, <3>2
    <3>3. CASE a # i /\ b # i
      <4>1. old(a) = old(b)
        <5> HIDE DEF old
        <5> QED
          BY <1>2, <2>3, <3>2, <3>3
      <4> QED
        BY <1>2, <3>3, <4>1
    <3>4. ASSUME NEW k \in {a, b}, k # i PROVE hids'[k] # d
      <4> HIDE DEF old
      <4> QED
        BY <2>1, <3>2, <3>4
    <3>5. hids'[i] = d
      BY <1>2, <2>2
    <3> QED
      BY <2>3, <3>3, <3>4, <3>5
  <2> QED
    BY <2>1, <2>2, <2>3 DEF ListTyped, IsInjective
<1>4. ASSUME NEW i \in 1..Len(hids), HidUnplugged(i) PROVE ListTyped'
  <2>1. hids' = RemoveAt(hids, i) /\ UNCHANGED busy
    BY <1>4 DEF HidUnplugged
  <2>2. /\ hids' \in Seq(Hids) /\ Len(hids') = Len(hids) - 1
        /\ DOMAIN hids' = 1..Len(hids) - 1
        /\ \A k \in 1..Len(hids) - 1 : /\ k < i => hids'[k] = hids[k]
                                       /\ k >= i => hids'[k] = hids[k + 1]
    <3>1. /\ RemoveAt(hids, i) \in Seq(Hids)
          /\ Len(RemoveAt(hids, i)) = Len(hids) - 1
          /\ \A k \in 1..Len(hids) - 1 :
               /\ k < i => RemoveAt(hids, i)[k] = hids[k]
               /\ k >= i => RemoveAt(hids, i)[k] = hids[k + 1]
      BY <1>2, RemoveAtEntries
    <3> QED
      BY <2>1, <3>1, LenProperties
  <2>3. ASSUME NEW a \in 1..Len(hids) - 1, NEW b \in 1..Len(hids) - 1, hids'[a] = hids'[b]
        PROVE  a = b
    <3>1. /\ a \in 1..Len(hids) /\ a + 1 \in 1..Len(hids)
          /\ b \in 1..Len(hids) /\ b + 1 \in 1..Len(hids)
      BY <1>2
    <3> QED
      BY <1>2, <2>2, <2>3, <3>1
  <2> QED
    BY <2>1, <2>2, <2>3 DEF ListTyped, IsInjective
<1>5. ASSUME NEW d \in Hids, HidTaken(d) PROVE ListTyped'
  BY <1>5 DEF HidTaken, ListTyped
<1>6. CASE System
  BY <1>1, <1>3, <1>4, <1>5, <1>6 DEF System, PeerLeaves, PortsChange, system
<1>7. CASE BeginThread \/ OnBnClickedLink \/ Scan \/ OnUsernNewLink
  BY <1>1, <1>7 DEF BeginThread, OnBnClickedLink, Scan, EnumThrows, EnumPorts, InitSelDev,
                    GetDevicePath, GetDevicePathFails, CreateFileFails, CreateFile,
                    OnUsernNewLink, system
<1>8. ASSUME NEW p \in Peers, NEW reset \in BOOLEAN, listener_cb(p, reset)
      PROVE  ListTyped'
  BY <1>1, <1>8 DEF listener_cb, system
<1>9. CASE listener_cbBreaks \/ Closed
  BY <1>1, <1>9 DEF listener_cbBreaks, Closed, conn_eventcb, system
<1>10. CASE UNCHANGED vars
  BY <1>1, <1>10 DEF vars, system
<1> QED
  BY <1>6, <1>7, <1>8, <1>9, <1>10 DEF Next

LEMMA NextIndexTyped == ListTyped /\ IndexTyped /\ [Next]_vars => IndexTyped'
<1> SUFFICES ASSUME ListTyped, IndexTyped, [Next]_vars PROVE IndexTyped'
  OBVIOUS
<1>1. ASSUME UNCHANGED local PROVE IndexTyped'
  BY <1>1 DEF IndexTyped, local
<1>2. /\ Len(hids) <= Cardinality(Hids) /\ Cardinality(Hids) \in Nat
      /\ Len(hids) \in Nat /\ \A i \in 1..Len(hids) : hids[i] \in Hids
  BY ListFits, LenProperties DEF ListTyped
<1>3. CASE Scan
  <2>1. CASE EnumThrows
    BY <1>2, <2>1 DEF EnumThrows, IndexTyped
  <2>2. CASE EnumPorts
    BY <1>2, <2>2 DEF EnumPorts, IndexTyped
  <2>3. CASE GetDevicePath
    <3>1. CASE deviceNo < Len(hids)
      <4>1. deviceNo + 1 \in 1..Len(hids) /\ deviceNo < Cardinality(Hids)
        BY <1>2, <3>1 DEF IndexTyped
      <4> QED
        BY <1>2, <2>3, <3>1, <4>1 DEF GetDevicePath, IndexTyped
    <3>2. CASE ~(deviceNo < Len(hids))
      BY <1>2, <2>3, <3>2 DEF GetDevicePath, Return, IndexTyped
    <3> QED
      BY <3>1, <3>2
  <2>4. CASE CreateFileFails
    BY <1>2, <2>4 DEF CreateFileFails, IndexTyped
  <2>6. CASE GetDevicePathFails
    BY <1>2, <2>6 DEF GetDevicePathFails, Return, IndexTyped
  <2>5. CASE CreateFile
    BY <1>2, <2>5 DEF CreateFile, Return, IndexTyped
  <2> QED
    BY <1>3, <2>1, <2>2, <2>3, <2>4, <2>5, <2>6 DEF Scan, InitSelDev
<1>4. CASE OnBnClickedLink
  BY <1>4 DEF OnBnClickedLink, IndexTyped
<1>5. CASE BeginThread \/ OnUsernNewLink \/ listener_cbBreaks \/ Closed \/ System
  BY <1>1, <1>5 DEF BeginThread, OnUsernNewLink, listener_cbBreaks, Closed, conn_eventcb,
                    System, PeerLeaves, HidPlugged, HidUnplugged, HidTaken, PortsChange
<1>6. ASSUME NEW p \in Peers, NEW reset \in BOOLEAN, listener_cb(p, reset)
      PROVE  IndexTyped'
  BY <1>1, <1>6 DEF listener_cb
<1>7. CASE UNCHANGED vars
  BY <1>1, <1>7 DEF vars
<1> QED
  BY <1>3, <1>4, <1>5, <1>6, <1>7 DEF Next

LEMMA NextBoxTyped ==
  Announced /\ PeersTyped /\ IndexTyped /\ BoxTyped /\ [Next]_vars => BoxTyped'
<1> SUFFICES ASSUME Announced, PeersTyped, IndexTyped, BoxTyped, [Next]_vars PROVE BoxTyped'
  OBVIOUS
<1>1. ASSUME UNCHANGED <<items, ports>> PROVE BoxTyped'
  BY <1>1 DEF BoxTyped
<1>2. CASE EnumPorts
  <2>1. items' = SetToBag(ports) /\ UNCHANGED ports
    BY <1>2 DEF EnumPorts, system
  <2> QED
    BY <2>1 DEF BoxTyped, SetToBag, IsABag, BagToSet
<1>3. CASE CreateFile
  <2>1. items' = items (+) SetToBag({buf}) /\ UNCHANGED ports /\ buf \in Hids
    BY <1>3 DEF CreateFile, system, IndexTyped
  <2>2. IsABag(items') /\ BagToSet(items') = BagToSet(items) \union {buf}
    BY <2>1, AddedToBag DEF BoxTyped
  <2> QED
    BY <2>1, <2>2 DEF BoxTyped
<1>4. CASE OnUsernNewLink
  <2>1. items' = items (+) SetToBag({names[Head(queue)]}) /\ UNCHANGED ports /\ queue # <<>>
    BY <1>4 DEF OnUsernNewLink, system
  <2>2. Head(queue) \in ToSet(queue)
    BY <2>1, TailInOrder DEF Announced
  <2>3. Head(queue) \in 1..Len(names)
    BY <2>2 DEF Announced
  <2>4. names[Head(queue)] \in Peers \union {Garbage}
    BY <2>3, LenProperties DEF PeersTyped
  <2>5. /\ IsABag(items')
        /\ BagToSet(items') = BagToSet(items) \union {names[Head(queue)]}
    <3>1. IsABag(items)
      BY DEF BoxTyped
    <3> QED
      BY <2>1, <3>1, AddedToBag
  <2> QED
    BY <2>1, <2>4, <2>5 DEF BoxTyped
<1>5. CASE PortsChange
  BY <1>5 DEF PortsChange, BoxTyped, box
<1>6. CASE EnumThrows \/ GetDevicePath \/ GetDevicePathFails \/ CreateFileFails
  BY <1>1, <1>6 DEF EnumThrows, GetDevicePath, GetDevicePathFails, CreateFileFails, box,
                    system
<1>7. CASE BeginThread \/ OnBnClickedLink \/ listener_cbBreaks \/ Closed
  BY <1>1, <1>7 DEF BeginThread, OnBnClickedLink, listener_cbBreaks, Closed, conn_eventcb,
                    box, system
<1>8. ASSUME NEW p \in Peers, NEW reset \in BOOLEAN, listener_cb(p, reset)
      PROVE  BoxTyped'
  BY <1>1, <1>8 DEF listener_cb, box, system
<1>9. CASE System
  BY <1>1, <1>5, <1>9 DEF System, PeerLeaves, HidPlugged, HidUnplugged, HidTaken, box, system
<1>10. CASE UNCHANGED vars
  BY <1>1, <1>10 DEF vars, box, system
<1> QED
  BY <1>2, <1>3, <1>4, <1>6, <1>7, <1>8, <1>9, <1>10 DEF Next, Scan, InitSelDev

\* What the record of the scan is made of.
ScanTyped ==
    /\ scan \in [ports : SUBSET Ports, hid : SUBSET Hids, first : SUBSET Hids,
                 steady : SUBSET Hids, changed : BOOLEAN, shifted : BOOLEAN,
                 failed : BOOLEAN]
    /\ Scanning => scan.hid = {} /\ ~ scan.failed

\* Until the list changes, no device before deviceNo can be opened, and the path
\* held is that of the device there.
Sequential ==
    Scanning /\ ~ scan.changed =>
        /\ scan.first = First(Openable)
        /\ deviceNo <= Len(hids)
        /\ \A i \in 1..Len(hids) : i <= deviceNo => hids[i] \in busy
        /\ step = "create" => deviceNo < Len(hids) /\ buf = hids[deviceNo + 1]

\* Until an entry at or before the index is unplugged, each device that could be
\* opened all the time is still ahead, or is the one whose path is held.
StillAhead ==
    Scanning /\ ~ scan.shifted =>
        /\ scan.steady \subseteq Openable
        /\ \A i \in 1..Len(hids) : hids[i] \in scan.steady =>
              /\ i > deviceNo
              /\ step = "create" => i > deviceNo + 1 \/ hids[i] = buf

Searched ==
    /\ Sequential /\ StillAhead
    /\ ~ Scanning =>
        /\ ~ scan.changed => scan.hid = IF scan.failed THEN {} ELSE scan.first
        /\ scan.steady # {} /\ ~ scan.shifted /\ ~ scan.failed => scan.hid # {}

LEMMA NextScanTyped ==
  ListTyped /\ IndexTyped /\ BoxTyped /\ ScanTyped /\ [Next]_vars => ScanTyped'
<1> SUFFICES ASSUME ListTyped, IndexTyped, BoxTyped, ScanTyped, [Next]_vars
             PROVE  ScanTyped'
  OBVIOUS
<1>1. ASSUME UNCHANGED <<step, scan>> PROVE ScanTyped'
  BY <1>1 DEF ScanTyped, Scanning
<1>2. CASE EnumPorts
  <2>1. Openable \subseteq Hids /\ First(Openable) \subseteq Hids
    BY LenProperties DEF ListTyped, Openable, First, ToSet
  <2> QED
    BY <1>2, <2>1 DEF EnumPorts, ScanTyped, Scanning, BoxTyped
<1>3. CASE GetDevicePath \/ GetDevicePathFails \/ CreateFileFails
  BY <1>3 DEF GetDevicePath, GetDevicePathFails, CreateFileFails, Return, ScanTyped,
              Scanning
<1>4. CASE CreateFile
  <2>1. scan' = [scan EXCEPT !.hid = {buf}] /\ step' = "idle" /\ buf \in Hids
    BY <1>4 DEF CreateFile, Return, IndexTyped
  <2> QED
    BY <2>1 DEF ScanTyped, Scanning
<1>5. CASE EnumThrows \/ OnBnClickedLink
  BY <1>5 DEF EnumThrows, OnBnClickedLink, ScanTyped, Scanning
<1>6. ASSUME NEW shift \in BOOLEAN, Noted(shift), UNCHANGED step PROVE ScanTyped'
  BY <1>6 DEF Noted, ScanTyped, Scanning
<1>7. CASE System
  <2>1. ASSUME NEW d \in Hids, NEW i \in 1..Len(hids) + 1, HidPlugged(d, i)
        PROVE  ScanTyped'
    BY <1>6, <2>1 DEF HidPlugged, local
  <2>2. ASSUME NEW i \in 1..Len(hids), HidUnplugged(i) PROVE ScanTyped'
    <3>1. (i <= deviceNo + (IF step = "create" THEN 1 ELSE 0)) \in BOOLEAN
      OBVIOUS
    <3> QED
      BY <1>6, <2>2, <3>1 DEF HidUnplugged, local
  <2>3. ASSUME NEW d \in Hids, HidTaken(d) PROVE ScanTyped'
    BY <1>6, <2>3 DEF HidTaken, local
  <2> QED
    BY <1>1, <1>7, <2>1, <2>2, <2>3 DEF System, PeerLeaves, PortsChange, local
<1>8. CASE BeginThread \/ OnUsernNewLink \/ listener_cbBreaks \/ Closed
  BY <1>1, <1>8 DEF BeginThread, OnUsernNewLink, listener_cbBreaks, Closed, conn_eventcb,
                    local
<1>9. ASSUME NEW p \in Peers, NEW reset \in BOOLEAN, listener_cb(p, reset)
      PROVE  ScanTyped'
  BY <1>1, <1>9 DEF listener_cb, local
<1>10. CASE UNCHANGED vars
  BY <1>1, <1>10 DEF vars, local
<1> QED
  BY <1>2, <1>3, <1>4, <1>5, <1>7, <1>8, <1>9, <1>10 DEF Next, Scan, InitSelDev

\* A step of the scan keeps what it has found out.
LEMMA ScanSearched ==
  ListTyped /\ IndexTyped /\ ScanTyped /\ Searched /\ Scan => Searched'
<1> SUFFICES ASSUME ListTyped, IndexTyped, ScanTyped, Searched, Scan PROVE Searched'
  OBVIOUS
<1>1. /\ Len(hids) \in Nat /\ DOMAIN hids = 1..Len(hids) /\ deviceNo \in Nat
      /\ Openable = {d \in {hids[i] : i \in 1..Len(hids)} : d \notin busy}
  BY LenProperties DEF ListTyped, IndexTyped, Openable, ToSet
<1>2. CASE EnumThrows
  BY <1>2 DEF EnumThrows, Searched, Sequential, StillAhead, Scanning
<1>3. CASE EnumPorts
  <2>1. /\ step' = "path" /\ deviceNo' = 0 /\ UNCHANGED <<hids, busy>>
        /\ scan'.first = First(Openable) /\ scan'.steady = Openable
    BY <1>3 DEF EnumPorts, system
  <2>2. First(Openable)' = First(Openable) /\ Openable' = Openable
    BY <2>1 DEF First, Openable
  <2> QED
    BY <1>1, <2>1, <2>2 DEF Searched, Sequential, StillAhead, Scanning
<1>4. ASSUME UNCHANGED <<hids, busy, scan>>
      PROVE  First(Openable)' = First(Openable) /\ Openable' = Openable
  BY <1>4 DEF First, Openable
<1>5. CASE GetDevicePath
  <2>1. step = "path" /\ UNCHANGED <<hids, busy, scan>>
    BY <1>5 DEF GetDevicePath, system
  <2>2. CASE deviceNo < Len(hids)
    <3>1. buf' = hids[deviceNo + 1] /\ step' = "create" /\ UNCHANGED deviceNo
      BY <1>5, <2>2 DEF GetDevicePath
    <3>2. \A i \in 1..Len(hids) : i > deviceNo => i > deviceNo + 1 \/ i = deviceNo + 1
      BY <1>1
    <3> QED
      BY <1>1, <1>4, <2>1, <2>2, <3>1, <3>2 DEF Searched, Sequential, StillAhead, Scanning
  <2>3. CASE ~(deviceNo < Len(hids))
    <3>1. step' = "idle"
      BY <1>5, <2>3 DEF GetDevicePath, Return
    <3>2. \A i \in 1..Len(hids) : i <= deviceNo /\ ~(i > deviceNo)
      BY <1>1, <2>3
    <3>3. ~ scan.changed => scan.hid = scan.first
      <4> SUFFICES ASSUME ~ scan.changed PROVE scan.hid = scan.first
        OBVIOUS
      <4>1. scan.hid = {} /\ scan.first = First(Openable)
        BY <2>1 DEF Searched, Sequential, ScanTyped, Scanning
      <4>2. \A i \in 1..Len(hids) : hids[i] \in busy
        BY <2>1, <3>2 DEF Searched, Sequential, Scanning
      <4> QED
        BY <1>1, <4>1, <4>2 DEF First
    <3>4. ~ scan.shifted => scan.steady = {}
      <4> SUFFICES ASSUME ~ scan.shifted PROVE scan.steady = {}
        OBVIOUS
      <4>1. /\ scan.steady \subseteq Openable
            /\ \A i \in 1..Len(hids) : hids[i] \notin scan.steady
        BY <2>1, <3>2 DEF Searched, StillAhead, Scanning
      <4> QED
        BY <1>1, <4>1
    <3> QED
      BY <2>1, <3>1, <3>3, <3>4 DEF Searched, Sequential, StillAhead, Scanning, ScanTyped
  <2> QED
    BY <2>2, <2>3
<1>8. CASE GetDevicePathFails
  <2>1. /\ step = "path" /\ step' = "idle" /\ scan' = [scan EXCEPT !.failed = TRUE]
        /\ scan.hid = {}
    BY <1>8 DEF GetDevicePathFails, Return, ScanTyped, Scanning
  <2>2. scan'.failed /\ scan'.hid = {}
    BY <2>1 DEF ScanTyped
  <2> QED
    BY <2>1, <2>2 DEF Searched, Sequential, StillAhead, Scanning
<1>6. CASE CreateFileFails
  <2>1. /\ step = "create" /\ step' = "path" /\ deviceNo' = deviceNo + 1
        /\ buf \notin Openable /\ UNCHANGED <<hids, busy, scan>>
    BY <1>6 DEF CreateFileFails, system
  <2>2. Sequential'
    <3> SUFFICES ASSUME ~ scan.changed
                 PROVE  /\ scan.first = First(Openable)
                        /\ deviceNo + 1 <= Len(hids)
                        /\ \A i \in 1..Len(hids) : i <= deviceNo + 1 => hids[i] \in busy
      BY <1>4, <2>1 DEF Sequential
    <3>1. /\ scan.first = First(Openable) /\ deviceNo < Len(hids)
          /\ \A i \in 1..Len(hids) : i <= deviceNo => hids[i] \in busy
          /\ buf = hids[deviceNo + 1]
      BY <2>1 DEF Searched, Sequential, Scanning
    <3>2. deviceNo + 1 \in 1..Len(hids)
      BY <1>1, <3>1
    <3>3. hids[deviceNo + 1] \in busy
      BY <1>1, <2>1, <3>1, <3>2
    <3>4. \A i \in 1..Len(hids) : i <= deviceNo + 1 => i <= deviceNo \/ i = deviceNo + 1
      BY <1>1
    <3> QED
      BY <3>1, <3>2, <3>3, <3>4
  <2>3. StillAhead'
    <3> SUFFICES ASSUME ~ scan.shifted
                 PROVE  /\ scan.steady \subseteq Openable
                        /\ \A i \in 1..Len(hids) : hids[i] \in scan.steady => i > deviceNo + 1
      BY <1>4, <2>1 DEF StillAhead
    <3> QED
      BY <2>1 DEF Searched, StillAhead, Scanning
  <2> QED
    BY <2>1, <2>2, <2>3 DEF Searched, Scanning
<1>7. CASE CreateFile
  <2>1. /\ step = "create" /\ step' = "idle" /\ buf \in Openable
        /\ scan' = [scan EXCEPT !.hid = {buf}]
    BY <1>7 DEF CreateFile, Return
  <2>2. /\ scan'.hid = {buf} /\ scan'.first = scan.first /\ scan'.changed = scan.changed
        /\ ~ scan'.failed
    BY <2>1 DEF ScanTyped, Scanning
  <2>3. ~ scan.changed => scan.first = {buf}
    <3> SUFFICES ASSUME ~ scan.changed PROVE scan.first = {buf}
      OBVIOUS
    <3>1. /\ scan.first = First(Openable) /\ deviceNo < Len(hids)
          /\ \A i \in 1..Len(hids) : i <= deviceNo => hids[i] \in busy
          /\ buf = hids[deviceNo + 1]
      BY <2>1 DEF Searched, Sequential, Scanning
    <3>2. deviceNo + 1 \in 1..Len(hids)
      BY <1>1, <3>1
    <3>3. \A i \in 1..Len(hids) : hids[i] \in Openable => i > deviceNo
      BY <1>1, <3>1
    <3>4. \A i \in 1..Len(hids) :
             (hids[i] \in Openable /\ \A j \in 1..i - 1 : hids[j] \notin Openable)
                <=> i = deviceNo + 1
      <4>1. ASSUME NEW i \in 1..Len(hids), hids[i] \in Openable,
                   \A j \in 1..i - 1 : hids[j] \notin Openable
            PROVE  i = deviceNo + 1
        <5>1. i > deviceNo
          BY <3>3, <4>1
        <5>2. i # deviceNo + 1 => deviceNo + 1 \in 1..i - 1
          BY <1>1, <5>1
        <5> QED
          BY <2>1, <3>1, <4>1, <5>2
      <4>2. ASSUME NEW i \in 1..Len(hids), i = deviceNo + 1
            PROVE  hids[i] \in Openable /\ \A j \in 1..i - 1 : hids[j] \notin Openable
        <5>1. hids[i] = buf
          BY <3>1, <4>2
        <5>2. ASSUME NEW j \in 1..i - 1 PROVE hids[j] \notin Openable
          <6>1. j \in 1..Len(hids) /\ ~(j > deviceNo)
            BY <1>1, <4>2
          <6> QED
            BY <3>3, <6>1
        <5> QED
          BY <2>1, <5>1, <5>2
      <4> QED
        BY <4>1, <4>2
    <3>5. First(Openable) = {buf}
      BY <3>1, <3>2, <3>4 DEF First
    <3> QED
      BY <3>1, <3>5
  <2> QED
    BY <2>1, <2>2, <2>3 DEF Searched, Sequential, StillAhead, Scanning
<1> QED
  BY <1>2, <1>3, <1>5, <1>6, <1>7, <1>8 DEF Scan, InitSelDev

\* Whatever is plugged, unplugged or taken during a scan, what it has found out stays
\* true of the devices it may still list.
LEMMA ChangeSearched ==
  ASSUME ListTyped, IndexTyped, ScanTyped, Searched, NEW shift \in BOOLEAN, Noted(shift),
         UNCHANGED local, hids' \in Seq(Hids),
         Scanning /\ ~ scan.shifted /\ ~ shift =>
           \A i \in 1..Len(hids') : hids'[i] \in Openable =>
              \E j \in 1..Len(hids) :
                 /\ hids[j] = hids'[i]
                 /\ j > deviceNo => i > deviceNo
                 /\ step = "create" /\ j > deviceNo + 1 => i > deviceNo + 1
  PROVE  Searched'
<1>1. CASE ~ Scanning
  BY <1>1 DEF Noted, Scanning, local, Searched, Sequential, StillAhead
<1>2. CASE Scanning
  <2>1. /\ scan' = [scan EXCEPT !.steady = @ \cap {d \in ToSet(hids') : d \notin busy'},
                                !.changed = TRUE, !.shifted = @ \/ shift]
        /\ UNCHANGED <<step, deviceNo, buf>> /\ Scanning'
    BY <1>2 DEF Noted, Scanning, local
  <2>2. /\ scan'.changed /\ (scan'.shifted <=> scan.shifted \/ shift)
        /\ scan'.steady = scan.steady \cap Openable'
    BY <2>1 DEF ScanTyped, Openable
  <2>3. ASSUME ~ scan'.shifted, NEW i \in 1..Len(hids'), hids'[i] \in scan'.steady
        PROVE  /\ i > deviceNo
               /\ step = "create" => i > deviceNo + 1 \/ hids'[i] = buf
    <3>1. /\ scan.steady \subseteq Openable /\ ~ scan.shifted /\ ~ shift
          /\ \A j \in 1..Len(hids) : hids[j] \in scan.steady =>
                /\ j > deviceNo
                /\ step = "create" => j > deviceNo + 1 \/ hids[j] = buf
      BY <1>2, <2>2, <2>3 DEF Searched, StillAhead
    <3>2. hids'[i] \in scan.steady /\ hids'[i] \in Openable
      BY <2>2, <2>3, <3>1
    <3>3. PICK j \in 1..Len(hids) :
                 /\ hids[j] = hids'[i]
                 /\ j > deviceNo => i > deviceNo
                 /\ step = "create" /\ j > deviceNo + 1 => i > deviceNo + 1
      BY <1>2, <3>1, <3>2
    <3> QED
      BY <3>1, <3>2, <3>3
  <2> QED
    BY <2>1, <2>2, <2>3 DEF Searched, Sequential, StillAhead
<1> QED
  BY <1>1, <1>2

LEMMA NextSearched ==
  ListTyped /\ IndexTyped /\ ScanTyped /\ Searched /\ [Next]_vars => Searched'
<1> SUFFICES ASSUME ListTyped, IndexTyped, ScanTyped, Searched, [Next]_vars
             PROVE  Searched'
  OBVIOUS
<1>1. ASSUME UNCHANGED <<local, hids, busy, scan>> PROVE Searched'
  BY <1>1 DEF Searched, Sequential, StillAhead, Scanning, local, First, Openable
<1>2. /\ hids \in Seq(Hids) /\ Len(hids) \in Nat /\ deviceNo \in Nat
      /\ DOMAIN hids = 1..Len(hids) /\ hids' \in Seq(Hids)
      /\ Openable \subseteq {hids[i] : i \in 1..Len(hids)}
  BY NextListTyped, LenProperties DEF ListTyped, IndexTyped, Openable, ToSet
<1>3. ASSUME NEW d \in Hids, NEW i \in 1..Len(hids) + 1, HidPlugged(d, i)
      PROVE  Searched'
  <2>1. /\ hids' = InsertAt(hids, i, d) /\ d \notin Openable
        /\ UNCHANGED local /\ Noted(FALSE)
    BY <1>3 DEF HidPlugged, Openable
  <2>2. /\ Len(hids') = Len(hids) + 1
        /\ \A k \in 1..Len(hids) + 1 : /\ k < i => hids'[k] = hids[k]
                                       /\ k = i => hids'[k] = d
                                       /\ k > i => hids'[k] = hids[k - 1]
    <3>1. hids \in Seq(Hids)
      BY <1>2
    <3>2. /\ Len(InsertAt(hids, i, d)) = Len(hids) + 1
          /\ \A k \in 1..Len(hids) + 1 :
               /\ k < i => InsertAt(hids, i, d)[k] = hids[k]
               /\ k = i => InsertAt(hids, i, d)[k] = d
               /\ k > i => InsertAt(hids, i, d)[k] = hids[k - 1]
      BY <3>1, InsertAtEntries
    <3> QED
      BY <2>1, <3>2
  <2>3. ASSUME NEW k \in 1..Len(hids'), hids'[k] \in Openable
        PROVE  \E j \in 1..Len(hids) :
                 /\ hids[j] = hids'[k]
                 /\ j > deviceNo => k > deviceNo
                 /\ step = "create" /\ j > deviceNo + 1 => k > deviceNo + 1
    <3>1. CASE k < i
      <4>1. k \in 1..Len(hids) /\ hids[k] = hids'[k]
        BY <1>2, <2>2, <3>1
      <4> QED
        BY <4>1
    <3>2. CASE k > i
      <4>1. /\ k - 1 \in 1..Len(hids) /\ hids[k - 1] = hids'[k]
            /\ k - 1 > deviceNo => k > deviceNo
            /\ k - 1 > deviceNo + 1 => k > deviceNo + 1
        BY <1>2, <2>2, <3>2
      <4> QED
        BY <4>1
    <3>3. k # i
      BY <2>1, <2>2, <2>3
    <3> QED
      BY <1>2, <2>2, <3>1, <3>2, <3>3
  <2> QED
    BY <1>2, <2>1, <2>3, ChangeSearched
<1>4. ASSUME NEW i \in 1..Len(hids), HidUnplugged(i) PROVE Searched'
  <2> DEFINE shift == i <= deviceNo + (IF step = "create" THEN 1 ELSE 0)
  <2>1. hids' = RemoveAt(hids, i) /\ UNCHANGED local /\ Noted(shift) /\ shift \in BOOLEAN
    BY <1>4 DEF HidUnplugged
  <2>2. /\ Len(hids') = Len(hids) - 1
        /\ \A k \in 1..Len(hids) - 1 : /\ k < i => hids'[k] = hids[k]
                                       /\ k >= i => hids'[k] = hids[k + 1]
    <3>1. /\ Len(RemoveAt(hids, i)) = Len(hids) - 1
          /\ \A k \in 1..Len(hids) - 1 :
               /\ k < i => RemoveAt(hids, i)[k] = hids[k]
               /\ k >= i => RemoveAt(hids, i)[k] = hids[k + 1]
      BY <1>2, RemoveAtEntries
    <3> QED
      BY <2>1, <3>1
  <2>3. ASSUME ~ shift, NEW k \in 1..Len(hids')
        PROVE  \E j \in 1..Len(hids) :
                 /\ hids[j] = hids'[k]
                 /\ j > deviceNo => k > deviceNo
                 /\ step = "create" /\ j > deviceNo + 1 => k > deviceNo + 1
    <3>1. CASE k < i
      <4>1. k \in 1..Len(hids) /\ hids[k] = hids'[k]
        BY <1>2, <2>2, <3>1
      <4> QED
        BY <4>1
    <3>2. CASE k >= i
      <4>1. /\ k + 1 \in 1..Len(hids) /\ hids[k + 1] = hids'[k] /\ k > deviceNo
        BY <1>2, <2>2, <2>3, <3>2
      <4>2. step = "create" => k > deviceNo + 1
        BY <1>2, <2>2, <2>3, <3>2
      <4> QED
        BY <4>1, <4>2
    <3> QED
      BY <1>2, <2>2, <3>1, <3>2
  <2> HIDE DEF shift
  <2> QED
    BY <1>2, <2>1, <2>3, ChangeSearched
<1>5. ASSUME NEW d \in Hids, HidTaken(d) PROVE Searched'
  <2>1. UNCHANGED <<local, hids>> /\ Noted(FALSE)
    BY <1>5 DEF HidTaken
  <2>2. \A k \in 1..Len(hids') : \E j \in 1..Len(hids) :
                 /\ hids[j] = hids'[k]
                 /\ j > deviceNo => k > deviceNo
                 /\ step = "create" /\ j > deviceNo + 1 => k > deviceNo + 1
    BY <2>1
  <2> QED
    BY <1>2, <2>1, <2>2, ChangeSearched
<1>6. CASE System
  BY <1>1, <1>3, <1>4, <1>5, <1>6 DEF System, PeerLeaves, PortsChange, system
<1>7. CASE OnBnClickedLink
  BY <1>7 DEF OnBnClickedLink, Searched, Sequential, StillAhead, Scanning
<1>8. CASE BeginThread \/ OnUsernNewLink \/ listener_cbBreaks \/ Closed
  BY <1>1, <1>8 DEF BeginThread, OnUsernNewLink, listener_cbBreaks, Closed, conn_eventcb,
                    system
<1>9. ASSUME NEW p \in Peers, NEW reset \in BOOLEAN, listener_cb(p, reset)
      PROVE  Searched'
  BY <1>1, <1>9 DEF listener_cb, system
<1>10. CASE UNCHANGED vars
  BY <1>1, <1>10 DEF vars, system
<1> QED
  BY <1>6, <1>7, <1>8, <1>9, <1>10, ScanSearched DEF Next

LEMMA InitTyped == Init => Announced /\ Typed /\ ScanTyped /\ Searched
<1> SUFFICES ASSUME Init PROVE Announced /\ Typed /\ ScanTyped /\ Searched
  OBVIOUS
<1>1. Announced
  BY InitAnnounced
<1>2. ListTyped
  <2>1. PICK s \in SUBSET Hids : hids \in SetToSeqs(s)
    BY DEF Init, SetToAllKPermutations
  <2>2. IsFiniteSet(s) /\ Cardinality(s) \in Nat
    BY HidsAssumption, FS_Subset, FS_CardinalityType
  <2>3. /\ hids \in [1..Cardinality(s) -> s]
        /\ \A i, j \in 1..Cardinality(s) : i # j => hids[i] # hids[j]
    BY <2>1 DEF SetToSeqs
  <2>4. hids \in [1..Cardinality(s) -> Hids]
    BY <2>3
  <2>5. hids \in Seq(Hids)
    BY <2>2, <2>4, SeqDef
  <2> QED
    BY <2>3, <2>5 DEF Init, ListTyped, IsInjective
<1>3. PeersTyped
  BY EmptySeq DEF Init, PeersTyped
<1>4. BoxTyped
  BY DEF Init, BoxTyped, IsABag, BagToSet, EmptyBag, SetToBag
<1>5. IndexTyped
  BY HidsAssumption, FS_CardinalityType DEF Init, IndexTyped
<1>6. ScanTyped /\ Searched
  BY DEF Init, ScanTyped, Searched, Sequential, StillAhead, Scanning
<1> QED
  BY <1>1, <1>2, <1>3, <1>4, <1>5, <1>6 DEF Typed

\* Every variable has its type, and InitSelDev's index never passes the number of
\* devices there are, however the list changes under it (wgwDlg.cpp:392).
THEOREM TypeOKHolds == Spec => []TypeOK
<1>1. Announced /\ Typed /\ [Next]_vars => Announced' /\ Typed'
  BY NextAnnounced, NextPeersTyped, NextBoxTyped, NextListTyped, NextIndexTyped DEF Typed
<1> QED
  BY <1>1, InitTyped, TypedTypeOK, PTL DEF Spec

\* The scan's invariant holds in every state.
LEMMA ScanInvariant == Spec => [](Typed /\ ScanTyped /\ Searched)
<1>1. /\ Announced /\ Typed /\ ScanTyped /\ Searched /\ [Next]_vars
      => Announced' /\ Typed' /\ ScanTyped' /\ Searched'
  BY NextAnnounced, NextPeersTyped, NextBoxTyped, NextListTyped, NextIndexTyped,
     NextScanTyped, NextSearched DEF Typed
<1> QED
  BY <1>1, InitTyped, PTL DEF Spec

\* While the devices stay as they are, a scan lists the first that can be opened,
\* none where none can, and none where CH9326GetDevicePath failed on the way, for any
\* number of devices (InitSelDev, wgwDlg.cpp:392, 429).
THEOREM FirstListedHolds == Spec => []FirstListed
<1>1. Searched => FirstListed
  BY DEF Searched, Scanning, FirstListed
<1> QED
  BY <1>1, ScanInvariant, PTL

\* However the devices change during a scan, one that could be opened all the time
\* makes it list a device, unless an entry already asked for was unplugged
\* (wgwDlg.cpp:396) or CH9326GetDevicePath failed (wgwDlg.cpp:429).
THEOREM NotMissedHolds == Spec => []NotMissed
<1>1. Searched => NotMissed
  BY DEF Searched, Scanning, NotMissed
<1> QED
  BY <1>1, ScanInvariant, PTL
-----------------------------------------------------------------------------
(***************************************************************************)
(* What the box holds.                                                     *)
(***************************************************************************)
Named(x) == {n \in shown : names[n] = x}

\* BoxAccounted, name by name.
Held ==
    items = [x \in scan.ports \union scan.hid \union {names[n] : n \in shown} |->
                (IF x \in scan.ports \union scan.hid THEN 1 ELSE 0)
                + (IF x \in {names[n] : n \in shown} THEN Cardinality(Named(x)) ELSE 0)]

LEMMA HeldAccounts == BoxAccounted <=> Held
BY DEF BoxAccounted, Held, Named, SetToBag, (+)

LEMMA NextHeld ==
  /\ Announced /\ PeersTyped /\ IndexTyped /\ ScanTyped
  /\ BoxAccounted /\ [Next]_vars
  => BoxAccounted'
<1> SUFFICES ASSUME Announced, PeersTyped, IndexTyped, ScanTyped, BoxAccounted,
                    [Next]_vars
             PROVE  BoxAccounted'
  OBVIOUS
<1>1. ASSUME UNCHANGED <<items, names, shown>>,
             scan'.ports = scan.ports, scan'.hid = scan.hid
      PROVE  BoxAccounted'
  BY <1>1 DEF BoxAccounted
<1> DEFINE posted == {names[n] : n \in shown}
<1>0. Held' => BoxAccounted'
  BY DEF BoxAccounted, Held, Named, SetToBag, (+)
<1>2. /\ IsFiniteSet(shown) /\ shown \subseteq 1..Len(names)
      /\ \A n \in ToSet(queue) : n \in 1..Len(names) /\ n \notin shown
      /\ Len(names) \in Nat
  <2>1. shown \subseteq 1..Len(names) /\ Len(names) \in Nat
    BY LenProperties DEF Announced
  <2>2. IsFiniteSet(1..Len(names))
    BY <2>1, FS_Interval
  <2> QED
    BY <2>1, <2>2, FS_Subset DEF Announced
<1>3. \A x : IsFiniteSet(Named(x)) /\ Cardinality(Named(x)) \in Nat
  BY <1>2, FS_Subset, FS_CardinalityType DEF Named
<1>4. CASE EnumPorts
  <2>1. /\ items' = [x \in ports |-> 1] /\ shown' = {}
        /\ scan'.ports = ports /\ scan'.hid = {}
    BY <1>4 DEF EnumPorts, SetToBag
  <2>2. \A x : x \notin {names'[n] : n \in shown'}
    BY <2>1
  <2>3. Held'
    BY <2>1, <2>2 DEF Held
  <2> QED
    BY <1>0, <2>3
<1>5. CASE CreateFile
  <2>1. /\ items' = items (+) SetToBag({buf}) /\ UNCHANGED <<names, shown>>
        /\ scan' = [scan EXCEPT !.hid = {buf}] /\ step = "create"
    BY <1>5 DEF CreateFile, tcp
  <2>2. /\ scan.hid = {} /\ scan'.ports = scan.ports /\ scan'.hid = {buf}
        /\ buf \notin scan.ports
    BY <2>1, NamesAssumption DEF ScanTyped, Scanning, IndexTyped
  <2>3. items = [x \in scan.ports \union posted |->
                    (IF x \in scan.ports THEN 1 ELSE 0)
                    + (IF x \in posted THEN Cardinality(Named(x)) ELSE 0)]
    BY <2>2, HeldAccounts DEF Held
  <2>4. \A x : Named(x)' = Named(x)
    BY <2>1 DEF Named
  <2>5. posted' = posted
    BY <2>1
  <2> HIDE DEF posted
  <2>6. items' = [x \in scan.ports \union posted \union {buf} |->
                    (IF x \in scan.ports \union posted THEN items[x] ELSE 0)
                    + (IF x \in {buf} THEN 1 ELSE 0)]
    BY <2>1, <2>3 DEF SetToBag, (+)
  <2>7. ASSUME NEW x \in scan.ports \union {buf} \union posted
        PROVE  items'[x] = (IF x \in scan.ports \union {buf} THEN 1 ELSE 0)
                           + (IF x \in posted THEN Cardinality(Named(x)) ELSE 0)
    BY <1>3, <2>2, <2>3, <2>6
  <2>8. items' = [x \in scan.ports \union {buf} \union posted |->
                    (IF x \in scan.ports \union {buf} THEN 1 ELSE 0)
                    + (IF x \in posted THEN Cardinality(Named(x)) ELSE 0)]
    BY <2>6, <2>7
  <2>9. Held'
    BY <2>2, <2>4, <2>5, <2>8 DEF Held, posted
  <2> QED
    BY <1>0, <2>9
<1>6. CASE OnUsernNewLink
  <2> DEFINE found == scan.ports \union scan.hid
  <2> PICK link : link = Head(queue)
    OBVIOUS
  <2> PICK name : name = names[link]
    OBVIOUS
  <2>1. /\ items' = items (+) SetToBag({name}) /\ queue # <<>>
        /\ UNCHANGED <<names, scan>> /\ shown' = shown \union {link}
    BY <1>6 DEF OnUsernNewLink, tcp
  <2>2. link \in ToSet(queue)
    BY <2>1, TailInOrder DEF Announced
  <2>3. link \notin shown
    BY <1>2, <2>2
  <2>4. /\ posted' = posted \union {name}
        /\ \A x : x # name => Named(x)' = Named(x)
        /\ Named(name)' = Named(name) \union {link}
        /\ link \notin Named(name)
        /\ name \notin posted => Named(name) = {}
    <3>1. posted' = posted \union {name}
      BY <2>1
    <3>2. ASSUME NEW x, x # name PROVE Named(x)' = Named(x)
      <4>1. \A n : n \in Named(x)' <=> n \in Named(x)
        BY <2>1, <3>2 DEF Named
      <4> QED
        BY <4>1
    <3>3. Named(name)' = Named(name) \union {link}
      BY <2>1 DEF Named
    <3> QED
      BY <2>3, <3>1, <3>2, <3>3 DEF Named
  <2>5. Cardinality(Named(name)') = Cardinality(Named(name)) + 1
    BY <1>3, <2>4, FS_AddElement, SMTT(30)
  <2>6. items = [x \in found \union posted |->
                    (IF x \in found THEN 1 ELSE 0)
                    + (IF x \in posted THEN Cardinality(Named(x)) ELSE 0)]
    BY HeldAccounts DEF Held
  <2>7. found' = found
    BY <2>1
  <2> HIDE DEF posted, found
  <2>8. items' = [x \in found \union posted \union {name} |->
                    (IF x \in found \union posted THEN items[x] ELSE 0)
                    + (IF x \in {name} THEN 1 ELSE 0)]
    BY <2>1, <2>6 DEF SetToBag, (+)
  <2>9. Cardinality({}) = 0
    BY FS_EmptySet
  <2>10. ASSUME NEW x \in found \union posted \union {name}
         PROVE  items'[x] = (IF x \in found THEN 1 ELSE 0)
                            + (IF x \in posted' THEN Cardinality(Named(x)') ELSE 0)
    <3>1. CASE x = name
      BY <1>3, <2>4, <2>5, <2>6, <2>8, <2>9, <3>1, SMTT(30)
    <3>2. CASE x # name
      BY <1>3, <2>4, <2>6, <2>8, <3>2
    <3> QED
      BY <3>1, <3>2
  <2>11. items' = [x \in found \union posted' |->
                     (IF x \in found THEN 1 ELSE 0)
                     + (IF x \in posted' THEN Cardinality(Named(x)') ELSE 0)]
    BY <2>4, <2>8, <2>10
  <2>12. Held'
    BY <2>7, <2>11 DEF Held, posted, found
  <2> QED
    BY <1>0, <2>12
<1>7. ASSUME NEW p \in Peers, NEW reset \in BOOLEAN, listener_cb(p, reset)
      PROVE  BoxAccounted'
  <2>1. PICK name \in getPeerName(p, reset) : names' = Append(names, name)
    BY <1>7 DEF listener_cb
  <2>2. name \in Peers \union {Garbage}
    BY DEF getPeerName
  <2>3. \A n \in 1..Len(names) : names'[n] = names[n]
    BY <2>1, <2>2, AppendProperties DEF PeersTyped
  <2>4. UNCHANGED <<items, shown, scan>>
    BY <1>7 DEF listener_cb, box
  <2>5. \A n \in shown : names'[n] = names[n]
    BY <1>2, <2>3
  <2> QED
    BY <2>4, <2>5 DEF BoxAccounted
<1>8. ASSUME NEW shift, Noted(shift), UNCHANGED <<tcp, box>> PROVE BoxAccounted'
  <2>1. scan'.ports = scan.ports /\ scan'.hid = scan.hid
    BY <1>8 DEF Noted, ScanTyped
  <2> QED
    BY <1>1, <1>8, <2>1 DEF tcp, box
<1>9. CASE System
  <2>1. ASSUME NEW n \in conns \ gone, PeerLeaves(n) PROVE BoxAccounted'
    BY <1>1, <2>1 DEF PeerLeaves, box
  <2>2. CASE PortsChange
    BY <1>1, <2>2 DEF PortsChange, box, tcp
  <2> QED
    BY <1>8, <1>9, <2>1, <2>2 DEF System, HidPlugged, HidUnplugged, HidTaken
<1>10. CASE EnumThrows \/ GetDevicePath \/ CreateFileFails
  BY <1>1, <1>10 DEF EnumThrows, GetDevicePath, CreateFileFails, box, tcp
<1>13. CASE GetDevicePathFails
  <2>1. scan' = [scan EXCEPT !.failed = TRUE] /\ UNCHANGED <<tcp, box>>
    BY <1>13 DEF GetDevicePathFails
  <2>2. scan'.ports = scan.ports /\ scan'.hid = scan.hid
    BY <2>1 DEF ScanTyped
  <2> QED
    BY <1>1, <2>1, <2>2 DEF tcp, box
<1>11. CASE BeginThread \/ OnBnClickedLink \/ listener_cbBreaks \/ Closed
  BY <1>1, <1>11 DEF BeginThread, OnBnClickedLink, listener_cbBreaks, Closed, conn_eventcb,
                     box, tcp
<1>12. CASE UNCHANGED vars
  BY <1>1, <1>12 DEF vars, box, tcp
<1> QED
  BY <1>4, <1>5, <1>6, <1>7, <1>9, <1>10, <1>11, <1>12, <1>13 DEF Next, Scan, InitSelDev

\* The box holds what the last scan found and every peer announced since, as often as
\* it connected, and no name of an earlier scan (OnBnClickedLink, wgwDlg.cpp:444;
\* OnUsernNewLink, wgwDlg.cpp:733).
THEOREM BoxAccountedHolds == Spec => []BoxAccounted
<1>1. Init => BoxAccounted
  BY HeldAccounts DEF Init, Held, EmptyBag, SetToBag
<1>2. /\ Announced /\ Typed /\ ScanTyped /\ BoxAccounted /\ [Next]_vars
      => Announced' /\ Typed' /\ ScanTyped' /\ BoxAccounted'
  BY NextAnnounced, NextPeersTyped, NextBoxTyped, NextListTyped, NextIndexTyped,
     NextScanTyped, NextHeld DEF Typed
<1> QED
  BY <1>1, <1>2, InitTyped, PTL DEF Spec
=============================================================================
