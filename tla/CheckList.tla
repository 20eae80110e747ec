------------------------------ MODULE CheckList ------------------------------
(***************************************************************************)
(* CDlgCheck (DlgCheck.cpp, struct checkItem in common.h): the attendance  *)
(* table.  Every check frame is attributed to a card by its ten id bytes   *)
(* and either adds a row or updates the card's row; the map from ids to    *)
(* items and the list control are kept side by side.                       *)
(***************************************************************************)
EXTENDS Integers, Sequences, FiniteSets, SequencesExt

CONSTANTS
    Frames,     \* check frames [id, electricity, code] of signed bytes
    MaxTime,    \* bound on the clock, in seconds
    MaxFrames,  \* bound on the frames received between two clears
    Failures    \* TRUE when InsertItem may fail

Char == -128..127

ASSUME FramesAssumption ==
    Frames \subseteq [id : Seq(Char), electricity : Char, code : Char]
ASSUME LimitsAssumption == MaxTime \in Nat /\ MaxFrames \in Nat

VARIABLES
    m_checkMap,     \* the item of each card seen since the last clear, by id
    m_listCheck,    \* the rows of the list control, row 0 first
    now,            \* CTime::GetCurrentTime, in seconds
    log             \* history: [id, ok, at] of the frames since the last clear

vars == <<m_checkMap, m_listCheck, now, log>>

\* '0' + b where that is a digit, 'F' otherwise (15 stands for 'F').
idChar(b) == IF b \in 0..9 THEN b ELSE 15
idOf(f) == [i \in 1..Len(f.id) |-> idChar(f.id[i])]

\* The check code is the plain sum of the id bytes, never cut to a byte.
checkcode(f) == FoldSeq(LAMBDA b, sum : b + sum, 0, f.id)
codeerr(f) == f.code # checkcode(f)

electricity(f) == IF f.electricity \in 0..5 THEN f.electricity ELSE 6

\* A new item: the times of checkItem's constructor, and this frame's counts.
newItem(f) ==
    [firstTime |-> 0, lastTime |-> 0,
     count |-> IF codeerr(f) THEN 0 ELSE 1,
     errCount |-> IF codeerr(f) THEN 1 ELSE 0,
     electricity |-> electricity(f),
     nindex |-> Len(m_listCheck)]

\* The columns insertCheck and updateCheck fill from an item.
row(id, c) ==
    [number |-> c.nindex, id |-> id, firstTime |-> c.firstTime,
     lastTime |-> c.lastTime, electricity |-> c.electricity,
     count |-> c.count, errCount |-> c.errCount]

updateCheck(id, c) == [m_listCheck EXCEPT ![c.nindex + 1] = row(id, c)]

Put(id, c) == [i \in DOMAIN m_checkMap \union {id} |->
                  IF i = id THEN c ELSE m_checkMap[i]]

Init ==
    /\ m_checkMap = <<>>
    /\ m_listCheck = <<>>
    /\ now = 1
    /\ log = <<>>

receive(f) ==
    /\ Len(log) < MaxFrames
    /\ log' = Append(log, [id |-> idOf(f), ok |-> ~ codeerr(f), at |-> now])
    /\ UNCHANGED now

\* processMsgCheck for a card with no item: insertCheck adds a row below.
InsertCheck(f) ==
    /\ idOf(f) \notin DOMAIN m_checkMap
    /\ receive(f)
    /\ m_checkMap' = Put(idOf(f), newItem(f))
    /\ m_listCheck' = Append(m_listCheck, row(idOf(f), newItem(f)))

\* InsertItem returned -1: insertCheck returns before it touches the map.
InsertFails(f) ==
    /\ Failures
    /\ idOf(f) \notin DOMAIN m_checkMap
    /\ receive(f)
    /\ UNCHANGED <<m_checkMap, m_listCheck>>

\* Mutant: a frame with a bad code is counted as a good one too.
touchedCountsBoth(c, f) ==
    [c EXCEPT !.firstTime = IF @ = 0 THEN now ELSE @,
              !.lastTime = IF c.firstTime = 0 THEN @ ELSE now,
              !.count = @ + 1,
              !.errCount = IF codeerr(f) THEN @ + 1 ELSE @]

\* Mutant: the last time is set once, like the first.
touchedOnce(c, f) ==
    [c EXCEPT !.firstTime = IF @ = 0 THEN now ELSE @,
              !.lastTime = IF c.firstTime = 0 \/ @ # 0 THEN @ ELSE now,
              !.count = IF codeerr(f) THEN @ ELSE @ + 1,
              !.errCount = IF codeerr(f) THEN @ + 1 ELSE @]

\* The item of a known card after a frame that is not ignored.
touched(c, f) ==
    [c EXCEPT !.firstTime = IF @ = 0 THEN now ELSE @,
              !.lastTime = IF c.firstTime = 0 THEN @ ELSE now,
              !.count = IF codeerr(f) THEN @ ELSE @ + 1,
              !.errCount = IF codeerr(f) THEN @ + 1 ELSE @]

\* Mutant: the test for the same second is missing.
UpdateCheckAlways(f) ==
    /\ idOf(f) \in DOMAIN m_checkMap
    /\ receive(f)
    /\ LET c == touched(m_checkMap[idOf(f)], f)
       IN /\ m_checkMap' = Put(idOf(f), c)
          /\ m_listCheck' = updateCheck(idOf(f), c)

\* processMsgCheck for a known card, in another second than its last time.
UpdateCheck(f) ==
    /\ idOf(f) \in DOMAIN m_checkMap
    /\ m_checkMap[idOf(f)].lastTime # now
    /\ receive(f)
    /\ LET c == touched(m_checkMap[idOf(f)], f)
       IN /\ m_checkMap' = Put(idOf(f), c)
          /\ m_listCheck' = updateCheck(idOf(f), c)

\* ... and in the same second: ignored.
IgnoreCheck(f) ==
    /\ idOf(f) \in DOMAIN m_checkMap
    /\ m_checkMap[idOf(f)].lastTime = now
    /\ receive(f)
    /\ UNCHANGED <<m_checkMap, m_listCheck>>

processMsgCheck(f) ==
    InsertCheck(f) \/ InsertFails(f) \/ UpdateCheck(f) \/ IgnoreCheck(f)

\* Mutant: only the list control is cleared.
OnWgwClearRows ==
    /\ m_listCheck' = <<>>
    /\ log' = <<>>
    /\ UNCHANGED <<m_checkMap, now>>

\* The clear command of the context menu.
OnWgwClear ==
    /\ m_listCheck' = <<>>
    /\ m_checkMap' = <<>>
    /\ log' = <<>>
    /\ UNCHANGED now

Tick ==
    /\ now < MaxTime
    /\ now' = now + 1
    /\ UNCHANGED <<m_checkMap, m_listCheck, log>>

Next == (\E f \in Frames : processMsgCheck(f)) \/ OnWgwClear \/ Tick

Spec == Init /\ [][Next]_vars
-----------------------------------------------------------------------------
Ids == {idOf(f) : f \in Frames}

Item == [firstTime : Nat, lastTime : Nat, count : Nat, errCount : Nat,
         electricity : 0..6, nindex : Nat]

Row == [number : Nat, id : Ids, firstTime : Nat, lastTime : Nat,
        electricity : 0..6, count : Nat, errCount : Nat]

\* Every variable has its type.
TypeOK ==
    /\ DOMAIN m_checkMap \subseteq Ids
    /\ \A i \in DOMAIN m_checkMap : m_checkMap[i] \in Item
    /\ m_listCheck \in Seq(Row)
    /\ now \in Nat \ {0}
    /\ log \in Seq([id : Ids, ok : BOOLEAN, at : Nat])

\* The table shows the map: every item in the row it remembers (nindex, a copy
\* taken at insertion), every row the item of its card, no card in two rows.
RowsMirrorMap ==
    /\ \A i \in DOMAIN m_checkMap :
          /\ m_checkMap[i].nindex < Len(m_listCheck)
          /\ m_listCheck[m_checkMap[i].nindex + 1] = row(i, m_checkMap[i])
    /\ \A n \in 1..Len(m_listCheck) :
          /\ m_listCheck[n].id \in DOMAIN m_checkMap
          /\ m_checkMap[m_listCheck[n].id].nindex = n - 1

Packets(c) == c.count + c.errCount

\* The two times lag behind the counts: none after one packet, the first one
\* after two, both from the third on; from there at most one packet a second
\* is counted, so the counts never exceed what the times allow.
TimesFollowCounts ==
    \A i \in DOMAIN m_checkMap : LET c == m_checkMap[i] IN
        /\ Packets(c) >= 1
        /\ c.firstTime = 0 <=> Packets(c) = 1
        /\ c.lastTime = 0 <=> Packets(c) <= 2
        /\ Packets(c) >= 3 => /\ c.firstTime <= c.lastTime
                              /\ Packets(c) - 3 <= c.lastTime - c.firstTime

FramesOf(i, ok) == {n \in 1..Len(log) : log[n].id = i /\ log[n].ok = ok}

\* No frame is counted twice, and errors and good frames are not mixed up.
NotOvercounted ==
    \A i \in DOMAIN m_checkMap :
        /\ m_checkMap[i].count <= Cardinality(FramesOf(i, TRUE))
        /\ m_checkMap[i].errCount <= Cardinality(FramesOf(i, FALSE))

\* Once a last time is shown it is the time of the card's latest frame, the
\* ignored ones included.
LastTimeIsLatest ==
    \A i \in DOMAIN m_checkMap, n \in 1..Len(log) :
        (m_checkMap[i].lastTime # 0 /\ log[n].id = i)
            => log[n].at <= m_checkMap[i].lastTime

\* Column 2 is headed "first time received" (DlgCheck.cpp:46): the time shown is
\* the one at which the card's first frame since the last clear came.
FirstTimeIsFirst ==
    \A r \in 1..Len(m_listCheck), n \in 1..Len(log) :
        (m_listCheck[r].firstTime # 0 /\ log[n].id = m_listCheck[r].id)
            => m_listCheck[r].firstTime <= log[n].at
=============================================================================
