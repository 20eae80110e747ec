--------------------------- MODULE EnumSerialProofs ---------------------------
(***************************************************************************)
(* Theorems about EnumSerial, for any registry and any list of devices.    *)
(***************************************************************************)
EXTENDS EnumSerial, SequenceTheorems, FiniteSetTheorems, TLAPS

\* The keys open while the loops run, from HKLM\Enum to the key that is read; and
\* after an error, what the handler has left of them.
Chain ==
    /\ at \in [1..3 -> Nat]
    /\ pc \in {"start", "devices", "check", "done"} => keys = {}
    /\ pc = "subs" => keys = {hkEnum}
    /\ pc = "subsubs" => keys = {hkEnum, <<at[1]>>}
    /\ pc = "pnps" => keys = {hkEnum, <<at[1]>>, <<at[1], at[2]>>}
    /\ pc = "thrown" => keys \in {{}, {<<at[1]>>}, {<<at[1]>>, <<at[1], at[2]>>}}

\* What SetupDi gave is held only while its loop runs, or where memory ran out.
Devices == hDevInfo \/ pDetData => pc \in {"devices", "memory"}

LEMMA KeysDiffer ==
  ASSUME NEW i, NEW j
  PROVE  hkEnum # <<i>> /\ hkEnum # <<i, j>> /\ <<i>> # <<i, j>>
<1>1. Len(<<>>) = 0 /\ Len(<<i>>) = 1 /\ Len(<<i, j>>) = 2
  OBVIOUS
<1> QED
  BY <1>1 DEF hkEnum

LEMMA NextChain == Chain /\ [Next]_vars => Chain'
<1> SUFFICES ASSUME Chain, [Next]_vars PROVE Chain'
  OBVIOUS
<1> USE DEF held
<1>1. CASE NoVersion \/ EnumPortsWNt4 \/ NoClassDevs \/ NoEnum \/ GetClassDevs
  BY <1>1 DEF NoVersion, EnumPortsWNt4, NoClassDevs, NoEnum, GetClassDevs, Found, Chain
<1>14. CASE NoMemory \/ NoDetData
  BY <1>14 DEF NoMemory, NoDetData, Chain
<1>2. CASE Device
  <2>1. at' \in [1..3 -> Nat] /\ UNCHANGED <<pc, keys>> /\ pc = "devices"
    BY <1>2 DEF Device, Chain
  <2> QED
    BY <2>1 DEF Chain
<1>3. CASE DevicesFail \/ DevicesEnd
  BY <1>3 DEF DevicesFail, DevicesEnd, Found, Chain
<1>4. CASE OpenEnum
  BY <1>4 DEF OpenEnum, Chain
<1>5. CASE OpenSub
  <2>1. at' \in [1..3 -> Nat] /\ at'[1] = at[1]
    BY <1>5 DEF OpenSub, Chain
  <2>2. keys' = {hkEnum, <<at'[1]>>} /\ pc' = "subsubs"
    BY <1>5, <2>1 DEF OpenSub, Chain
  <2> QED
    BY <2>1, <2>2 DEF Chain
<1>6. CASE OpenSubSub
  <2>1. at' \in [1..3 -> Nat] /\ at'[1] = at[1] /\ at'[2] = at[2]
    BY <1>6 DEF OpenSubSub, Chain
  <2>2. keys' = {hkEnum, <<at'[1]>>, <<at'[1], at'[2]>>} /\ pc' = "pnps"
    BY <1>6, <2>1 DEF OpenSubSub, Chain
  <2> QED
    BY <2>1, <2>2 DEF Chain
<1>7. CASE SkipSubSub
  <2>1. at' \in [1..3 -> Nat] /\ at'[1] = at[1]
    BY <1>7 DEF SkipSubSub, Chain
  <2>2. UNCHANGED <<pc, keys>> /\ pc = "subsubs"
    BY <1>7 DEF SkipSubSub
  <2> QED
    BY <2>1, <2>2 DEF Chain
<1>8. CASE ReadPnp
  <2>1. at' \in [1..3 -> Nat] /\ at'[1] = at[1] /\ at'[2] = at[2]
    BY <1>8 DEF ReadPnp, Chain
  <2>2. UNCHANGED <<pc, keys>> /\ pc = "pnps"
    BY <1>8 DEF ReadPnp
  <2> QED
    BY <2>1, <2>2 DEF Chain
<1>9. CASE PnpsEnd
  <2>1. at' \in [1..3 -> Nat] /\ at'[1] = at[1]
    BY <1>9 DEF PnpsEnd, Chain
  <2>2. keys' = {hkEnum, <<at[1]>>} /\ pc' = "subsubs"
    BY <1>9, KeysDiffer DEF PnpsEnd, Chain
  <2> QED
    BY <2>1, <2>2 DEF Chain
<1>10. CASE SubSubsEnd
  <2>1. at' \in [1..3 -> Nat]
    BY <1>10 DEF SubSubsEnd, Chain
  <2>2. keys' = {hkEnum} /\ pc' = "subs"
    BY <1>10, KeysDiffer DEF SubSubsEnd, Chain
  <2> QED
    BY <2>1, <2>2 DEF Chain
<1>11. CASE SubsEnd
  BY <1>11 DEF SubsEnd, Found, Chain
<1>12. CASE KeyFails
  <2>1. pc' = "thrown" /\ at' = at /\ keys' = keys \ {hkEnum}
    BY <1>12 DEF KeyFails
  <2>2. CASE pc = "subs"
    BY <2>1, <2>2 DEF Chain
  <2>3. CASE pc = "subsubs"
    <3>1. keys' = {<<at[1]>>}
      BY <2>1, <2>3, KeysDiffer DEF Chain
    <3> QED
      BY <2>1, <3>1 DEF Chain
  <2>4. CASE pc = "pnps"
    <3>1. keys' = {<<at[1]>>, <<at[1], at[2]>>}
      BY <2>1, <2>4, KeysDiffer DEF Chain
    <3> QED
      BY <2>1, <3>1 DEF Chain
  <2> QED
    BY <1>12, <2>2, <2>3, <2>4 DEF KeyFails
<1>13. CASE NamePort \/ Return \/ UNCHANGED vars
  BY <1>13 DEF NamePort, Return, vars, Chain
<1> QED
  BY <1>1, <1>2, <1>3, <1>4, <1>5, <1>6, <1>7, <1>8, <1>9, <1>10, <1>11, <1>12, <1>13, <1>14
     DEF Next, EnumPortsWdm, EnumPortsW9x

LEMMA NextDevices == Devices /\ [Next]_vars => Devices'
<1> SUFFICES ASSUME Devices, [Next]_vars PROVE Devices'
  OBVIOUS
<1> USE DEF held, Devices, Found
<1>1. CASE NoVersion \/ NoMemory \/ EnumPortsWNt4 \/ NamePort \/ Return \/ UNCHANGED vars
  BY <1>1 DEF NoVersion, NoMemory, EnumPortsWNt4, NamePort, Return, vars
<1>2. CASE EnumPortsWdm
  BY <1>2 DEF EnumPortsWdm, GetClassDevs, NoDetData, NoClassDevs, Device, DevicesFail, DevicesEnd
<1>3. CASE EnumPortsW9x
  BY <1>3 DEF EnumPortsW9x, OpenEnum, NoEnum, OpenSub, OpenSubSub, SkipSubSub, ReadPnp,
              PnpsEnd, SubSubsEnd, SubsEnd, KeyFails
<1> QED
  BY <1>1, <1>2, <1>3 DEF Next

\* On every way out of EnumSerialPorts nothing of SetupDi's is held and no registry
\* key is open, but for the one or two that an error of Windows 9x's walk leaves
\* (EnumSerial.cpp:283 and 301), whatever the registry holds.
THEOREM ReleasedOnEveryWayHolds == Spec => []ReleasedOnEveryWay
<1>1. Init => Chain /\ Devices
  BY DEF Init, Chain, Devices
<1>2. Chain /\ Devices => ReleasedOnEveryWay
  BY DEF Chain, Devices, ReleasedOnEveryWay
<1> QED
  BY <1>1, <1>2, NextChain, NextDevices, PTL DEF Spec
-----------------------------------------------------------------------------
(***************************************************************************)
(* Arrays, whatever their elements are.                                    *)
(***************************************************************************)
LEMMA ArrayLength ==
  ASSUME NEW L \in Nat, NEW s, s = [n \in 1..L |-> s[n]]
  PROVE  Len(s) = L /\ IsArray(s) /\ s \in Seq({s[n] : n \in 1..L})
<1> DEFINE S == {s[n] : n \in 1..L}
<1>1. s \in [1..L -> S]
  OBVIOUS
<1>2. s \in Seq(S)
  BY <1>1, SeqDef
<1>3. Len(s) \in Nat /\ DOMAIN s = 1..Len(s)
  BY <1>2, LenProperties
<1>4. Len(s) = L
  BY <1>1, <1>3
<1> QED
  BY <1>2, <1>3, <1>4 DEF IsArray

LEMMA ArrayAppend ==
  ASSUME NEW s, IsArray(s), NEW e
  PROVE  /\ IsArray(Append(s, e)) /\ Len(Append(s, e)) = Len(s) + 1
         /\ \A n \in 1..Len(s) : Append(s, e)[n] = s[n]
         /\ Append(s, e)[Len(s) + 1] = e
<1> DEFINE S == {s[n] : n \in 1..Len(s)} \union {e}
<1>1. s \in Seq(S) /\ e \in S
  <2>1. s \in Seq({s[n] : n \in 1..Len(s)})
    BY ArrayLength DEF IsArray
  <2> QED
    BY <2>1, SeqMonotonic
<1>2. /\ Append(s, e) \in Seq(S) /\ Len(Append(s, e)) = Len(s) + 1
      /\ \A n \in 1..Len(s) : Append(s, e)[n] = s[n]
      /\ Append(s, e)[Len(s) + 1] = e
  BY <1>1, AppendProperties
<1>3. IsArray(Append(s, e))
  BY <1>2, LenProperties DEF IsArray
<1> QED
  BY <1>2, <1>3

-----------------------------------------------------------------------------
(***************************************************************************)
(* The loops' indices.                                                     *)
(***************************************************************************)
\* What is enumerated is finite at every level.
Enumerable ==
    /\ Len(reg) \in Nat /\ Len(devs) \in Nat
    /\ \A i \in 1..Len(reg) :
        /\ Len(reg[i].subs) \in Nat
        /\ \A j \in 1..Len(reg[i].subs) : Len(reg[i].subs[j].keys) \in Nat

\* TypeOK, and that a subkey is searched only if it matches.
Placed ==
    /\ pc \in {"start", "devices", "subs", "subsubs", "pnps", "check", "done", "thrown", "memory"}
    /\ at \in [1..3 -> Nat \ {0}]
    /\ at[1] <= Len(reg) + Len(devs) + 1
    /\ pc \in {"subsubs", "pnps"} => at[1] <= Len(reg) /\ at[2] <= Len(Sub.subs) + 1
    /\ pc = "pnps" => /\ at[2] <= Len(Sub.subs) /\ bMatch
                      /\ at[3] <= Len(SubSub.keys) + 1
    /\ pc \in {"subs", "subsubs", "pnps"} => os = "w9x"
    /\ pc = "devices" => os = "wdm"

Counting ==
    /\ IsArray(asi)
    /\ ii \in Nat \ {0} /\ ii <= Len(asi) + 1
    /\ pc = "start" => ii = 1 /\ asi = <<>>
    /\ hDevInfo \in BOOLEAN /\ pDetData \in BOOLEAN

LEMMA InitEnumerable == Init => Enumerable
<1> SUFFICES ASSUME Init PROVE Enumerable
  OBVIOUS
<1>1. Len(<<>>) = 0
  OBVIOUS
<1>2. CASE os = "w9x"
  BY <1>1, <1>2, RegistriesAssumption, SMTT(30) DEF Init, Enumerable
<1>3. CASE os # "w9x"
  <2>1. reg = <<>> /\ Len(reg) = 0 /\ Len(devs) \in Nat
    BY <1>1, <1>3, DeviceListsAssumption DEF Init
  <2> QED
    BY <2>1 DEF Enumerable
<1> QED
  BY <1>2, <1>3

LEMMA GivenStays == [Next]_vars => UNCHANGED given
BY DEF Next, vars, NoVersion, NoMemory, EnumPortsWNt4, EnumPortsWdm, GetClassDevs, NoDetData,
       NoClassDevs, Device, DevicesFail, DevicesEnd, EnumPortsW9x, OpenEnum, NoEnum, OpenSub, OpenSubSub,
       SkipSubSub, ReadPnp, PnpsEnd, SubSubsEnd, SubsEnd, KeyFails, NamePort, Return

LEMMA NextEnumerable == Enumerable /\ [Next]_vars => Enumerable'
BY GivenStays DEF given, Enumerable

LEMMA NextPlaced == Enumerable /\ Placed /\ [Next]_vars => Placed'
<1> SUFFICES ASSUME Enumerable, Placed, [Next]_vars PROVE Placed'
  OBVIOUS
<1>1. /\ UNCHANGED <<os, reg, devs>> /\ Len(reg) \in Nat /\ Len(devs) \in Nat
      /\ at \in [1..3 -> Nat \ {0}]
  BY GivenStays DEF given, Enumerable, Placed
<1>2. ASSUME UNCHANGED at, pc' \in {"check", "done", "thrown", "memory"}
      PROVE  Placed'
  BY <1>1, <1>2 DEF Placed
<1>3. CASE NoVersion \/ NoMemory \/ EnumPortsWNt4 \/ NoDetData \/ NoClassDevs \/ NoEnum
           \/ Return
  BY <1>2, <1>3 DEF NoVersion, NoMemory, EnumPortsWNt4, NoDetData, NoClassDevs, NoEnum,
                    Return, Found
<1>4. CASE DevicesFail \/ DevicesEnd \/ SubsEnd \/ KeyFails
  BY <1>2, <1>4 DEF DevicesFail, DevicesEnd, SubsEnd, KeyFails, Found
<1>5. CASE Device
  <2>1. /\ at' = [at EXCEPT ![1] = @ + 1] /\ pc = "devices" /\ UNCHANGED pc
        /\ at[1] <= Len(devs)
    BY <1>5 DEF Device
  <2>2. at' \in [1..3 -> Nat \ {0}] /\ at'[1] <= Len(reg) + Len(devs) + 1
    BY <1>1, <2>1
  <2> QED
    BY <1>1, <2>1, <2>2 DEF Placed
<1>6. CASE OpenEnum \/ GetClassDevs
  BY <1>1, <1>6 DEF OpenEnum, GetClassDevs, Placed
<1>7. CASE OpenSub
  <2>1. /\ at' = [at EXCEPT ![2] = 1] /\ pc' = "subsubs" /\ at[1] <= Len(reg) /\ pc = "subs"
    BY <1>7 DEF OpenSub
  <2>2. at' \in [1..3 -> Nat \ {0}] /\ at'[1] = at[1] /\ at'[2] = 1
    BY <1>1, <2>1
  <2>3. Len(reg[at[1]].subs) \in Nat
    BY <1>1, <2>1 DEF Enumerable
  <2> QED
    BY <1>1, <2>1, <2>2, <2>3 DEF Placed, Sub
<1>8. CASE OpenSubSub
  <2>1. /\ at' = [at EXCEPT ![3] = 1] /\ pc' = "pnps" /\ pc = "subsubs"
        /\ at[2] <= Len(Sub.subs) /\ bMatch
    BY <1>8 DEF OpenSubSub
  <2>2. /\ at' \in [1..3 -> Nat \ {0}]
        /\ at'[1] = at[1] /\ at'[2] = at[2] /\ at'[3] = 1
    BY <1>1, <2>1
  <2>3. /\ at[1] \in 1..Len(reg) /\ Len(reg[at[1]].subs) \in Nat
    BY <1>1, <2>1 DEF Placed, Enumerable
  <2>4. Len(reg[at[1]].subs[at[2]].keys) \in Nat
    BY <1>1, <2>1, <2>3, SMTT(30) DEF Enumerable, Sub
  <2>5. bMatch' = bMatch /\ Sub' = Sub /\ SubSub' = SubSub
    BY <1>1, <2>2 DEF bMatch, Sub, SubSub
  <2> QED
    BY <1>1, <2>1, <2>2, <2>3, <2>4, <2>5, SMTT(30) DEF Placed, Sub, SubSub
<1>9. CASE SkipSubSub \/ PnpsEnd
  <2>1. /\ at' = [at EXCEPT ![2] = @ + 1] /\ pc' = "subsubs" /\ pc \in {"subsubs", "pnps"}
        /\ at[2] <= Len(Sub.subs)
    BY <1>9 DEF SkipSubSub, PnpsEnd, Placed
  <2>2. /\ at' \in [1..3 -> Nat \ {0}] /\ at'[1] = at[1] /\ at'[2] = at[2] + 1
    BY <1>1, <2>1
  <2>3. at[1] \in 1..Len(reg) /\ Len(reg[at[1]].subs) \in Nat
    BY <1>1, <2>1 DEF Placed, Enumerable
  <2>4. Sub' = Sub
    BY <1>1, <2>2 DEF Sub
  <2> QED
    BY <1>1, <2>1, <2>2, <2>3, <2>4 DEF Placed, Sub
<1>10. CASE ReadPnp
  <2>1. /\ at' = [at EXCEPT ![3] = @ + 1] /\ pc = "pnps" /\ UNCHANGED pc
        /\ at[3] <= Len(SubSub.keys)
    BY <1>10 DEF ReadPnp
  <2>2. /\ at' \in [1..3 -> Nat \ {0}]
        /\ at'[1] = at[1] /\ at'[2] = at[2] /\ at'[3] = at[3] + 1
    BY <1>1, <2>1
  <2>3. at[1] \in 1..Len(reg) /\ Len(reg[at[1]].subs) \in Nat
    BY <1>1, <2>1, SMTT(30) DEF Placed, Enumerable
  <2>4. Len(reg[at[1]].subs[at[2]].keys) \in Nat
    <3>1. at[2] \in 1..Len(reg[at[1]].subs)
      BY <1>1, <2>1, <2>3 DEF Placed, Sub
    <3> QED
      BY <2>3, <3>1 DEF Enumerable
  <2>5. bMatch' = bMatch /\ Sub' = Sub /\ SubSub' = SubSub
    BY <1>1, <2>2 DEF bMatch, Sub, SubSub
  <2> QED
    BY <1>1, <2>1, <2>2, <2>3, <2>4, <2>5, SMTT(30) DEF Placed, Sub, SubSub
<1>11. CASE SubSubsEnd
  <2>1. at' = [at EXCEPT ![1] = @ + 1] /\ pc' = "subs" /\ pc = "subsubs"
    BY <1>11 DEF SubSubsEnd
  <2>2. /\ at' \in [1..3 -> Nat \ {0}] /\ at'[1] <= Len(reg) + Len(devs) + 1
    BY <1>1, <2>1 DEF Placed
  <2> QED
    BY <1>1, <2>1, <2>2 DEF Placed
<1>12. CASE NamePort
  BY <1>2, <1>12 DEF NamePort
<1>13. CASE UNCHANGED vars
  <2>1. UNCHANGED <<at, pc>>
    BY <1>13 DEF vars
  <2> QED
    BY <1>1, <2>1 DEF Placed, Sub, SubSub, bMatch
<1> QED
  BY <1>3, <1>4, <1>5, <1>6, <1>7, <1>8, <1>9, <1>10, <1>11, <1>12, <1>13
     DEF Next, EnumPortsWdm, EnumPortsW9x

\* The array an entry is put into: one longer, or the entry in the places that have
\* its port.
LEMMA PutEntries ==
  ASSUME IsArray(asi), NEW si
  PROVE  /\ IsArray(Put(si)) /\ Len(Put(si)) >= Len(asi)
         /\ (\A n \in 1..Len(asi) : asi[n].strPortName # si.strPortName) =>
              /\ Len(Put(si)) = Len(asi) + 1 /\ Put(si)[Len(asi) + 1] = si
              /\ \A n \in 1..Len(asi) : Put(si)[n] = asi[n]
         /\ ~ (\A n \in 1..Len(asi) : asi[n].strPortName # si.strPortName) =>
              /\ Len(Put(si)) = Len(asi)
              /\ \A n \in 1..Len(asi) :
                   Put(si)[n] = IF asi[n].strPortName = si.strPortName THEN si ELSE asi[n]
<1>1. Len(asi) \in Nat
  BY DEF IsArray
<1>2. CASE \A n \in 1..Len(asi) : asi[n].strPortName # si.strPortName
  <2>1. Put(si) = Append(asi, si)
    BY <1>2 DEF Put
  <2> QED
    BY <1>1, <1>2, <2>1, ArrayAppend
<1>3. CASE ~ (\A n \in 1..Len(asi) : asi[n].strPortName # si.strPortName)
  <2> DEFINE over == [n \in 1..Len(asi) |->
                        IF asi[n].strPortName = si.strPortName THEN si ELSE asi[n]]
  <2>1. Put(si) = over
    BY <1>3 DEF Put
  <2>2. over = [n \in 1..Len(asi) |-> over[n]]
    OBVIOUS
  <2>3. \A n \in 1..Len(asi) :
          over[n] = IF asi[n].strPortName = si.strPortName THEN si ELSE asi[n]
    OBVIOUS
  <2> HIDE DEF over
  <2>4. IsArray(over) /\ Len(over) = Len(asi)
    BY <1>1, <2>2, ArrayLength
  <2> QED
    BY <1>1, <1>3, <2>1, <2>3, <2>4
<1> QED
  BY <1>2, <1>3

LEMMA NextCounting == Counting /\ [Next]_vars => Counting'
<1> SUFFICES ASSUME Counting, [Next]_vars PROVE Counting'
  OBVIOUS
<1> USE DEF held
<1>1. ASSUME UNCHANGED <<asi, ii>>, pc' # "start",
             hDevInfo' \in BOOLEAN, pDetData' \in BOOLEAN
      PROVE  Counting'
  BY <1>1 DEF Counting
<1>2. Len(asi) \in Nat /\ IsArray(asi)
  BY DEF Counting, IsArray
<1>3. CASE NoVersion \/ NoMemory \/ GetClassDevs \/ NoDetData \/ NoClassDevs \/ DevicesFail
           \/ DevicesEnd
  BY <1>1, <1>3 DEF NoVersion, NoMemory, GetClassDevs, NoDetData, NoClassDevs, DevicesFail,
                    DevicesEnd, Found, Counting
<1>4. CASE OpenEnum \/ NoEnum \/ OpenSub \/ OpenSubSub \/ SkipSubSub \/ PnpsEnd
           \/ SubSubsEnd \/ SubsEnd \/ KeyFails \/ Return
  BY <1>1, <1>4 DEF OpenEnum, NoEnum, OpenSub, OpenSubSub, SkipSubSub, PnpsEnd,
                    SubSubsEnd, SubsEnd, KeyFails, Return, Found, Counting
<1>5. CASE EnumPortsWNt4
  <2> DEFINE all == [n \in 1..LastCom |->
                       Entry(Path(ComPort(n)), ComPort(n), Empty, Empty, FALSE)]
  <2>1. all = [n \in 1..LastCom |-> all[n]]
    OBVIOUS
  <2> HIDE DEF all
  <2>2. IsArray(all) /\ Len(all) = LastCom /\ LastCom \in Nat
    BY <2>1, ArrayLength, LastComAssumption
  <2>3. asi' = all /\ pc' = "check" /\ pc = "start" /\ UNCHANGED <<ii, hDevInfo, pDetData>>
    BY <1>5 DEF EnumPortsWNt4, Found, all
  <2> QED
    BY <2>2, <2>3 DEF Counting
<1>6. ASSUME NEW e, asi' = Append(asi, e) \/ UNCHANGED asi, UNCHANGED <<pc, ii, held>>,
             pc # "start"
      PROVE  Counting'
  <2>1. IsArray(asi') /\ Len(asi') >= Len(asi) /\ Len(asi') \in Nat
    BY <1>2, <1>6, ArrayAppend DEF IsArray
  <2> QED
    BY <1>2, <1>6, <2>1 DEF Counting
<1>7. CASE Device
  BY <1>6, <1>7 DEF Device
<1>8. CASE ReadPnp
  <2>1. PICK si : asi' = asi \/ asi' = Put(si)
    BY <1>8 DEF ReadPnp
  <2>2. IsArray(asi') /\ Len(asi') >= Len(asi) /\ Len(asi') \in Nat
    BY <1>2, <2>1, PutEntries DEF IsArray
  <2>3. pc # "start" /\ UNCHANGED <<pc, ii, hDevInfo, pDetData>>
    BY <1>8 DEF ReadPnp
  <2> QED
    BY <1>2, <2>2, <2>3 DEF Counting
<1>9. CASE NamePort
  <2>1. /\ asi' = [asi EXCEPT ![ii] = Named(@)] /\ ii' = ii + 1 /\ ii <= Len(asi)
        /\ pc = "check" /\ UNCHANGED <<pc, hDevInfo, pDetData>>
    BY <1>9 DEF NamePort
  <2>2. asi' = [n \in 1..Len(asi) |-> asi'[n]]
    BY <1>2, <2>1 DEF IsArray
  <2>3. IsArray(asi') /\ Len(asi') = Len(asi)
    BY <1>2, <2>2, ArrayLength
  <2> QED
    BY <1>2, <2>1, <2>3 DEF Counting
<1>10. CASE UNCHANGED vars
  BY <1>10 DEF vars, Counting
<1> QED
  BY <1>3, <1>4, <1>5, <1>7, <1>8, <1>9, <1>10 DEF Next, EnumPortsWdm, EnumPortsW9x

LEMMA InitPlaced == Init => Placed /\ Counting
<1> SUFFICES ASSUME Init PROVE Placed /\ Counting
  OBVIOUS
<1>1. Len(reg) \in Nat /\ Len(devs) \in Nat
  BY InitEnumerable DEF Enumerable
<1>2. at = <<1, 1, 1>> /\ pc = "start"
  BY DEF Init
<1>3. IsArray(asi) /\ Len(asi) = 0
  <2>1. asi = <<>> /\ Len(<<>>) = 0 /\ <<>> = [n \in 1..0 |-> <<>>[n]]
    BY DEF Init
  <2> QED
    BY <2>1 DEF IsArray
<1>4. Placed
  BY <1>1, <1>2 DEF Placed
<1>5. ii = 1 /\ asi = <<>> /\ hDevInfo = FALSE /\ pDetData = FALSE
  BY DEF Init
<1>6. ii \in Nat \ {0} /\ ii <= Len(asi) + 1
  BY <1>3, <1>5
<1>7. Counting
  BY <1>3, <1>5, <1>6, Zenon DEF Counting
<1> QED
  BY <1>4, <1>7

\* Every index of the three nested walks and of the loop over what was found stays at
\* or just behind its loop's end, for any registry (EnumSerial.cpp:281, 295 and 341).
THEOREM TypeOKHolds == Spec => []TypeOK
<1>1. Enumerable /\ Placed /\ Counting => TypeOK
  <2> SUFFICES ASSUME Enumerable, Placed, Counting PROVE TypeOK
    OBVIOUS
  <2>1. Len(reg) + Len(devs) + 1 \in Nat /\ Len(asi) \in Nat
        /\ at[1] \in Nat \ {0} /\ at[2] \in Nat \ {0} /\ at[3] \in Nat \ {0}
    BY DEF Enumerable, Counting, IsArray, Placed
  <2>2. ASSUME pc \in {"subsubs", "pnps"} PROVE at[2] \in 1..Len(Sub.subs) + 1
    <3>1. at[1] \in 1..Len(reg) /\ at[2] <= Len(Sub.subs) + 1
      BY <2>1, <2>2 DEF Placed, Enumerable
    <3>2. Len(reg[at[1]].subs) \in Nat
      BY <3>1 DEF Enumerable
    <3> QED
      BY <2>1, <3>1, <3>2 DEF Sub
  <2>3. ASSUME pc = "pnps" PROVE at[3] \in 1..Len(SubSub.keys) + 1
    <3>1. /\ at[1] \in 1..Len(reg) /\ at[2] <= Len(reg[at[1]].subs)
          /\ at[3] <= Len(SubSub.keys) + 1
      BY <2>1, <2>3 DEF Placed, Enumerable, Sub
    <3>2. Len(reg[at[1]].subs) \in Nat
      BY <3>1 DEF Enumerable
    <3>3. at[2] \in 1..Len(reg[at[1]].subs)
      BY <2>1, <3>1, <3>2
    <3>4. Len(reg[at[1]].subs[at[2]].keys) \in Nat
      BY <3>1, <3>3 DEF Enumerable
    <3> QED
      BY <2>1, <3>1, <3>4 DEF SubSub, Sub
  <2> QED
    BY <2>1, <2>2, <2>3 DEF Placed, Counting, TypeOK
<1>2. Init => Enumerable /\ Placed /\ Counting
  BY InitEnumerable, InitPlaced
<1> QED
  BY <1>1, <1>2, NextEnumerable, NextPlaced, NextCounting, PTL DEF Spec
-----------------------------------------------------------------------------
(***************************************************************************)
(* The walk of the registry.                                               *)
(***************************************************************************)
\* The keys that the loops have behind them.
Walked ==
    {p \in Listed :
        \/ p[1] < at[1]
        \/ pc \in {"subsubs", "pnps"} /\ p[1] = at[1] /\ p[2] < at[2]
        \/ pc = "pnps" /\ p[1] = at[1] /\ p[2] = at[2] /\ p[3] < at[3]}

\* While the walk runs the array reports the keys behind it; then, what was found
\* reports them all.
Reporting ==
    os = "w9x" =>
        /\ pc \in {"start", "subs", "subsubs", "pnps"} => Reports(asi, Walked)
        /\ pc \in {"check", "done"} => Reports(found, Listed)

LEMMA ListedKey ==
  ASSUME NEW p, Enumerable
  PROVE  p \in Listed <=>
           \E i \in 1..Len(reg) : \E j \in 1..Len(reg[i].subs) :
           \E k \in 1..Len(reg[i].subs[j].keys) :
              /\ p = <<i, j, k>>
              /\ reg[i].usb \/ reg[i].subs[j].pnp
              /\ KeyAt(p).port # Missing
<1>1. p \in Keys <=> \E i \in 1..Len(reg) : \E j \in 1..Len(reg[i].subs) :
                     \E k \in 1..Len(reg[i].subs[j].keys) : p = <<i, j, k>>
  <2> DEFINE below(i, j) == {<<i, j, k>> : k \in 1..Len(reg[i].subs[j].keys)}
             under(i) == UNION {below(i, j) : j \in 1..Len(reg[i].subs)}
  <2>1. ASSUME NEW i, NEW j
        PROVE  p \in below(i, j) <=>
                 \E k \in 1..Len(reg[i].subs[j].keys) : p = <<i, j, k>>
    OBVIOUS
  <2>2. Keys = UNION {under(i) : i \in 1..Len(reg)}
    BY DEF Keys
  <2> HIDE DEF below
  <2>3. ASSUME NEW i
        PROVE  p \in under(i) <=> \E j \in 1..Len(reg[i].subs) : p \in below(i, j)
    OBVIOUS
  <2> HIDE DEF under
  <2>4. p \in Keys <=> \E i \in 1..Len(reg) : p \in under(i)
    BY <2>2
  <2> QED
    BY <2>1, <2>3, <2>4
<1>2. \A i, j, k : p = <<i, j, k>> => p[1] = i /\ p[2] = j /\ p[3] = k
  OBVIOUS
<1> QED
  BY <1>1, <1>2 DEF Listed

\* The indices of a key listed are numbers within their loops.
LEMMA ListedPlace ==
  ASSUME Enumerable, NEW p \in Listed
  PROVE  /\ p = <<p[1], p[2], p[3]>>
         /\ p[1] \in 1..Len(reg) /\ p[2] \in 1..Len(reg[p[1]].subs)
         /\ p[3] \in 1..Len(reg[p[1]].subs[p[2]].keys)
         /\ p[1] \in Nat \ {0} /\ p[2] \in Nat \ {0} /\ p[3] \in Nat \ {0}
         /\ Len(reg) \in Nat /\ Len(reg[p[1]].subs) \in Nat
         /\ Len(reg[p[1]].subs[p[2]].keys) \in Nat
         /\ reg[p[1]].usb \/ reg[p[1]].subs[p[2]].pnp
         /\ KeyAt(p).port # Missing
<1>1. PICK i \in 1..Len(reg) : \E j \in 1..Len(reg[i].subs) :
           \E k \in 1..Len(reg[i].subs[j].keys) :
              /\ p = <<i, j, k>>
              /\ reg[i].usb \/ reg[i].subs[j].pnp
              /\ KeyAt(p).port # Missing
  BY ListedKey
<1>2. PICK j \in 1..Len(reg[i].subs) :
           \E k \in 1..Len(reg[i].subs[j].keys) :
              /\ p = <<i, j, k>>
              /\ reg[i].usb \/ reg[i].subs[j].pnp
              /\ KeyAt(p).port # Missing
  BY <1>1
<1>3. PICK k \in 1..Len(reg[i].subs[j].keys) :
              /\ p = <<i, j, k>>
              /\ reg[i].usb \/ reg[i].subs[j].pnp
              /\ KeyAt(p).port # Missing
  BY <1>2
<1>4. p[1] = i /\ p[2] = j /\ p[3] = k
  BY <1>3
<1>5. /\ Len(reg) \in Nat /\ Len(reg[i].subs) \in Nat
      /\ Len(reg[i].subs[j].keys) \in Nat
  BY DEF Enumerable
<1>6. i \in Nat \ {0} /\ j \in Nat \ {0} /\ k \in Nat \ {0}
  BY <1>5
<1> QED
  BY <1>3, <1>4, <1>5, <1>6

\* A key put into an array that reports keys before it.
LEMMA PutReports ==
  ASSUME IsArray(asi), NEW some, NEW p, Reports(asi, some),
         \A q \in some : Before(q, p) /\ ~ Before(p, q), ~ Before(p, p),
         NEW si, si.strPortName = KeyAt(p).port,
         si.strFriendlyName = IF KeyAt(p).friendly = Missing THEN Empty
                              ELSE KeyAt(p).friendly
  PROVE  Reports(Put(si), some \union {p})
<1> DEFINE new == Put(si)
           said(n, q) == /\ KeyAt(q).port = new[n].strPortName
                         /\ \A r \in some \union {p} :
                               Before(q, r) => KeyAt(r).port # KeyAt(q).port
                         /\ new[n].strFriendlyName =
                              IF KeyAt(q).friendly = Missing THEN Empty
                              ELSE KeyAt(q).friendly
<1>1. /\ IsArray(new) /\ Len(new) >= Len(asi)
      /\ (\A n \in 1..Len(asi) : asi[n].strPortName # si.strPortName) =>
           /\ Len(new) = Len(asi) + 1 /\ new[Len(asi) + 1] = si
           /\ \A n \in 1..Len(asi) : new[n] = asi[n]
      /\ ~ (\A n \in 1..Len(asi) : asi[n].strPortName # si.strPortName) =>
           /\ Len(new) = Len(asi)
           /\ \A n \in 1..Len(asi) :
                new[n] = IF asi[n].strPortName = si.strPortName THEN si ELSE asi[n]
  BY PutEntries
<1>2. /\ {asi[n].strPortName : n \in 1..Len(asi)} = {KeyAt(q).port : q \in some}
      /\ \A a, b \in 1..Len(asi) : asi[a].strPortName = asi[b].strPortName => a = b
      /\ \A n \in 1..Len(asi) : \E q \in some :
            /\ KeyAt(q).port = asi[n].strPortName
            /\ \A r \in some : Before(q, r) => KeyAt(r).port # KeyAt(q).port
            /\ asi[n].strFriendlyName = IF KeyAt(q).friendly = Missing THEN Empty
                                        ELSE KeyAt(q).friendly
  BY DEF Reports
<1>3. Len(asi) \in Nat
  BY DEF IsArray
<1> HIDE DEF new
<1>4. ASSUME NEW n, new[n] = si PROVE said(n, p)
  BY <1>4
<1>5. ASSUME NEW n \in 1..Len(asi), new[n] = asi[n], asi[n].strPortName # si.strPortName
      PROVE  \E q \in some \union {p} : said(n, q)
  BY <1>2, <1>5
<1>6. ASSUME \A n \in 1..Len(new) : \E q \in some \union {p} : said(n, q),
             \A a, b \in 1..Len(new) : new[a].strPortName = new[b].strPortName => a = b,
             {new[n].strPortName : n \in 1..Len(new)} =
                {KeyAt(q).port : q \in some \union {p}}
      PROVE  Reports(new, some \union {p})
  BY <1>6 DEF Reports
<1>7. {KeyAt(q).port : q \in some \union {p}} =
        {KeyAt(q).port : q \in some} \union {si.strPortName}
  OBVIOUS
<1>8. CASE \A n \in 1..Len(asi) : asi[n].strPortName # si.strPortName
  <2>1. \A n : n \in 1..Len(new) <=> n \in 1..Len(asi) \/ n = Len(asi) + 1
    BY <1>1, <1>3, <1>8
  <2>2. {new[n].strPortName : n \in 1..Len(new)} =
          {asi[n].strPortName : n \in 1..Len(asi)} \union {si.strPortName}
    BY <1>1, <1>8, <2>1
  <2>3. \A n \in 1..Len(new) : \E q \in some \union {p} : said(n, q)
    <3> TAKE n \in 1..Len(new)
    <3>1. CASE n \in 1..Len(asi)
      BY <1>1, <1>5, <1>8, <3>1
    <3>2. CASE n = Len(asi) + 1
      BY <1>1, <1>4, <1>8, <3>2
    <3> QED
      BY <2>1, <3>1, <3>2
  <2>4. \A a, b \in 1..Len(new) : new[a].strPortName = new[b].strPortName => a = b
    BY <1>1, <1>2, <1>8, <2>1
  <2> HIDE DEF said
  <2> QED
    BY <1>2, <1>6, <1>7, <2>2, <2>3, <2>4 DEF new
<1>9. CASE ~ (\A n \in 1..Len(asi) : asi[n].strPortName # si.strPortName)
  <2>1. /\ Len(new) = Len(asi)
        /\ \A n \in 1..Len(asi) :
             new[n] = IF asi[n].strPortName = si.strPortName THEN si ELSE asi[n]
    BY <1>1, <1>9
  <2>2. \A n \in 1..Len(asi) : new[n].strPortName = asi[n].strPortName
    BY <2>1
  <2>3. {new[n].strPortName : n \in 1..Len(new)} = {asi[n].strPortName : n \in 1..Len(asi)}
    BY <2>1, <2>2
  <2>4. si.strPortName \in {asi[n].strPortName : n \in 1..Len(asi)}
    BY <1>9
  <2>5. \A n \in 1..Len(new) : \E q \in some \union {p} : said(n, q)
    <3> TAKE n \in 1..Len(new)
    <3>1. CASE asi[n].strPortName = si.strPortName
      BY <1>4, <2>1, <3>1
    <3>2. CASE asi[n].strPortName # si.strPortName
      BY <1>5, <2>1, <3>2
    <3> QED
      BY <3>1, <3>2
  <2>6. \A a, b \in 1..Len(new) : new[a].strPortName = new[b].strPortName => a = b
    BY <1>2, <2>1, <2>2
  <2> HIDE DEF said
  <2> QED
    BY <1>2, <1>6, <1>7, <2>3, <2>4, <2>5, <2>6 DEF new
<1> QED
  BY <1>8, <1>9

\* What an array reports of some keys does not change with the state.
LEMMA SameReports ==
  ASSUME UNCHANGED reg, NEW array, NEW some, Reports(array, some)
  PROVE  Reports(array, some)'
<1>1. \A p : KeyAt(p)' = KeyAt(p)
  BY DEF KeyAt
<1>2. {KeyAt(p)'.port : p \in some} = {KeyAt(p).port : p \in some}
  BY <1>1
<1>3. \A n \in 1..Len(array) : \E p \in some :
            /\ KeyAt(p)'.port = array[n].strPortName
            /\ \A q \in some : Before(p, q) => KeyAt(q)'.port # KeyAt(p)'.port
            /\ array[n].strFriendlyName = IF KeyAt(p)'.friendly = Missing THEN Empty
                                          ELSE KeyAt(p)'.friendly
  BY <1>1 DEF Reports
<1> QED
  BY <1>2, <1>3 DEF Reports

\* A step that leaves the array, the registry and the keys walked alone.
LEMMA SameReporting ==
  ASSUME Reporting, UNCHANGED <<os, reg, asi>>, Walked' = Walked,
         pc \in {"start", "subs", "subsubs", "pnps"},
         pc' \in {"subs", "subsubs", "pnps", "thrown"}
  PROVE  Reporting'
<1> SUFFICES ASSUME os = "w9x", pc' \in {"subs", "subsubs", "pnps"}
             PROVE  Reports(asi, Walked)'
  BY DEF Reporting
<1>1. Reports(asi, Walked)
  BY DEF Reporting
<1>2. PICK array : array = asi
  OBVIOUS
<1>3. PICK some : some = Walked
  OBVIOUS
<1>4. Reports(array, some)'
  BY <1>1, <1>2, <1>3, SameReports
<1>5. asi' = array /\ Walked' = some
  BY <1>2, <1>3
<1> QED
  BY <1>4, <1>5

LEMMA NextReporting ==
  Enumerable /\ Placed /\ Counting /\ Reporting /\ [Next]_vars => Reporting'
<1> SUFFICES ASSUME Enumerable, Placed, Counting, Reporting, [Next]_vars
             PROVE  Reporting'
  OBVIOUS
<1>1. UNCHANGED <<os, reg>> /\ at \in [1..3 -> Nat \ {0}] /\ IsArray(asi)
  BY GivenStays DEF given, Placed, Counting
<1>2. Listed' = Listed /\ \A p : KeyAt(p)' = KeyAt(p)
  BY <1>1 DEF Listed, Keys, KeyAt
<1> DEFINE Behind(p, c, a) ==
        \/ p[1] < a[1]
        \/ c \in {"subsubs", "pnps"} /\ p[1] = a[1] /\ p[2] < a[2]
        \/ c = "pnps" /\ p[1] = a[1] /\ p[2] = a[2] /\ p[3] < a[3]
<1>3. ASSUME NEW p PROVE /\ p \in Walked <=> p \in Listed /\ Behind(p, pc, at)
                         /\ p \in Walked' <=> p \in Listed /\ Behind(p, pc', at')
  BY <1>2 DEF Walked
<1>4. ASSUME \A p \in Listed : Behind(p, pc, at) <=> Behind(p, pc', at')
      PROVE  Walked' = Walked
  BY <1>3, <1>4
<1>5. ASSUME NEW p \in Listed
      PROVE  /\ p[1] \in Nat \ {0} /\ p[2] \in Nat \ {0} /\ p[3] \in Nat \ {0}
             /\ p[1] <= Len(reg) /\ p[2] <= Len(reg[p[1]].subs)
             /\ p[3] <= Len(reg[p[1]].subs[p[2]].keys)
             /\ p = <<p[1], p[2], p[3]>>
             /\ reg[p[1]].usb \/ reg[p[1]].subs[p[2]].pnp
  BY ListedPlace
<1>6. ASSUME UNCHANGED asi, Walked' = Walked, Reports(asi, Walked)
       PROVE  Reports(asi, Walked)'
  <2>1. PICK array : array = asi
    OBVIOUS
  <2>2. PICK some : some = Walked
    OBVIOUS
  <2>3. Reports(array, some)'
    BY <1>1, <1>6, <2>1, <2>2, SameReports
  <2>4. asi' = array /\ Walked' = some
    BY <1>6, <2>1, <2>2
  <2> QED
    BY <2>3, <2>4
<1>7. CASE OpenEnum
  <2>1. pc = "start" /\ pc' = "subs" /\ UNCHANGED <<at, asi>>
    BY <1>7 DEF OpenEnum
  <2>2. Walked' = Walked
    BY <1>4, <2>1
  <2> QED
    BY <1>1, <2>1, <2>2, SameReporting
<1>8. CASE OpenSub
  <2>1. pc = "subs" /\ pc' = "subsubs" /\ at' = [at EXCEPT ![2] = 1] /\ UNCHANGED asi
    BY <1>8 DEF OpenSub
  <2>2. at'[1] = at[1] /\ at'[2] = 1
    BY <1>1, <2>1
  <2>3. Walked' = Walked
    BY <1>4, <1>5, <2>1, <2>2
  <2> QED
    BY <1>1, <2>1, <2>3, SameReporting
<1>9. CASE OpenSubSub
  <2>1. pc = "subsubs" /\ pc' = "pnps" /\ at' = [at EXCEPT ![3] = 1] /\ UNCHANGED asi
    BY <1>9 DEF OpenSubSub
  <2>2. at'[1] = at[1] /\ at'[2] = at[2] /\ at'[3] = 1
    BY <1>1, <2>1
  <2>3. Walked' = Walked
    BY <1>4, <1>5, <2>1, <2>2
  <2> QED
    BY <1>1, <2>1, <2>3, SameReporting
<1>10. CASE SkipSubSub
  <2>1. /\ pc = "subsubs" /\ pc' = pc /\ at' = [at EXCEPT ![2] = @ + 1] /\ UNCHANGED asi
        /\ ~ bMatch
    BY <1>10 DEF SkipSubSub
  <2>2. at'[1] = at[1] /\ at'[2] = at[2] + 1 /\ at[2] \in Nat
    BY <1>1, <2>1
  <2>3. \A p \in Listed : ~ (p[1] = at[1] /\ p[2] = at[2])
    BY <1>5, <2>1 DEF bMatch, Sub, SubSub
  <2>4. \A p \in Listed : p[2] < at[2] + 1 <=> p[2] < at[2] \/ p[2] = at[2]
    BY <1>5, <2>2
  <2>5. Walked' = Walked
    BY <1>4, <2>1, <2>2, <2>3, <2>4
  <2> QED
    BY <1>1, <2>1, <2>5, SameReporting
<1>11. CASE PnpsEnd
  <2>1. /\ pc = "pnps" /\ pc' = "subsubs" /\ at' = [at EXCEPT ![2] = @ + 1]
        /\ UNCHANGED asi /\ at[3] > Len(SubSub.keys)
    BY <1>11 DEF PnpsEnd
  <2>2. at'[1] = at[1] /\ at'[2] = at[2] + 1 /\ at[2] \in Nat /\ at[3] \in Nat
    BY <1>1, <2>1
  <2>3. ASSUME NEW p \in Listed, p[1] = at[1], p[2] = at[2] PROVE p[3] < at[3]
    <3>1. p[3] <= Len(SubSub.keys) /\ Len(SubSub.keys) \in Nat /\ p[3] \in Nat
      BY <2>3, ListedPlace DEF Sub, SubSub
    <3> QED
      BY <2>1, <2>2, <3>1
  <2>4. \A p \in Listed : p[2] < at[2] + 1 <=> p[2] < at[2] \/ p[2] = at[2]
    BY <1>5, <2>2
  <2>5. Walked' = Walked
    BY <1>4, <2>1, <2>2, <2>3, <2>4
  <2> QED
    BY <1>1, <2>1, <2>5, SameReporting
<1>12. CASE SubSubsEnd
  <2>1. /\ pc = "subsubs" /\ pc' = "subs" /\ at' = [at EXCEPT ![1] = @ + 1]
        /\ UNCHANGED asi /\ at[2] > Len(Sub.subs)
    BY <1>12 DEF SubSubsEnd
  <2>2. at'[1] = at[1] + 1 /\ at[1] \in Nat /\ at[2] \in Nat
    BY <1>1, <2>1
  <2>3. ASSUME NEW p \in Listed, p[1] = at[1] PROVE p[2] < at[2]
    <3>1. p[2] <= Len(Sub.subs) /\ Len(Sub.subs) \in Nat /\ p[2] \in Nat
      BY <2>3, ListedPlace DEF Sub
    <3> QED
      BY <2>1, <2>2, <3>1
  <2>4. \A p \in Listed : p[1] < at[1] + 1 <=> p[1] < at[1] \/ p[1] = at[1]
    BY <1>5, <2>2
  <2>5. Walked' = Walked
    BY <1>4, <2>1, <2>2, <2>3, <2>4
  <2> QED
    BY <1>1, <2>1, <2>5, SameReporting
<1>13. CASE ReadPnp
  <2>1. /\ pc = "pnps" /\ pc' = "pnps" /\ at' = [at EXCEPT ![3] = @ + 1]
        /\ at[3] <= Len(SubSub.keys) /\ os = "w9x"
    BY <1>13 DEF ReadPnp, Placed
  <2>2. /\ at'[1] = at[1] /\ at'[2] = at[2] /\ at'[3] = at[3] + 1
        /\ at[1] \in Nat \ {0} /\ at[2] \in Nat \ {0} /\ at[3] \in Nat \ {0}
    BY <1>1, <2>1
  <2> DEFINE here == <<at[1], at[2], at[3]>>
  <2>3. /\ here[1] = at[1] /\ here[2] = at[2] /\ here[3] = at[3] /\ KeyAt(here) = Pnp
    BY DEF KeyAt, Pnp, SubSub, Sub
  <2>4. here \in Listed <=> Pnp.port # Missing
    <3>1. /\ at[1] <= Len(reg) /\ at[2] <= Len(reg[at[1]].subs)
          /\ reg[at[1]].usb \/ reg[at[1]].subs[at[2]].pnp
      BY <2>1 DEF Placed, Sub, bMatch, SubSub
    <3>2. at[1] \in 1..Len(reg)
      BY <2>2, <3>1 DEF Enumerable
    <3>3. Len(reg[at[1]].subs) \in Nat
      BY <3>2 DEF Enumerable
    <3>4. at[2] \in 1..Len(reg[at[1]].subs)
      BY <2>2, <3>1, <3>3
    <3>5. Len(reg[at[1]].subs[at[2]].keys) \in Nat
      BY <3>2, <3>4 DEF Enumerable
    <3>6. at[3] \in 1..Len(reg[at[1]].subs[at[2]].keys)
      BY <2>1, <2>2, <3>5 DEF SubSub, Sub
    <3> HIDE DEF here
    <3>7. here \in Listed => KeyAt(here).port # Missing
      BY ListedPlace
    <3>8. KeyAt(here).port # Missing => here \in Listed
      <4>1. here = <<at[1], at[2], at[3]>>
        BY DEF here
      <4> QED
        BY <3>1, <3>2, <3>4, <3>6, <4>1, ListedKey
    <3> QED
      BY <2>3, <3>7, <3>8
  <2>5. ASSUME NEW p \in Listed
        PROVE  /\ Behind(p, pc', at') <=> Behind(p, pc, at) \/ p = here
               /\ Behind(p, pc, at) => Before(p, here) /\ ~ Before(here, p)
    <3>1. p = here <=> p[1] = at[1] /\ p[2] = at[2] /\ p[3] = at[3]
      BY <1>5
    <3>2. p[3] < at[3] + 1 <=> p[3] < at[3] \/ p[3] = at[3]
      BY <1>5, <2>2
    <3>3. p[1] \in Nat /\ p[2] \in Nat /\ p[3] \in Nat
      BY <1>5
    <3> HIDE DEF here
    <3> QED
      BY <2>1, <2>2, <2>3, <3>1, <3>2, <3>3 DEF Before
  <2>6. ~ Before(here, here)
    BY <2>2 DEF Before
  <2> HIDE DEF here, Behind
  <2>7. Reports(asi, Walked)
    BY <2>1 DEF Reporting
  <2>8. CASE Pnp.port = Missing
    <3>1. Walked' = Walked
      <4>1. \A p \in Listed : Behind(p, pc', at') <=> Behind(p, pc, at)
        BY <2>4, <2>5, <2>8
      <4> QED
        BY <1>4, <4>1
    <3>2. UNCHANGED asi
      BY <1>13, <2>8 DEF ReadPnp
    <3> QED
      BY <1>1, <2>1, <3>1, <3>2, SameReporting
  <2>9. CASE Pnp.port # Missing
    <3> DEFINE si == Entry(Path(Pnp.port), Pnp.port,
                           IF Pnp.friendly = Missing THEN Empty ELSE Pnp.friendly,
                           Empty, Sub.usb)
    <3>1. /\ si.strPortName = KeyAt(here).port
          /\ si.strFriendlyName = IF KeyAt(here).friendly = Missing THEN Empty
                                  ELSE KeyAt(here).friendly
      BY <2>3 DEF Entry
    <3>2. asi' = Put(si)
      BY <1>13, <2>9 DEF ReadPnp
    <3> HIDE DEF si
    <3>3. Walked' = Walked \union {here}
      BY <1>3, <2>4, <2>5, <2>9
    <3>4. \A q \in Walked : Before(q, here) /\ ~ Before(here, q)
      BY <1>3, <2>5
    <3>5. Reports(Put(si), Walked \union {here})
      BY <1>1, <2>6, <2>7, <3>1, <3>4, PutReports
    <3>6. Reports(asi, Walked)'
      <4> DEFINE some == Walked \union {here}
                 array == Put(si)
      <4>1. Reports(array, some) /\ asi' = array /\ Walked' = some
        BY <3>2, <3>3, <3>5
      <4> HIDE DEF some, array
      <4> QED
        BY <1>2, <4>1 DEF Reports
    <3> QED
      BY <1>1, <2>1, <3>6 DEF Reporting
  <2> QED
    BY <2>8, <2>9
<1>14. CASE SubsEnd
  <2>1. /\ pc = "subs" /\ pc' = "check" /\ found' = asi /\ at[1] > Len(reg)
        /\ os = "w9x"
    BY <1>14 DEF SubsEnd, Found, Placed
  <2>2. \A p \in Listed : p[1] < at[1]
    <3>1. at[1] \in Nat /\ Len(reg) \in Nat
      BY <1>1 DEF Enumerable
    <3> QED
      BY <1>5, <2>1, <3>1
  <2>3. Walked = Listed
    BY <1>3, <2>2
  <2>4. Reports(asi, Listed)
    BY <2>1, <2>3 DEF Reporting
  <2>5. Reports(found, Listed)'
    <3>1. PICK array : array = asi
      OBVIOUS
    <3>2. PICK some : some = Listed
      OBVIOUS
    <3>3. Reports(array, some)'
      BY <1>1, <2>4, <3>1, <3>2, SameReports
    <3>4. found' = array /\ Listed' = some
      BY <1>2, <2>1, <3>1, <3>2
    <3> QED
      BY <3>3, <3>4
  <2> QED
    BY <1>1, <2>1, <2>5 DEF Reporting
<1>15. ASSUME UNCHANGED found, Reports(found, Listed) PROVE Reports(found, Listed)'
  <2>1. PICK array : array = found
    OBVIOUS
  <2>2. PICK some : some = Listed
    OBVIOUS
  <2>3. Reports(array, some)'
    BY <1>1, <1>15, <2>1, <2>2, SameReports
  <2>4. found' = array /\ Listed' = some
    BY <1>2, <1>15, <2>1, <2>2
  <2> QED
    BY <2>3, <2>4
<1>16. CASE NamePort \/ Return
  <2>1. pc = "check" /\ pc' \in {"check", "done"} /\ UNCHANGED found
    BY <1>16 DEF NamePort, Return
  <2>2. os = "w9x" => Reports(found, Listed)'
    BY <1>15, <2>1 DEF Reporting
  <2> QED
    BY <1>1, <2>1, <2>2 DEF Reporting
<1>17. CASE NoVersion \/ NoMemory \/ NoDetData \/ NoClassDevs \/ NoEnum \/ KeyFails
            \/ DevicesFail
  <2>1. pc' \in {"thrown", "memory"}
    BY <1>17 DEF NoVersion, NoMemory, NoDetData, NoClassDevs, NoEnum, KeyFails, DevicesFail
  <2> QED
    BY <2>1 DEF Reporting
<1>18. CASE EnumPortsWNt4 \/ GetClassDevs
  BY <1>1, <1>18 DEF EnumPortsWNt4, GetClassDevs, Reporting
<1>19. CASE Device \/ DevicesEnd
  <2>1. pc = "devices"
    BY <1>19 DEF Device, DevicesEnd
  <2>2. os # "w9x"
    BY <2>1 DEF Placed
  <2> QED
    BY <1>1, <2>2 DEF Reporting
<1>20. CASE UNCHANGED vars
  <2>1. UNCHANGED <<pc, at, asi, found>>
    BY <1>20 DEF vars
  <2>2. Walked' = Walked
    BY <1>4, <2>1
  <2>3. CASE pc \in {"subs", "subsubs", "pnps"}
    BY <1>1, <2>1, <2>2, <2>3, SameReporting
  <2>4. CASE pc \in {"check", "done"}
    BY <1>1, <1>15, <2>1, <2>4 DEF Reporting
  <2>5. CASE pc = "start"
    <3>1. os = "w9x" => Reports(asi, Walked)'
      BY <1>6, <2>1, <2>2, <2>5 DEF Reporting
    <3> QED
      BY <1>1, <2>1, <2>5, <3>1 DEF Reporting
  <2>6. CASE pc \in {"devices", "thrown", "memory"}
    BY <2>1, <2>6 DEF Reporting
  <2> QED
    BY <2>3, <2>4, <2>5, <2>6 DEF Placed
<1> QED
  BY <1>7, <1>8, <1>9, <1>10, <1>11, <1>12, <1>13, <1>14, <1>16, <1>17, <1>18, <1>19, <1>20
     DEF Next, EnumPortsWdm, EnumPortsW9x

\* A walk of the registry that worked reports every port once, with what the last key
\* that names it says, whatever the registry holds ("Overwrite duplicates",
\* EnumSerial.cpp:380).
THEOREM LastKeyWinsHolds == Spec => []LastKeyWins
<1>1. Init => Reporting
  <2> SUFFICES ASSUME Init, os = "w9x" PROVE Reports(asi, Walked)
    BY DEF Init, Reporting
  <2>1. asi = <<>> /\ Len(<<>>) = 0 /\ pc = "start" /\ at[1] = 1
    BY DEF Init
  <2>2. ASSUME NEW p \in Listed PROVE ~ (p[1] < 1)
    BY <2>2, InitEnumerable, ListedPlace
  <2>3. Walked = {}
    BY <2>1, <2>2 DEF Walked
  <2>4. 1..Len(asi) = {}
    BY <2>1
  <2> QED
    BY <2>3, <2>4 DEF Reports
<1>2. Init => Enumerable /\ Placed /\ Counting
  BY InitEnumerable, InitPlaced
<1>3. Reporting => LastKeyWins
  BY DEF Reporting, LastKeyWins
<1> QED
  BY <1>1, <1>2, <1>3, NextEnumerable, NextPlaced, NextCounting, NextReporting,
     PTL DEF Spec
-----------------------------------------------------------------------------
(***************************************************************************)
(* What is shown of a port.  Names come from the system: the theorem is    *)
(* about systems whose names are sensible.                                 *)
(***************************************************************************)
LEMMA LeastOf ==
  ASSUME NEW T \in SUBSET Nat, T # {}
  PROVE  \E n \in T : \A m \in T : n <= m
<1> DEFINE less == OpToRel(<, Nat)
<1>1. \E n \in T : \A m \in T : ~ (<<m, n>> \in less)
  BY WFMin, NatLessThanWellFounded
<1>2. ASSUME NEW m \in Nat, NEW n \in Nat, m < n PROVE <<m, n>> \in less
  BY <1>2 DEF OpToRel
<1> HIDE DEF less
<1>3. PICK n \in T : \A m \in T : ~ (<<m, n>> \in less)
  BY <1>1
<1>4. ASSUME NEW m \in T PROVE n <= m
  <2>1. ~ (m < n)
    BY <1>2, <1>3
  <2> QED
    BY <2>1
<1> QED
  BY <1>4

\* CString::Find: the first place of a part, or none.
LEMMA PositionIsFirst ==
  ASSUME NEW s, IsArray(s), NEW part
  PROVE  \/ PositionOf(part, s) = 0 /\ Places(part, s) = {}
         \/ /\ PositionOf(part, s) \in Places(part, s)
            /\ \A n \in Places(part, s) : PositionOf(part, s) <= n
<1> DEFINE I == Places(part, s)
<1>1. PositionOf(part, s) = IF I # {} THEN Min(I) ELSE 0
  BY DEF PositionOf, SelectInSeq, Places
<1>2. I \in SUBSET Nat
  BY DEF IsArray, Places
<1> HIDE DEF I
<1>3. CASE I # {}
  <2>1. PICK n \in I : \A m \in I : n <= m
    BY <1>2, <1>3, LeastOf
  <2>2. Min(I) \in I /\ \A m \in I : Min(I) <= m
    BY <2>1 DEF Min
  <2> QED
    BY <1>1, <1>3, <2>2 DEF I
<1>4. CASE I = {}
  BY <1>1, <1>4 DEF I
<1> QED
  BY <1>3, <1>4

LEMMA EmptyText == Text(Empty)
<1>1. Len(<<>>) = 0 /\ <<>> = [n \in 1..0 |-> <<>>[n]]
  OBVIOUS
<1>2. \A part : Places(part, <<>>) = {}
  BY <1>1 DEF Places
<1> QED
  BY <1>1, <1>2 DEF Text, IsArray, Balanced, Empty

\* A description made from a friendly name: not empty, its beginning, and with no
\* bracket left open.
LEMMA StrippedText ==
  ASSUME NEW s, Text(s), s # Empty
  PROVE  /\ Stripped(s) # Empty /\ IsPrefix(Stripped(s), s)
         /\ Balanced(Stripped(s))
<1> PICK start : start = PositionOf(Opened, s)
  OBVIOUS
<1> PICK close : close = PositionOf(Closed, s)
  OBVIOUS
<1>1. IsArray(s) /\ Balanced(s) /\ Len(s) \in Nat
  BY DEF Text, IsArray
<1>3. CASE start > 1 /\ close = Len(s)
  <2>1. Stripped(s) = SubSeq(s, 1, start - 1)
    BY <1>3 DEF Stripped
  <2>2. \/ start = 0 /\ Places(Opened, s) = {}
        \/ start \in Places(Opened, s) /\ \A n \in Places(Opened, s) : start <= n
    BY <1>1, PositionIsFirst
  <2>3. \/ close = 0 /\ Places(Closed, s) = {}
        \/ close \in Places(Closed, s) /\ \A n \in Places(Closed, s) : close <= n
    BY <1>1, PositionIsFirst
  <2>4. /\ start \in 1..Len(s) /\ s[start] = Opened
        /\ \A n \in 1..Len(s) : s[n] = Opened => start <= n
    BY <1>3, <2>2 DEF Places
  <2>5. \A n \in 1..Len(s) : s[n] = Closed => n = Len(s)
    <3>1. CASE close = 0
      BY <1>1, <1>3, <2>4, <3>1
    <3>2. CASE close \in Places(Closed, s) /\ \A n \in Places(Closed, s) : close <= n
      BY <1>1, <1>3, <3>2 DEF Places
    <3> QED
      BY <1>1, <1>3, <2>3, <2>4, <3>1, <3>2
  <2> DEFINE cut == SubSeq(s, 1, start - 1)
  <2>6. /\ Len(cut) = start - 1 /\ start - 1 \in 1..Len(s)
        /\ \A n \in 1..start - 1 : cut[n] = s[n]
    <3>1. s \in Seq({s[n] : n \in 1..Len(s)})
      BY <1>1, ArrayLength DEF IsArray
    <3>2. \A n \in 1..start - 1 : s[n] \in {s[m] : m \in 1..Len(s)}
      BY <1>1, <2>4
    <3>3. start - 1 \in Int /\ 1 <= start - 1 /\ start - 1 - 1 + 1 = start - 1
      BY <1>1, <1>3, <2>4
    <3>4. /\ Len(cut) = start - 1
          /\ \A n \in 1..start - 1 - 1 + 1 : cut[n] = s[1 + n - 1]
      BY <3>2, <3>3, SubSeqProperties
    <3> QED
      BY <1>1, <2>4, <3>3, <3>4
  <2>7. cut # Empty
    <3>1. Len(Empty) = 0
      BY DEF Empty
    <3> QED
      BY <2>6, <3>1
  <2>8. IsPrefix(cut, s)
    <3>1. SubSeq(cut, 1, Len(cut)) = SubSeq(s, 1, Len(cut))
      BY <2>6, <1>1
    <3> QED
      BY <2>6, <3>1, <1>1 DEF IsPrefix
  <2> HIDE DEF cut
  <2>9. Places(Opened, cut) = {} /\ Places(Closed, cut) = {}
    <3>1. ASSUME NEW n \in 1..Len(cut) PROVE cut[n] # Opened /\ cut[n] # Closed
      <4>1. n \in 1..Len(s) /\ n < start /\ n # Len(s) /\ cut[n] = s[n]
        BY <1>1, <2>4, <2>6
      <4> QED
        BY <1>1, <2>4, <2>5, <4>1
    <3> QED
      BY <3>1 DEF Places
  <2>10. Balanced(cut)
    BY <2>9 DEF Balanced
  <2> QED
    BY <2>1, <2>7, <2>8, <2>10 DEF cut
<1>4. CASE ~ (start > 1 /\ close = Len(s))
  <2>1. Stripped(s) = s
    BY <1>4 DEF Stripped
  <2> QED
    BY <1>1, <2>1 DEF IsPrefix
<1> QED
  BY <1>3, <1>4

\* An entry as an enumeration makes it: only SetupDi gives a description, and only it
\* may leave both names empty.
Raw(e) ==
    /\ e = Entry(e.strDevPath, e.strPortName, e.strFriendlyName, e.strPortDesc, e.bUsbDevice)
    /\ Text(e.strPortName) /\ Text(e.strFriendlyName) /\ Text(e.strPortDesc)
    /\ e.strPortName = Empty /\ e.strFriendlyName = Empty => os = "wdm"
    /\ e.strPortDesc = Empty \/ os = "wdm"

\* An entry as it is returned.
Shown(e) ==
    \/ os = "wdm" /\ e.strFriendlyName = Empty
    \/ /\ e.strFriendlyName # Empty
       /\ e.strPortDesc # Empty
       /\ IsPrefix(e.strPortDesc, e.strFriendlyName) \/ os = "wdm"
       /\ Balanced(e.strPortDesc)

\* The loop over what was found has named the entries before ii; those from ii on are
\* as they were found.
Presenting ==
    /\ os = "w9x" => reg \in Registries
    /\ os = "wdm" => devs \in DeviceLists
    /\ pc \notin {"check", "done", "thrown", "memory"} => ii = 1
    /\ pc = "done" => ii > Len(asi)
    /\ \A n \in 1..Len(asi) : IF n < ii THEN Shown(asi[n]) ELSE Raw(asi[n])

LEMMA NamedShown ==
  ASSUME NEW e, Raw(e)
  PROVE  Shown(Named(e))
<1> DEFINE friendly == IF e.strFriendlyName = Empty THEN e.strPortName ELSE e.strFriendlyName
           desc == IF e.strPortDesc = Empty THEN Stripped(friendly) ELSE e.strPortDesc
<1>1. Named(e).strFriendlyName = friendly /\ Named(e).strPortDesc = desc
  <2>1. PICK a, b, c, d, u : /\ e = Entry(a, b, c, d, u)
                             /\ e.strFriendlyName = c /\ e.strPortDesc = d
    BY DEF Raw
  <2>2. Named(e) = [e EXCEPT !.strFriendlyName = friendly, !.strPortDesc = desc]
    BY DEF Named
  <2> HIDE DEF friendly, desc
  <2> QED
    BY <2>1, <2>2 DEF Entry
<1>2. Text(friendly)
  BY DEF Raw
<1>3. CASE friendly = Empty
  <2>1. os = "wdm"
    BY <1>3 DEF Raw
  <2> HIDE DEF friendly, desc
  <2> QED
    BY <1>1, <1>3, <2>1 DEF Shown
<1>4. CASE friendly # Empty
  <2>1. CASE e.strPortDesc = Empty
    <3>1. desc = Stripped(friendly)
      BY <2>1
    <3> HIDE DEF friendly, desc
    <3> QED
      BY <1>1, <1>2, <1>4, <3>1, StrippedText DEF Shown
  <2>2. CASE e.strPortDesc # Empty
    <3>1. desc # Empty /\ os = "wdm" /\ Balanced(desc)
      BY <2>2 DEF Raw, Text
    <3> HIDE DEF friendly, desc
    <3> QED
      BY <1>1, <1>4, <3>1 DEF Shown
  <2> QED
    BY <2>1, <2>2
<1> QED
  BY <1>3, <1>4

LEMMA MadeRaw ==
  ASSUME NEW path, NEW port, NEW friendly, NEW desc, NEW usb,
         Text(port), Text(friendly), Text(desc),
         port = Empty /\ friendly = Empty => os = "wdm",
         desc = Empty \/ os = "wdm"
  PROVE  Raw(Entry(path, port, friendly, desc, usb))
BY DEF Raw, Entry

LEMMA NextPresenting ==
  ASSUME Sensible
  PROVE  Enumerable /\ Placed /\ Counting /\ Presenting /\ [Next]_vars => Presenting'
<1> SUFFICES ASSUME Enumerable, Placed, Counting, Presenting, [Next]_vars PROVE Presenting'
  OBVIOUS
<1> USE DEF held
<1>1. UNCHANGED <<os, reg, devs>> /\ (os = "w9x" => reg \in Registries)
      /\ (os = "wdm" => devs \in DeviceLists)
  BY GivenStays DEF given, Presenting
<1>2. IsArray(asi) /\ Len(asi) \in Nat /\ ii \in Nat \ {0}
  BY DEF Counting, IsArray
<1>3. ASSUME \A n \in 1..Len(asi') : IF n < ii' THEN Shown(asi'[n]) ELSE Raw(asi'[n]),
             pc' \notin {"check", "done", "thrown", "memory"} => ii' = 1,
             pc' = "done" => ii' > Len(asi')
      PROVE  Presenting'
  BY <1>1, <1>3 DEF Presenting, Raw, Shown
<1>4. ASSUME UNCHANGED <<asi, ii>>, pc' # "done",
             pc \in {"check", "done", "thrown", "memory"}
                => pc' \in {"check", "done", "thrown", "memory"}
      PROVE  Presenting'
  BY <1>3, <1>4 DEF Presenting
<1>5. CASE NoVersion \/ NoMemory \/ GetClassDevs \/ NoDetData \/ NoClassDevs \/ DevicesFail
           \/ DevicesEnd
           \/ OpenEnum \/ NoEnum \/ OpenSub \/ OpenSubSub \/ SkipSubSub \/ PnpsEnd
           \/ SubSubsEnd \/ SubsEnd \/ KeyFails
  BY <1>4, <1>5 DEF NoVersion, NoMemory, GetClassDevs, NoDetData, NoClassDevs, DevicesFail,
                    DevicesEnd, Found, OpenEnum, NoEnum, OpenSub, OpenSubSub, SkipSubSub, PnpsEnd, SubSubsEnd,
                    SubsEnd, KeyFails
<1>6. CASE EnumPortsWNt4
  <2>1. /\ asi' = [n \in 1..LastCom |->
                     Entry(Path(ComPort(n)), ComPort(n), Empty, Empty, FALSE)]
        /\ pc' = "check" /\ ii' = 1
    BY <1>6 DEF EnumPortsWNt4, Found, Presenting
  <2>2. Len(asi') = LastCom
    BY <2>1, LastComAssumption, ArrayLength
  <2>3. ASSUME NEW n \in 1..LastCom PROVE Raw(asi'[n])
    <3>1. Text(ComPort(n)) /\ ComPort(n) # Empty
      BY DEF Sensible, ComPort, Empty
    <3>2. asi'[n] = Entry(Path(ComPort(n)), ComPort(n), Empty, Empty, FALSE)
      BY <2>1
    <3> QED
      BY <3>1, <3>2, EmptyText, MadeRaw
  <2>4. pc' = "check" /\ ii' = 1
    BY <2>1
  <2>5. \A n \in 1..Len(asi') : ~ (n < ii') /\ Raw(asi'[n])
    BY <2>2, <2>3, <2>4, LastComAssumption
  <2> QED
    BY <1>3, <2>4, <2>5
<1>7. ASSUME NEW si, Raw(si), pc \in {"devices", "pnps"}, UNCHANGED <<pc, ii>>,
             \/ asi' = Append(asi, si)
             \/ asi' = Put(si)
      PROVE  Presenting'
  <2>1. ii = 1 /\ \A n \in 1..Len(asi) : Raw(asi[n])
    BY <1>7 DEF Presenting
  <2>2. \A n \in 1..Len(asi') : Raw(asi'[n])
    <3>1. CASE asi' = Append(asi, si)
      BY <1>2, <1>7, <2>1, <3>1, ArrayAppend
    <3>2. CASE asi' = Put(si)
      <4>1. \A n \in 1..Len(Put(si)) : Put(si)[n] = si \/ (n \in 1..Len(asi) /\ Put(si)[n] = asi[n])
        BY <1>2, PutEntries
      <4> QED
        BY <1>7, <2>1, <3>2, <4>1
    <3> QED
      BY <1>7, <3>1, <3>2
  <2> QED
    BY <1>3, <1>7, <2>1, <2>2
<1>8. CASE Device
  <2>1. /\ pc = "devices" /\ UNCHANGED <<pc, ii>> /\ os = "wdm" /\ at[1] \in 1..Len(devs)
    BY <1>8 DEF Device, Placed, Enumerable
  <2> DEFINE d == devs[at[1]]
  <2>2. CASE Missing \in {d.friendly, d.desc}
    <3>1. UNCHANGED asi
      BY <1>8, <2>2 DEF Device
    <3> QED
      BY <1>4, <2>1, <3>1
  <2>3. CASE Missing \notin {d.friendly, d.desc}
    <3>1. asi' = Append(asi, Entry(d.path, Empty, d.friendly, d.desc, d.usb))
      BY <1>8, <2>3 DEF Device
    <3>2. Text(d.friendly) /\ Text(d.desc)
      BY <1>1, <2>1, <2>3 DEF Sensible
    <3>3. Raw(Entry(d.path, Empty, d.friendly, d.desc, d.usb))
      BY <2>1, <3>2, EmptyText, MadeRaw
    <3> QED
      BY <1>7, <2>1, <3>1, <3>3
  <2> QED
    BY <2>2, <2>3
<1>9. CASE ReadPnp
  <2>1. /\ pc = "pnps" /\ UNCHANGED <<pc, ii>> /\ os = "w9x"
        /\ at[3] <= Len(SubSub.keys)
    BY <1>9 DEF ReadPnp, Placed
  <2>2. CASE Pnp.port = Missing
    <3>1. UNCHANGED asi
      BY <1>9, <2>2 DEF ReadPnp
    <3> QED
      BY <1>4, <2>1, <3>1
  <2>3. CASE Pnp.port # Missing
    <3> DEFINE friendly == IF Pnp.friendly = Missing THEN Empty ELSE Pnp.friendly
               si == Entry(Path(Pnp.port), Pnp.port, friendly, Empty, Sub.usb)
    <3>1. asi' = Put(si)
      BY <1>9, <2>3 DEF ReadPnp
    <3>2. at[1] \in 1..Len(reg)
      BY <2>1 DEF Placed, Enumerable
    <3>3. at[2] \in 1..Len(reg[at[1]].subs)
      <4>1. Len(reg[at[1]].subs) \in Nat
        BY <3>2 DEF Enumerable
      <4> QED
        BY <2>1, <4>1 DEF Placed, Sub
    <3>4. at[3] \in 1..Len(reg[at[1]].subs[at[2]].keys)
      <4>1. Len(reg[at[1]].subs[at[2]].keys) \in Nat
        BY <3>2, <3>3 DEF Enumerable
      <4> QED
        BY <2>1, <4>1 DEF Placed, SubSub, Sub
    <3>5. Pnp = reg[at[1]].subs[at[2]].keys[at[3]]
      BY DEF Pnp, SubSub, Sub
    <3>6. /\ Pnp.port # Missing => Text(Pnp.port) /\ Pnp.port # Empty
          /\ Pnp.friendly # Missing => Text(Pnp.friendly)
      BY <1>1, <2>1, <3>2, <3>3, <3>4, <3>5 DEF Sensible
    <3>7. Text(friendly)
      BY <3>6, EmptyText
    <3> HIDE DEF friendly
    <3>8. Raw(si)
      BY <2>3, <3>6, <3>7, EmptyText, MadeRaw
    <3> HIDE DEF si
    <3> QED
      BY <1>7, <2>1, <3>1, <3>8
  <2> QED
    BY <2>2, <2>3
<1>10. CASE NamePort
  <2>1. /\ pc = "check" /\ UNCHANGED pc /\ ii \in 1..Len(asi) /\ ii' = ii + 1
        /\ asi' = [asi EXCEPT ![ii] = Named(@)]
    BY <1>2, <1>10 DEF NamePort
  <2>2. asi' = [n \in 1..Len(asi) |-> IF n = ii THEN Named(asi[ii]) ELSE asi[n]]
    <3>1. PICK L : L = Len(asi)
      OBVIOUS
    <3>2. asi = [n \in 1..L |-> asi[n]]
      BY <1>2, <3>1 DEF IsArray
    <3>3. ii \in 1..L
      BY <2>1, <3>1
    <3>4. asi' = [n \in 1..L |-> IF n = ii THEN Named(asi[ii]) ELSE asi[n]]
      BY <2>1, <3>2, <3>3
    <3> QED
      BY <3>1, <3>4
  <2>3. Len(asi') = Len(asi)
    <3>1. asi' = [n \in 1..Len(asi) |-> asi'[n]]
      BY <2>2
    <3> QED
      BY <1>2, <3>1, ArrayLength
  <2>4. Shown(Named(asi[ii]))
    <3>1. Raw(asi[ii])
      BY <1>2, <2>1 DEF Presenting
    <3> QED
      BY <3>1, NamedShown
  <2>5. ASSUME NEW n \in 1..Len(asi)
        PROVE  IF n < ii' THEN Shown(asi'[n]) ELSE Raw(asi'[n])
    <3>1. CASE n = ii
      BY <1>2, <2>1, <2>2, <2>4, <3>1
    <3>2. CASE n # ii
      <4>1. asi'[n] = asi[n] /\ (n < ii' <=> n < ii)
        BY <1>2, <2>1, <2>2, <3>2
      <4> QED
        BY <4>1 DEF Presenting
    <3> QED
      BY <3>1, <3>2
  <2> QED
    BY <1>3, <2>1, <2>3, <2>5
<1>11. CASE Return
  <2>1. pc' = "done" /\ ii > Len(asi) /\ UNCHANGED <<asi, ii>>
    BY <1>11 DEF Return
  <2> QED
    BY <1>3, <2>1 DEF Presenting
<1>12. CASE UNCHANGED vars
  <2>1. UNCHANGED <<pc, asi, ii>>
    BY <1>12 DEF vars
  <2> QED
    BY <1>3, <2>1 DEF Presenting
<1> QED
  BY <1>5, <1>6, <1>8, <1>9, <1>10, <1>11, <1>12 DEF Next, EnumPortsWdm, EnumPortsW9x

\* Of a system whose names are sensible, every port that is returned has something to
\* show, and a description with no bracket left open by what was cut off, unless
\* SetupDi reported an empty friendly name (EnumSerial.cpp:121).
THEOREM PresentableHolds ==
  ASSUME Sensible
  PROVE  Spec => []Presentable
<1>1. Init => Presenting
  <2> SUFFICES ASSUME Init PROVE Presenting
    OBVIOUS
  <2>1. asi = <<>> /\ Len(<<>>) = 0 /\ pc = "start" /\ ii = 1
    BY DEF Init
  <2> QED
    BY <2>1 DEF Init, Presenting
<1>2. Init => Enumerable /\ Placed /\ Counting
  BY InitEnumerable, InitPlaced
<1>3. Counting /\ Presenting => Presentable
  <2> SUFFICES ASSUME Counting, Presenting, pc = "done", NEW n \in 1..Len(asi)
               PROVE  Shown(asi[n])
    BY DEF Presentable, Shown
  <2>1. n < ii
    BY DEF Counting, Presenting, IsArray
  <2> QED
    BY <2>1 DEF Presenting
<1>4. Enumerable /\ Placed /\ Counting /\ Presenting /\ [Next]_vars => Presenting'
  BY NextPresenting
<1> QED
  BY <1>1, <1>2, <1>3, <1>4, NextEnumerable, NextPlaced, NextCounting, PTL DEF Spec
=============================================================================
