------------------------------ MODULE EnumSerial ------------------------------
(***************************************************************************)
(* EnumSerialPorts (EnumSerial.cpp): one enumeration of the serial ports,  *)
(* which on Windows 9x walks three levels of the registry, on NT4 makes up *)
(* a list, and on later systems asks SetupDi; then it names what was       *)
(* found.  Every call into the system may fail, but for the enumeration of *)
(* keys, whose failure the code takes for the end.  Errors are thrown, and *)
(* what was opened is to be closed on every way out.  The one caller asks  *)
(* for all ports, so busy ones are never looked for.                       *)
(***************************************************************************)
EXTENDS Naturals, Sequences, FiniteSets, SequencesExt

CONSTANTS
    Registries,     \* what HKLM\Enum may hold: sequences of [usb, subs], subs of
                    \* [pnp, keys], keys of [port, friendly]
    DeviceLists,    \* what SetupDi may list: sequences of [path, friendly, desc, usb]
    Missing,        \* a value or property that is not there
    LastCom         \* the last port tried on NT4 (16 in the program)

Empty == <<>>       \* the empty string; others are sequences of their parts
ComPort(n) == <<"COM", ToString(n)>>

ASSUME LastComAssumption == LastCom \in Nat
\* What the system enumerates comes to an end.
ASSUME RegistriesAssumption ==
    \A r \in Registries :
        /\ Len(r) \in Nat
        /\ \A i \in 1..Len(r) :
            /\ Len(r[i].subs) \in Nat
            /\ \A j \in 1..Len(r[i].subs) : Len(r[i].subs[j].keys) \in Nat
ASSUME DeviceListsAssumption == \A l \in DeviceLists : Len(l) \in Nat

VARIABLES
    os,             \* "w9x", "nt4" or "wdm"
    reg, devs,      \* history: the registry and the device list, which do not change
    pc,             \* the loop that runs, or how it ended: "done", "thrown" with an
                    \* error of its own, or "memory" with the library's exception
    at,             \* the indices of the loops over keys and devices
    ii,             \* EnumSerialPorts's loop over what was found
    asi,            \* the array filled
    keys,           \* registry keys open, by the indices that lead to them
    hDevInfo,       \* the device information set is allocated
    pDetData,       \* the buffer for a device's details is allocated
    found           \* history: asi as the enumeration proper left it

given == <<os, reg, devs>>
held == <<keys, hDevInfo, pDetData>>
vars == <<given, pc, at, ii, asi, held, found>>

\* The key of HKLM\Enum, and of the sub- and sub-subkey the loops are at.
hkEnum == <<>>
Sub == reg[at[1]]
SubSub == Sub.subs[at[2]]
Pnp == SubSub.keys[at[3]]

Path(name) == <<"path">> \o name
Entry(path, port, friendly, desc, usb) ==
    [strDevPath |-> path, strPortName |-> port, strFriendlyName |-> friendly,
     strPortDesc |-> desc, bUsbDevice |-> usb]

Init ==
    /\ os \in {"w9x", "nt4", "wdm"}
    /\ reg \in IF os = "w9x" THEN Registries ELSE {<<>>}
    /\ devs \in IF os = "wdm" THEN DeviceLists ELSE {<<>>}
    /\ pc = "start"
    /\ at = <<1, 1, 1>>
    /\ ii = 1
    /\ asi = <<>>
    /\ keys = {}
    /\ hDevInfo = FALSE /\ pDetData = FALSE
    /\ found = <<>>

\* The enumeration proper is over: on to the loop over what was found.
Found ==
    /\ pc' = "check"
    /\ found' = asi'
    /\ UNCHANGED ii
-----------------------------------------------------------------------------
\* GetVersionEx fails.
NoVersion ==
    /\ pc = "start"
    /\ pc' = "thrown"
    /\ UNCHANGED <<given, at, ii, asi, held, found>>

\* EnumPortsWNt4: ports 1 to 16, there or not.
EnumPortsWNt4 ==
    /\ pc = "start" /\ os = "nt4"
    /\ asi' = [n \in 1..LastCom |->
                  Entry(Path(ComPort(n)), ComPort(n), Empty, Empty, FALSE)]
    /\ Found
    /\ UNCHANGED <<given, at, held>>
-----------------------------------------------------------------------------
(***************************************************************************)
(* EnumPortsWdm.                                                           *)
(***************************************************************************)
GetClassDevs ==
    /\ pc = "start" /\ os = "wdm"
    /\ hDevInfo' = TRUE
    /\ pDetData' = TRUE
    /\ pc' = "devices"
    /\ UNCHANGED <<given, at, ii, asi, keys, found>>

\* The buffer cannot be allocated: the exception of new is no CString, and passes
\* the handler that would release the set.
NoDetData ==
    /\ pc = "start" /\ os = "wdm"
    /\ hDevInfo' = TRUE
    /\ pc' = "memory"
    /\ UNCHANGED <<given, at, ii, asi, keys, pDetData, found>>

NoClassDevs ==
    /\ pc = "start" /\ os = "wdm"
    /\ pc' = "thrown"
    /\ UNCHANGED <<given, at, ii, asi, held, found>>

\* A device without a friendly name or a description is passed over.
Device ==
    /\ pc = "devices"
    /\ at[1] <= Len(devs)
    /\ LET d == devs[at[1]]
       IN asi' = IF Missing \in {d.friendly, d.desc} THEN asi
                 ELSE Append(asi, Entry(d.path, Empty, d.friendly, d.desc, d.usb))
    /\ at' = [at EXCEPT ![1] = @ + 1]
    /\ UNCHANGED <<given, pc, ii, held, found>>

\* Mutant: the error is thrown from inside the loop, past the two releases.
DevicesFailLeaks ==
    /\ pc = "devices"
    /\ pc' = "thrown"
    /\ UNCHANGED <<given, at, ii, asi, held, found>>

\* SetupDi fails for a device, or in another way than with the list's end: the
\* error is caught and thrown again when both are released.
DevicesFail ==
    /\ pc = "devices"
    /\ hDevInfo' = FALSE /\ pDetData' = FALSE
    /\ pc' = "thrown"
    /\ UNCHANGED <<given, at, ii, asi, keys, found>>

DevicesEnd ==
    /\ pc = "devices"
    /\ at[1] > Len(devs)
    /\ hDevInfo' = FALSE /\ pDetData' = FALSE
    /\ UNCHANGED <<given, at, asi, keys>>
    /\ Found

EnumPortsWdm ==
    GetClassDevs \/ NoDetData \/ NoClassDevs \/ Device \/ DevicesFail \/ DevicesEnd
-----------------------------------------------------------------------------
(***************************************************************************)
(* EnumPortsW9x and SearchPnpKeyW9x.  The variables that hold the sub- and *)
(* sub-subkey in the loops shadow those the handler closes.                *)
(***************************************************************************)
OpenEnum ==
    /\ pc = "start" /\ os = "w9x"
    /\ keys' = {hkEnum}
    /\ pc' = "subs"
    /\ UNCHANGED <<given, at, ii, asi, hDevInfo, pDetData, found>>

NoEnum ==
    /\ pc = "start" /\ os = "w9x"
    /\ pc' = "thrown"
    /\ UNCHANGED <<given, at, ii, asi, held, found>>

OpenSub ==
    /\ pc = "subs"
    /\ at[1] <= Len(reg)
    /\ keys' = keys \union {<<at[1]>>}
    /\ at' = [at EXCEPT ![2] = 1]
    /\ pc' = "subsubs"
    /\ UNCHANGED <<given, ii, asi, hDevInfo, pDetData, found>>

\* Any key of *PNP0500, *PNP0501 or USBPORTS.
bMatch == Sub.usb \/ SubSub.pnp

OpenSubSub ==
    /\ pc = "subsubs"
    /\ at[2] <= Len(Sub.subs)
    /\ bMatch
    /\ keys' = keys \union {<<at[1], at[2]>>}
    /\ at' = [at EXCEPT ![3] = 1]
    /\ pc' = "pnps"
    /\ UNCHANGED <<given, ii, asi, hDevInfo, pDetData, found>>

SkipSubSub ==
    /\ pc = "subsubs"
    /\ at[2] <= Len(Sub.subs)
    /\ ~ bMatch
    /\ at' = [at EXCEPT ![2] = @ + 1]
    /\ UNCHANGED <<given, pc, ii, asi, held, found>>

\* Mutant: every key with a port adds an entry.
PutAppends(si) == Append(asi, si)

\* An entry for a port that is in the array already overwrites it.
Put(si) ==
    IF \E n \in 1..Len(asi) : asi[n].strPortName = si.strPortName
    THEN [n \in 1..Len(asi) |-> IF asi[n].strPortName = si.strPortName THEN si ELSE asi[n]]
    ELSE Append(asi, si)

\* A key is opened, read and closed; a friendly name that is not there is empty.
ReadPnp ==
    /\ pc = "pnps"
    /\ at[3] <= Len(SubSub.keys)
    /\ asi' = IF Pnp.port = Missing THEN asi
              ELSE Put(Entry(Path(Pnp.port), Pnp.port,
                             IF Pnp.friendly = Missing THEN Empty ELSE Pnp.friendly,
                             Empty, Sub.usb))
    /\ at' = [at EXCEPT ![3] = @ + 1]
    /\ UNCHANGED <<given, pc, ii, held, found>>

PnpsEnd ==
    /\ pc = "pnps"
    /\ at[3] > Len(SubSub.keys)
    /\ keys' = keys \ {<<at[1], at[2]>>}
    /\ at' = [at EXCEPT ![2] = @ + 1]
    /\ pc' = "subsubs"
    /\ UNCHANGED <<given, ii, asi, hDevInfo, pDetData, found>>

SubSubsEnd ==
    /\ pc = "subsubs"
    /\ at[2] > Len(Sub.subs)
    /\ keys' = keys \ {<<at[1]>>}
    /\ at' = [at EXCEPT ![1] = @ + 1]
    /\ pc' = "subs"
    /\ UNCHANGED <<given, ii, asi, hDevInfo, pDetData, found>>

SubsEnd ==
    /\ pc = "subs"
    /\ at[1] > Len(reg)
    /\ keys' = keys \ {hkEnum}
    /\ UNCHANGED <<given, at, asi, hDevInfo, pDetData>>
    /\ Found

\* A key that was enumerated cannot be opened: the handler closes hkEnum and two
\* variables that are still NULL.
KeyFails ==
    /\ \/ pc = "subs" /\ at[1] <= Len(reg)
       \/ pc = "subsubs" /\ at[2] <= Len(Sub.subs) /\ bMatch
       \/ pc = "pnps" /\ at[3] <= Len(SubSub.keys)
    /\ keys' = keys \ {hkEnum}
    /\ pc' = "thrown"
    /\ UNCHANGED <<given, at, ii, asi, hDevInfo, pDetData, found>>

EnumPortsW9x ==
    \/ OpenEnum \/ NoEnum
    \/ OpenSub \/ OpenSubSub \/ SkipSubSub \/ ReadPnp
    \/ PnpsEnd \/ SubSubsEnd \/ SubsEnd
    \/ KeyFails
-----------------------------------------------------------------------------
(***************************************************************************)
(* EnumSerialPorts's loop over what was found.                             *)
(***************************************************************************)
\* "ACME Port (COM3)" without " (COM3)"; Find gives the first of a part.
Opened == " ("
Closed == ")"
PositionOf(part, s) == SelectInSeq(s, LAMBDA x : x = part)
Stripped(s) ==
    LET startdex == PositionOf(Opened, s)
    IN IF startdex > 1 /\ PositionOf(Closed, s) = Len(s) THEN SubSeq(s, 1, startdex - 1) ELSE s

\* Mutant: the description is made from the friendly name as it was found.
NamedEarly(e) ==
    [e EXCEPT !.strFriendlyName = IF @ = Empty THEN e.strPortName ELSE @,
              !.strPortDesc = IF @ = Empty THEN Stripped(e.strFriendlyName) ELSE @]

\* No friendly name: the port's name.  No description: one from the friendly name.
Named(e) ==
    LET friendly == IF e.strFriendlyName = Empty THEN e.strPortName ELSE e.strFriendlyName
    IN [e EXCEPT !.strFriendlyName = friendly,
                 !.strPortDesc = IF @ = Empty THEN Stripped(friendly) ELSE @]

NamePort ==
    /\ pc = "check"
    /\ ii <= Len(asi)
    /\ asi' = [asi EXCEPT ![ii] = Named(@)]
    /\ ii' = ii + 1
    /\ UNCHANGED <<given, pc, at, held, found>>

Return ==
    /\ pc = "check"
    /\ ii > Len(asi)
    /\ pc' = "done"
    /\ UNCHANGED <<given, at, ii, asi, held, found>>

\* A string or an entry of the array cannot be allocated, anywhere: no handler
\* takes that exception, and the key being read stays open too.
NoMemory ==
    /\ pc \notin {"done", "thrown", "memory"}
    /\ pc' = "memory"
    /\ \/ UNCHANGED keys
       \/ /\ pc = "pnps" /\ at[3] <= Len(SubSub.keys)
          /\ keys' = keys \union {at}
    /\ UNCHANGED <<given, at, ii, asi, hDevInfo, pDetData, found>>

Next ==
    \/ NoVersion \/ NoMemory
    \/ EnumPortsWNt4 \/ EnumPortsWdm \/ EnumPortsW9x
    \/ NamePort \/ Return

Spec == Init /\ [][Next]_vars
-----------------------------------------------------------------------------
\* Every variable has its type; a loop's indices stay at or just behind its end.
TypeOK ==
    /\ pc \in {"start", "devices", "subs", "subsubs", "pnps", "check", "done", "thrown",
             "memory"}
    /\ at[1] \in 1..Len(reg) + Len(devs) + 1
    /\ pc \in {"subsubs", "pnps"} => at[1] <= Len(reg) /\ at[2] \in 1..Len(Sub.subs) + 1
    /\ pc = "pnps" => at[2] <= Len(Sub.subs) /\ at[3] \in 1..Len(SubSub.keys) + 1
    /\ ii \in 1..Len(asi) + 1
    /\ hDevInfo \in BOOLEAN /\ pDetData \in BOOLEAN

\* Nothing stays allocated, and no key open, on any way out but where memory runs
\* out (the handlers take CString only, EnumSerial.cpp:233), except that an error
\* of Windows 9x's walk leaves open the keys between HKLM\Enum and the one that
\* failed: the catch block closes variables that those in the loops shadow
\* (EnumSerial.cpp:283 and 301), so it never closes any.
ReleasedOnEveryWay ==
    pc \in {"done", "thrown"} =>
        /\ ~ hDevInfo /\ ~ pDetData
        /\ \/ keys = {}
           \/ pc = "thrown" /\ keys \in {{<<at[1]>>}, {<<at[1]>>, <<at[1], at[2]>>}}

\* The registry keys with a port name below the subkeys searched, by the indices
\* that lead to them, and the order of the walk: what EnumPortsW9x is to report.
KeyAt(p) == reg[p[1]].subs[p[2]].keys[p[3]]
Keys == UNION {UNION {{<<i, j, k>> : k \in 1..Len(reg[i].subs[j].keys)} :
                      j \in 1..Len(reg[i].subs)} : i \in 1..Len(reg)}
Listed == {p \in Keys : /\ reg[p[1]].usb \/ reg[p[1]].subs[p[2]].pnp
                        /\ KeyAt(p).port # Missing}
Before(p, q) == \/ p[1] < q[1]
                \/ p[1] = q[1] /\ p[2] < q[2]
                \/ p[1] = q[1] /\ p[2] = q[2] /\ p[3] < q[3]

\* An array has each port of some keys once, with what the last key that names it
\* says.
Reports(array, some) ==
    /\ {array[n].strPortName : n \in 1..Len(array)} = {KeyAt(p).port : p \in some}
    /\ \A a, b \in 1..Len(array) : array[a].strPortName = array[b].strPortName => a = b
    /\ \A n \in 1..Len(array) : \E p \in some :
          /\ KeyAt(p).port = array[n].strPortName
          /\ \A q \in some : Before(p, q) => KeyAt(q).port # KeyAt(p).port
          /\ array[n].strFriendlyName = IF KeyAt(p).friendly = Missing THEN Empty
                                        ELSE KeyAt(p).friendly

\* A walk that worked reports every port once, with what the last key that names
\* it says ("Overwrite duplicates", EnumSerial.cpp:380).
LastKeyWins == os = "w9x" /\ pc \in {"check", "done"} => Reports(found, Listed)

\* As many brackets are closed as opened.
Places(part, s) == {n \in 1..Len(s) : s[n] = part}
Balanced(s) == Cardinality(Places(Opened, s)) = Cardinality(Places(Closed, s))

\* What is returned has something to show, and a description with no bracket left
\* open by what was cut off, unless SetupDi reported an empty friendly name, for
\* which there is no port name to take either (EnumSerial.cpp:121).
Presentable ==
    pc = "done" => \A n \in 1..Len(asi) :
        \/ os = "wdm" /\ asi[n].strFriendlyName = Empty
        \/ /\ asi[n].strFriendlyName # Empty
           /\ asi[n].strPortDesc # Empty
           /\ IsPrefix(asi[n].strPortDesc, asi[n].strFriendlyName) \/ os = "wdm"
           /\ Balanced(asi[n].strPortDesc)

\* A system whose names are sensible: every name has as many brackets closed as
\* opened, and a port has a name.
IsArray(s) == Len(s) \in Nat /\ s = [n \in 1..Len(s) |-> s[n]]
Text(s) == IsArray(s) /\ Balanced(s)
Sensible ==
    /\ \A r \in Registries : \A i \in 1..Len(r) : \A j \in 1..Len(r[i].subs) :
       \A k \in 1..Len(r[i].subs[j].keys) :
          LET key == r[i].subs[j].keys[k]
          IN /\ key.port # Missing => Text(key.port) /\ key.port # Empty
             /\ key.friendly # Missing => Text(key.friendly)
    /\ \A l \in DeviceLists : \A i \in 1..Len(l) :
          /\ l[i].friendly # Missing => Text(l[i].friendly)
          /\ l[i].desc # Missing => Text(l[i].desc)
    /\ \A n \in 1..LastCom : Text(ComPort(n))
=============================================================================
