------------------------------- MODULE LinkList -------------------------------
(***************************************************************************)
(* What the combo box offers to open: serial ports, one HID device, and    *)
(* the names of TCP peers.  OnBnClickedLink (wgwDlg.cpp), also called by   *)
(* OnInitDialog, empties the box and fills it from the ports and from      *)
(* InitSelDev, which asks for HID devices by index while they may be       *)
(* plugged and unplugged.  CTcpThread (tcpServer.cpp) accepts connections  *)
(* in a thread of its own and posts each peer's name to the dialog.        *)
(* Connections are numbered in the order in which they were accepted.      *)
(***************************************************************************)
EXTENDS Naturals, Sequences, FiniteSets, Bags, SequencesExt

CONSTANTS
    Ports,      \* friendly names of the serial ports there may be
    Hids,       \* HID devices, named by their path
    Peers,      \* names (address and port) of TCP peers
    Garbage,    \* what is printed from an address that was never filled in
    NoPath,     \* InitSelDev's buffer before a path is in it
    MaxLinks    \* bound on the connections accepted

ASSUME NamesAssumption ==
    /\ Ports \cap Hids = {} /\ Ports \cap Peers = {} /\ Hids \cap Peers = {}
    /\ Garbage \notin Ports \union Hids \union Peers
    /\ NoPath \notin Hids
ASSUME HidsAssumption == IsFiniteSet(Hids)
ASSUME LinksAssumption == MaxLinks \in Nat

VARIABLES
    listener,   \* "none" before OnInitDialog began the threads, "on", or "ended"
    names,      \* the name made for each connection accepted
    conns,      \* connections with a bufferevent
    gone,       \* connections whose peer closed or reset them
    queue,      \* WM_USER_NEWLINK messages in the window's queue
    items,      \* the combo box, a bag of names
    step,       \* in OnBnClickedLink: "enum", "path", "create"; "idle" outside
    deviceNo,   \* InitSelDev's local, 0 outside
    buf,        \* InitSelDev's local: the path got last, NoPath outside
    hids,       \* the system's list of the HID devices plugged in
    busy,       \* devices that somebody has opened without sharing
    ports,      \* the serial ports present
    shown,      \* history: connections added to the box since it was last emptied
    wiped,      \* history: connections whose name went when the box was emptied
    unposted,   \* history: connections whose message could not be posted
    scan        \* history of the last scan: the ports and the device it added,
                \* the first device it could have opened, those it could have at
                \* any time, how the list changed meanwhile and whether asking for
                \* a path failed

tcp == <<listener, names, conns, gone, unposted>>
box == <<items, shown, wiped>>
local == <<step, deviceNo, buf>>
system == <<hids, busy, ports>>
vars == <<tcp, queue, box, local, system, scan>>

Openable == {d \in ToSet(hids) : d \notin busy}
First(free) ==
    {hids[i] : i \in {i \in 1..Len(hids) : /\ hids[i] \in free
                                         /\ \A j \in 1..i - 1 : hids[j] \notin free}}

Init ==
    /\ listener = "none"
    /\ names = <<>> /\ conns = {} /\ gone = {} /\ unposted = {}
    /\ queue = <<>>
    /\ items = EmptyBag
    /\ step = "enum"
    /\ deviceNo = 0
    /\ buf = NoPath
    /\ hids \in SetToAllKPermutations(Hids)
    /\ busy \in SUBSET Hids
    /\ ports \in SUBSET Ports
    /\ shown = {} /\ wiped = {}
    /\ scan = [ports |-> {}, hid |-> {}, first |-> {}, steady |-> {},
               changed |-> FALSE, shifted |-> FALSE, failed |-> FALSE]
-----------------------------------------------------------------------------
(***************************************************************************)
(* The dialog's thread.                                                    *)
(***************************************************************************)
\* OnInitDialog goes on behind its scan: it starts CTcpThread, whose Run may fail
\* to bind and then returns.
BeginThread ==
    /\ listener = "none"
    /\ step = "idle"
    /\ listener' \in {"on", "ended"}
    /\ UNCHANGED <<names, conns, gone, unposted, queue, box, local, system, scan>>

OnBnClickedLink ==
    /\ listener # "none"
    /\ step = "idle"
    /\ step' = "enum"
    /\ UNCHANGED <<tcp, queue, box, deviceNo, buf, system, scan>>

\* EnumSerialPorts throws and nobody catches it: the handler is left with the box
\* as it was; in OnInitDialog the threads are then never begun.
EnumThrows ==
    /\ step = "enum"
    /\ step' = "idle"
    /\ listener' = IF listener = "none" THEN "ended" ELSE listener
    /\ UNCHANGED <<names, conns, gone, unposted, queue, box, deviceNo, buf, system, scan>>

\* The ports are listed, the box emptied, peers' names with it, and filled.
EnumPorts ==
    /\ step = "enum"
    /\ items' = SetToBag(ports)
    /\ wiped' = wiped \union shown
    /\ shown' = {}
    /\ deviceNo' = 0
    /\ step' = "path"
    /\ scan' = [ports |-> ports, hid |-> {}, first |-> First(Openable),
                steady |-> Openable, changed |-> FALSE, shifted |-> FALSE,
                failed |-> FALSE]
    /\ UNCHANGED <<tcp, queue, buf, system>>

\* The end of OnBnClickedLink and of its locals.
Return == step' = "idle" /\ deviceNo' = 0 /\ buf' = NoPath

\* CH9326GetDevicePath for the index, in the list as it is now.
GetDevicePath ==
    /\ step = "path"
    /\ IF deviceNo < Len(hids)
       THEN buf' = hids[deviceNo + 1] /\ step' = "create" /\ UNCHANGED deviceNo
       ELSE Return
    /\ UNCHANGED <<tcp, queue, box, system, scan>>

\* CH9326GetDevicePath fails for an index that is in the list (the device vanishes
\* inside the call, or the system refuses): the loop is left as at the list's end.
GetDevicePathFails ==
    /\ step = "path"
    /\ deviceNo < Len(hids)
    /\ Return
    /\ scan' = [scan EXCEPT !.failed = TRUE]
    /\ UNCHANGED <<tcp, queue, box, system>>

\* Mutant: the loop is left when a device cannot be opened.
CreateFileBreaks ==
    /\ step = "create"
    /\ buf \notin Openable
    /\ Return
    /\ UNCHANGED <<tcp, queue, box, system, scan>>

\* Mutant: deviceNo++ is missing.
CreateFileStays ==
    /\ step = "create"
    /\ buf \notin Openable
    /\ step' = "path"
    /\ UNCHANGED <<tcp, queue, box, deviceNo, buf, system, scan>>

\* Mutant: deviceNo++ in the branch and once more in the loop.
CreateFileSkips ==
    /\ step = "create"
    /\ buf \notin Openable
    /\ deviceNo' = deviceNo + 2
    /\ step' = "path"
    /\ UNCHANGED <<tcp, queue, box, buf, system, scan>>

\* CreateFile fails: on to the next index.
CreateFileFails ==
    /\ step = "create"
    /\ buf \notin Openable
    /\ deviceNo' = deviceNo + 1
    /\ step' = "path"
    /\ UNCHANGED <<tcp, queue, box, buf, system, scan>>

\* CreateFile succeeds: the path is added and the loop left.
CreateFile ==
    /\ step = "create"
    /\ buf \in Openable
    /\ items' = items (+) SetToBag({buf})
    /\ Return
    /\ scan' = [scan EXCEPT !.hid = {buf}]
    /\ UNCHANGED <<tcp, queue, shown, wiped, system>>

InitSelDev == GetDevicePath \/ GetDevicePathFails \/ CreateFileFails \/ CreateFile

\* Mutant: a name that is in the box is not added again.
OnUsernNewLinkOnce ==
    /\ step = "idle" /\ listener # "none"
    /\ queue # <<>>
    /\ items' = IF BagIn(names[Head(queue)], items) THEN items
                ELSE items (+) SetToBag({names[Head(queue)]})
    /\ shown' = shown \union {Head(queue)}
    /\ queue' = Tail(queue)
    /\ UNCHANGED <<tcp, wiped, local, system, scan>>

\* Mutant: names that come after the listener ended are not shown.
OnUsernNewLinkOn ==
    /\ step = "idle" /\ listener = "on"
    /\ queue # <<>>
    /\ items' = items (+) SetToBag({names[Head(queue)]})
    /\ shown' = shown \union {Head(queue)}
    /\ queue' = Tail(queue)
    /\ UNCHANGED <<tcp, wiped, local, system, scan>>

\* The oldest name posted is added to the box.
OnUsernNewLink ==
    /\ step = "idle" /\ listener # "none"
    /\ queue # <<>>
    /\ items' = items (+) SetToBag({names[Head(queue)]})
    /\ shown' = shown \union {Head(queue)}
    /\ queue' = Tail(queue)
    /\ UNCHANGED <<tcp, wiped, local, system, scan>>
-----------------------------------------------------------------------------
(***************************************************************************)
(* CTcpThread: libevent's loop calls one callback at a time.               *)
(***************************************************************************)
Link == Len(names) + 1

\* getPeerName: where the peer has reset the connection already, getpeername
\* fails, which is not looked at, and the address printed was never filled in.
getPeerName(p, reset) == IF reset THEN Peers \union {Garbage} ELSE {p}

\* Mutant: the message is posted once more when the connection is enabled.
listener_cbTwice(p, reset) ==
    /\ listener = "on"
    /\ Link <= MaxLinks
    /\ \E name \in getPeerName(p, reset) : names' = Append(names, name)
    /\ queue' = queue \o <<Link, Link>>
    /\ conns' = conns \union {Link}
    /\ gone' = IF reset THEN gone \union {Link} ELSE gone
    /\ UNCHANGED <<listener, unposted, box, local, system, scan>>

\* listener_cb; PostMessage may fail.
listener_cb(p, reset) ==
    /\ listener = "on"
    /\ Link <= MaxLinks
    /\ \E name \in getPeerName(p, reset) : names' = Append(names, name)
    /\ \/ queue' = Append(queue, Link) /\ UNCHANGED unposted
       \/ unposted' = unposted \union {Link} /\ UNCHANGED queue
    /\ conns' = conns \union {Link}
    /\ gone' = IF reset THEN gone \union {Link} ELSE gone
    /\ UNCHANGED <<listener, box, local, system, scan>>

\* listener_cb without memory for a bufferevent: event_base_loopbreak ends Run's
\* loop for good, and frees no connection.
listener_cbBreaks ==
    /\ listener = "on"
    /\ listener' = "ended"
    /\ UNCHANGED <<names, conns, gone, unposted, queue, box, local, system, scan>>

\* conn_eventcb: the peer closed the connection, or it failed.  The dialog is told
\* nothing.
conn_eventcb(n) ==
    /\ listener = "on"
    /\ n \in conns \cap gone
    /\ conns' = conns \ {n}
    /\ UNCHANGED <<listener, names, gone, unposted, queue, box, local, system, scan>>

Closed == \E n \in conns : conn_eventcb(n)
-----------------------------------------------------------------------------
(***************************************************************************)
(* Peers and devices.                                                      *)
(***************************************************************************)
PeerLeaves(n) ==
    /\ gone' = gone \union {n}
    /\ UNCHANGED <<listener, names, conns, unposted, queue, box, local, system, scan>>

\* What a change of the list means to a scan that is under way.
Scanning == step \in {"path", "create"}
Noted(shift) ==
    scan' = IF Scanning
            THEN [scan EXCEPT !.steady = @ \cap {d \in ToSet(hids') : d \notin busy'},
                              !.changed = TRUE, !.shifted = @ \/ shift]
            ELSE scan

\* The list's order is the system's affair.
HidPlugged(d, i) ==
    /\ d \notin ToSet(hids)
    /\ hids' = InsertAt(hids, i, d)
    /\ UNCHANGED <<tcp, queue, box, local, busy, ports>>
    /\ Noted(FALSE)

\* Every later device moves up; one that InitSelDev would have asked for next may
\* so get behind deviceNo.
HidUnplugged(i) ==
    /\ hids' = RemoveAt(hids, i)
    /\ UNCHANGED <<tcp, queue, box, local, busy, ports>>
    /\ Noted(i <= deviceNo + (IF step = "create" THEN 1 ELSE 0))

HidTaken(d) ==
    /\ busy' = IF d \in busy THEN busy \ {d} ELSE busy \union {d}
    /\ UNCHANGED <<tcp, queue, box, local, hids, ports>>
    /\ Noted(FALSE)

PortsChange ==
    /\ ports' \in SUBSET Ports \ {ports}
    /\ UNCHANGED <<tcp, queue, box, local, hids, busy, scan>>

System ==
    \/ \E n \in conns \ gone : PeerLeaves(n)
    \/ \E d \in Hids, i \in 1..Len(hids) + 1 : HidPlugged(d, i)
    \/ \E i \in 1..Len(hids) : HidUnplugged(i)
    \/ \E d \in Hids : HidTaken(d)
    \/ PortsChange

Scan == EnumThrows \/ EnumPorts \/ InitSelDev

Next ==
    \/ BeginThread \/ OnBnClickedLink
    \/ Scan
    \/ OnUsernNewLink
    \/ \E p \in Peers, reset \in BOOLEAN : listener_cb(p, reset)
    \/ listener_cbBreaks
    \/ Closed
    \/ System

\* The threads run; messages posted are dispatched before input, so the link
\* button cannot hold them back for ever.  None on peers or devices.
Spec ==
    /\ Init /\ [][Next]_vars
    /\ WF_vars(Scan) /\ WF_vars(BeginThread)
    /\ WF_vars(Closed)
    /\ SF_vars(OnUsernNewLink)
-----------------------------------------------------------------------------
\* Every variable has its type; deviceNo never exceeds the number of devices there
\* are, however the list changes.
TypeOK ==
    /\ listener \in {"none", "on", "ended"}
    /\ names \in Seq(Peers \union {Garbage})
    /\ conns \subseteq 1..Len(names) /\ gone \subseteq 1..Len(names)
    /\ IsABag(items)
    /\ BagToSet(items) \subseteq Ports \union Hids \union Peers \union {Garbage}
    /\ step \in {"idle", "enum", "path", "create"}
    /\ deviceNo \in 0..Cardinality(Hids)
    /\ buf \in Hids \union {NoPath}
    /\ IsInjective(hids) /\ ToSet(hids) \subseteq Hids
    /\ busy \subseteq Hids /\ ports \subseteq Ports

\* Every connection accepted is announced exactly once and in order: its name is
\* in the window's queue, or was added to the box, or went with a rescan
\* (wgwDlg.cpp:445), or its message could not be posted (tcpServer.cpp:118).
PeersAccounted ==
    LET places == <<ToSet(queue), shown, wiped, unposted>>
    IN /\ UNION ToSet(places) = 1..Len(names)
       /\ \A a, b \in 1..4 : a # b => places[a] \intersect places[b] = {}
       /\ \A a, b \in 1..Len(queue) : a < b => queue[a] < queue[b]
       /\ \A n \in shown \union wiped, q \in ToSet(queue) : n < q

\* The box holds what the last scan found and the peers announced since, and no
\* name of an earlier scan, whatever the scans, failures and announcements between.
BoxAccounted ==
    items = SetToBag(scan.ports \union scan.hid)
            (+) [x \in {names[n] : n \in shown} |->
                    Cardinality({n \in shown : names[n] = x})]

\* While the devices stay as they are, a scan lists the first that can be opened;
\* it lists none where none can, or where asking for a path failed: any failure of
\* CH9326GetDevicePath is taken for the list's end (wgwDlg.cpp:396, 429), so a
\* device behind it that could be opened is not tried.
FirstListed ==
    step = "idle" /\ ~ scan.changed =>
        scan.hid = IF scan.failed THEN {} ELSE scan.first

\* However the devices change during a scan, one that could be opened all the time
\* makes the scan list a device, unless an entry that the scan had asked for
\* already was unplugged (wgwDlg.cpp:396: the index then skips a device) or asking
\* for a path failed before (wgwDlg.cpp:429).
NotMissed ==
    step = "idle" /\ scan.steady # {} /\ ~ scan.shifted /\ ~ scan.failed
        => scan.hid # {}

\* A scan ends, though only the end of the list or an open device ends its loop.
ScanEnds == step # "idle" ~> step = "idle"

\* A name posted gets into the box, even if the link button is pressed for ever.
PeersListed ==
    \A n \in 1..MaxLinks : n \in ToSet(queue) ~> n \in shown \union wiped
=============================================================================
